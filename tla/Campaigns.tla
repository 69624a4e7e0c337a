----------------------------- MODULE Campaigns -----------------------------
(***************************************************************************)
(* Campaigns, their members and characters, who played in a session, and   *)
(* what the players may read (app/services/jdr/campaign_context.py,        *)
(* session_access.py, and their part of logic.py, router.py, auth_router.py*)
(* and db/repositories.py).                                                *)
(*                                                                         *)
(* Campaigns are numbered in the order of their creation.  The operations  *)
(* whose checks another request can invalidate before they commit are two  *)
(* steps; what they write must then still satisfy the database's           *)
(* constraints, or they end without effect.  The others are one step: they *)
(* check what never changes while the rows they name exist (the owner and  *)
(* the campaign of a session or character, a membership), and a foreign    *)
(* key stops them when these rows have gone.                               *)
(***************************************************************************)
EXTENDS Naturals, FiniteSets

CONSTANTS
  Users,      \* web users; the internal API key of each has its name
  Bearers,    \* GM API keys that belong to no web user
  Names,      \* names of campaigns, and of characters
  Pjs, Sessions, Keys,   \* ids of the rows of characters, sessions, player keys
  Requests,   \* concurrent API requests
  MaxCampaigns,  \* bound: campaigns ever created
  None

ASSUME CampaignsAssumption ==
  /\ Users \cap Bearers = {}
  /\ Pjs \cap {"narrative", "summary", "elements"} = {}
  /\ Names # {}
  /\ None \notin [owner : Users, name : Names]
  /\ None \notin [owner : Users \cup Bearers, campaign : 1 .. MaxCampaigns,
                  name : Names]
  /\ MaxCampaigns \in Nat

VARIABLES
  user,      \* system role of each web user, "none" before it is created
  campaign,  \* the rows of jdr_campaigns
  made,      \* the last campaign id given
  member,    \* the rows of jdr_campaign_members, by user and campaign
  default,   \* default_campaign_id, 0 when it is null
  pj,        \* the rows of jdr_pjs
  sess,      \* the rows of jdr_sessions, with who played
  key,       \* the player rows of jdr_api_keys
  req        \* the requests between their checks and their commit

vars == <<user, campaign, made, member, default, pj, sess, key, req>>

Actors == Users \cup Bearers
Campaigns == 1 .. MaxCampaigns

(* after: the campaigns of which the user was a member when he joined.     *)
Membership == [role : {"gm", "pj", "none"}, after : SUBSET Campaigns]
NoMembership == [role |-> "none", after |-> {}]

Idle == [kind |-> "idle"]

(* seen: the owner's campaigns when the name was checked (a history field).*)
Request ==
  {Idle}
  \cup [kind : {"setup"}, by : Users, into : 0 .. MaxCampaigns]
  \cup [kind : {"user"}, by : Users, new : Users, role : {"admin", "user"},
        into : 0 .. MaxCampaigns, joins : BOOLEAN]
  \cup [kind : {"create"}, by : Users, name : Names, first : BOOLEAN,
        seen : SUBSET (Campaigns \X Names)]
  \cup [kind : {"rename"}, by : Users, campaign : Campaigns, name : Names,
        seen : SUBSET (Campaigns \X Names)]
  \cup [kind : {"delete"}, by : Users, campaign : Campaigns]

TypeOK ==
  /\ user \in [Users -> {"none", "admin", "user"}]
  /\ campaign \in [Campaigns -> [owner : Users, name : Names] \cup {None}]
  /\ made \in 0 .. MaxCampaigns
  /\ member \in [Users -> [Campaigns -> Membership]]
  /\ default \in [Users -> 0 .. MaxCampaigns]
  /\ pj \in [Pjs -> [owner : Actors, campaign : Campaigns, name : Names]
                    \cup {None}]
  /\ sess \in [Sessions -> [owner : Actors, campaign : Campaigns,
                            who : SUBSET Pjs] \cup {None}]
  /\ key \in [Keys -> [pj : Pjs, active : BOOLEAN] \cup {None}]
  /\ req \in [Requests -> Request]

----------------------------------------------------------------------------
(* Reading memberships.                                                    *)

(* What a query returns that orders its rows and keeps one, 0 for none.    *)
FirstOf(S) == IF S = {} THEN 0 ELSE CHOOSE c \in S : TRUE

(* get_default_campaign.                                                   *)
Oldest ==
  FirstOf({c \in Campaigns :
             /\ campaign[c] # None
             /\ \A d \in Campaigns : campaign[d] # None => c <= d})

Joined(u) == {c \in Campaigns : member[u][c].role # "none"}

(* require_campaign_gm.                                                    *)
IsGm(u, c) == member[u][c].role = "gm"

(* resolve_active_campaign_for_user: the default campaign, else the first  *)
(* one joined.                                                             *)
Active(u) ==
  IF default[u] \in Joined(u) THEN default[u]
  ELSE FirstOf({c \in Joined(u) : member[u][c].after \cap Joined(u) = {}})

(* resolve_campaign_scope_for_auth, for a GM key or a web user.            *)
Scope(a) == IF a \in Users THEN Active(a) ELSE Oldest

Owned(u) == {c \in Campaigns : campaign[c] # None /\ campaign[c].owner = u}
OwnedNames(u) == {<<c, campaign[c].name>> : c \in Owned(u)}

(* user_has_campaign_named.                                                *)
NameTaken(u, n, but) == \E c \in Owned(u) \ {but} : campaign[c].name = n

(* resolve_session_for_gm.                                                 *)
Resolves(a, s) ==
  /\ sess[s] # None
  /\ sess[s].owner = a
  /\ a \in Users => IsGm(a, sess[s].campaign)

----------------------------------------------------------------------------
(* Users, and the campaigns they find themselves in.                       *)

Begin(r, plan) ==
  /\ req[r] = Idle
  /\ req' = [req EXCEPT ![r] = plan]
  /\ UNCHANGED <<user, campaign, made, member, default, pj, sess, key>>

Finish(r) == req' = [req EXCEPT ![r] = Idle]

Join(m, u, c, role) ==
  [m EXCEPT ![u][c] = [role |-> role, after |-> Joined(u)]]

(* The next campaign, of u.                                                *)
NewCampaign(u, n) ==
  /\ made < MaxCampaigns
  /\ made' = made + 1
  /\ campaign' = [campaign EXCEPT ![made + 1] = [owner |-> u, name |-> n]]

DefaultName == CHOOSE n \in Names : TRUE

(* post_setup: the first administrator, in the first campaign.             *)
SetupCheck(r, u) ==
  /\ \A v \in Users : user[v] = "none"
  /\ Begin(r, [kind |-> "setup", by |-> u, into |-> Oldest])

SetupCommit(r) ==
  LET u == req[r].by  c == IF req[r].into = 0 THEN made + 1 ELSE req[r].into IN
  /\ req[r].kind = "setup"
  /\ user[u] = "none"
  /\ IF req[r].into = 0 THEN NewCampaign(u, DefaultName)
     ELSE campaign[c] # None /\ UNCHANGED <<campaign, made>>
  /\ user' = [user EXCEPT ![u] = "admin"]
  /\ member' = Join(member, u, c, "gm")
  /\ default' = [default EXCEPT ![u] = c]
  /\ Finish(r)
  /\ UNCHANGED <<pj, sess, key>>

(* post_user: the new user becomes a player of the administrator's active  *)
(* campaign; an administrator without one joins the oldest campaign, or    *)
(* makes the default one.                                                  *)
UserCheck(r, u, v, role) ==
  /\ user[u] = "admin" /\ user[v] = "none"
  /\ Begin(r, [kind |-> "user", by |-> u, new |-> v, role |-> role,
               into |-> IF Active(u) # 0 THEN Active(u) ELSE Oldest,
               joins |-> Active(u) = 0])

UserCommit(r) ==
  LET u == req[r].by  v == req[r].new
      c == IF req[r].into = 0 THEN made + 1 ELSE req[r].into
      m == IF req[r].joins THEN Join(member, u, c, "gm") ELSE member IN
  /\ req[r].kind = "user"
  /\ user[v] = "none"
  /\ req[r].joins => c \notin Joined(u)
  /\ IF req[r].into = 0 THEN NewCampaign(u, DefaultName)
     ELSE campaign[c] # None /\ UNCHANGED <<campaign, made>>
  /\ user' = [user EXCEPT ![v] = req[r].role]
  /\ member' = Join(m, v, c, "pj")
  /\ default' = [w \in Users |->
                   IF w = v \/ (w = u /\ req[r].joins)
                   THEN c ELSE default[w]]
  /\ Finish(r)
  /\ UNCHANGED <<pj, sess, key>>

----------------------------------------------------------------------------
(* Campaigns.                                                              *)

MutantCreateCampaignCheck(r, u, n) ==
  /\ user[u] # "none"
  /\ Begin(r, [kind |-> "create", by |-> u, name |-> n,
               first |-> default[u] = 0, seen |-> OwnedNames(u)])

CreateCampaignCheck(r, u, n) ==
  /\ user[u] # "none"
  /\ ~NameTaken(u, n, 0)
  /\ Begin(r, [kind |-> "create", by |-> u, name |-> n,
               first |-> default[u] = 0, seen |-> OwnedNames(u)])

CreateCampaignCommit(r) ==
  LET u == req[r].by IN
  /\ req[r].kind = "create"
  /\ NewCampaign(u, req[r].name)
  /\ member' = Join(member, u, made + 1, "gm")
  /\ default' = [default EXCEPT ![u] = IF req[r].first THEN made + 1 ELSE @]
  /\ Finish(r)
  /\ UNCHANGED <<user, pj, sess, key>>

(* The name must be free among the campaigns of the owner, not of the GM   *)
(* who renames.                                                            *)
RenameCampaignCheck(r, u, c, n) ==
  /\ campaign[c] # None
  /\ IsGm(u, c)
  /\ ~NameTaken(campaign[c].owner, n, c)
  /\ Begin(r, [kind |-> "rename", by |-> u, campaign |-> c, name |-> n,
               seen |-> OwnedNames(campaign[c].owner)])

RenameCampaignCommit(r) ==
  LET c == req[r].campaign IN
  /\ req[r].kind = "rename"
  /\ campaign[c] # None
  /\ campaign' = [campaign EXCEPT ![c].name = req[r].name]
  /\ Finish(r)
  /\ UNCHANGED <<user, made, member, default, pj, sess, key>>

DeleteCampaignCheck(r, u, c) ==
  /\ campaign[c] # None
  /\ IsGm(u, c)
  /\ \A s \in Sessions : sess[s] # None => sess[s].campaign # c
  /\ Begin(r, [kind |-> "delete", by |-> u, campaign |-> c])

(* ON DELETE CASCADE removes the memberships, SET NULL the defaults.       *)
Erase(c) ==
  /\ campaign' = [campaign EXCEPT ![c] = None]
  /\ member' = [u \in Users |-> [member[u] EXCEPT ![c] = NoMembership]]
  /\ default' = [u \in Users |-> IF default[u] = c THEN 0 ELSE default[u]]

MutantDeleteCampaignCommit(r) ==
  /\ req[r].kind = "delete"
  /\ campaign[req[r].campaign] # None
  /\ \A p \in Pjs : pj[p] # None => pj[p].campaign # req[r].campaign
  /\ Erase(req[r].campaign)
  /\ Finish(r)
  /\ UNCHANGED <<user, made, pj, sess, key>>

(* ON DELETE RESTRICT: a session created since the check, or a character,  *)
(* which no check looks for, stops the deletion.                           *)
DeleteCampaignCommit(r) ==
  /\ req[r].kind = "delete"
  /\ campaign[req[r].campaign] # None
  /\ \A s \in Sessions : sess[s] # None => sess[s].campaign # req[r].campaign
  /\ \A p \in Pjs : pj[p] # None => pj[p].campaign # req[r].campaign
  /\ Erase(req[r].campaign)
  /\ Finish(r)
  /\ UNCHANGED <<user, made, pj, sess, key>>

(* An error answer, a violated constraint, the death of the API.           *)
Abort(r) ==
  /\ req[r] # Idle
  /\ Finish(r)
  /\ UNCHANGED <<user, campaign, made, member, default, pj, sess, key>>

----------------------------------------------------------------------------
(* Sessions, characters and players.                                       *)

restUnchanged == UNCHANGED <<user, campaign, made, member, default, req>>

MutantCreateSession(a, s, c) ==
  /\ sess[s] = None
  /\ campaign[c] # None
  /\ a \in Users => user[a] # "none" /\ c \in Joined(a)
  /\ sess' = [sess EXCEPT ![s] = [owner |-> a, campaign |-> c, who |-> {}]]
  /\ UNCHANGED <<pj, key>>
  /\ restUnchanged

(* A web user must be a GM of the campaign; a bearer key may name any.     *)
CreateSession(a, s, c) ==
  /\ sess[s] = None
  /\ campaign[c] # None
  /\ a \in Users => IsGm(a, c)
  /\ sess' = [sess EXCEPT ![s] = [owner |-> a, campaign |-> c, who |-> {}]]
  /\ UNCHANGED <<pj, key>>
  /\ restUnchanged

(* Its mapping and its player list go with the session.                    *)
DeleteSession(a, s) ==
  /\ Resolves(a, s)
  /\ sess' = [sess EXCEPT ![s] = None]
  /\ UNCHANGED <<pj, key>>
  /\ restUnchanged

PjNameFree(c, n, but) ==
  \A p \in Pjs \ {but} : pj[p] # None => pj[p].campaign # c \/ pj[p].name # n

(* c: the campaign the body names, or else the default one of a web user.  *)
CreatePj(a, p, c, n) ==
  /\ pj[p] = None
  /\ campaign[c] # None
  /\ a \in Users => IsGm(a, c)
  /\ PjNameFree(c, n, p)
  /\ pj' = [pj EXCEPT ![p] = [owner |-> a, campaign |-> c, name |-> n]]
  /\ UNCHANGED <<sess, key>>
  /\ restUnchanged

UpdatePj(a, p, n) ==
  /\ pj[p] # None
  /\ pj[p].owner = a
  /\ a \in Users => IsGm(a, pj[p].campaign)
  /\ PjNameFree(pj[p].campaign, n, p)
  /\ pj' = [pj EXCEPT ![p].name = n]
  /\ UNCHANGED <<sess, key>>
  /\ restUnchanged

MutantMayPlay(s, p) == pj[p] # None /\ pj[p].campaign = sess[s].campaign

(* A character that may be mapped or listed: of the GM of the session and  *)
(* of its campaign.                                                        *)
MayPlay(s, p) ==
  /\ pj[p] # None
  /\ pj[p].owner = sess[s].owner
  /\ pj[p].campaign = sess[s].campaign

(* put_session_mapping on a diarised session (transcribed, see Artifacts), *)
(* post_session_players on a non-diarised one: each refuses the other      *)
(* mode, which never changes, so one table is enough for both.             *)
SetWho(a, s, who) ==
  /\ Resolves(a, s)
  /\ \A p \in who : MayPlay(s, p)
  /\ sess' = [sess EXCEPT ![s].who = who]
  /\ UNCHANGED <<pj, key>>
  /\ restUnchanged

(* The character must be the GM's and in the GM's active campaign.         *)
EnrollPlayer(a, k, p) ==
  /\ key[k] = None
  /\ a \in Users => user[a] # "none"
  /\ pj[p] # None
  /\ pj[p].owner = a
  /\ Scope(a) \in {0, pj[p].campaign}
  /\ key' = [key EXCEPT ![k] = [pj |-> p, active |-> TRUE]]
  /\ UNCHANGED <<pj, sess>>
  /\ restUnchanged

(* In whatever campaign the character is.                                  *)
RevokePlayer(a, k) ==
  /\ key[k] # None
  /\ pj[key[k].pj].owner = a
  /\ key' = [key EXCEPT ![k].active = FALSE]
  /\ UNCHANGED <<pj, sess>>
  /\ restUnchanged

----------------------------------------------------------------------------
(* What a player key reads.  Its campaign is the one of its character.     *)

(* list_player_sessions lists by this condition, and                       *)
(* is_pj_mapped_on_session checks it before every read.                    *)
MayRead(k, s) ==
  /\ sess[s] # None
  /\ sess[s].campaign = pj[key[k].pj].campaign
  /\ key[k].pj \in sess[s].who

(* The artifacts of the session.                                           *)
ServedTexts(k, s) == IF MayRead(k, s) THEN {"narrative", "summary", "elements"} ELSE {}

(* The point of view of the key's own character, and no other.             *)
ServedPov(k, s) == IF MayRead(k, s) THEN {key[k].pj} ELSE {}

(* What a player key that is not revoked gets.                             *)
Served(k, s) ==
  IF key[k] # None /\ key[k].active THEN ServedTexts(k, s) \cup ServedPov(k, s)
  ELSE {}

----------------------------------------------------------------------------
Init ==
  /\ user = [u \in Users |-> "none"]
  /\ campaign = [c \in Campaigns |-> None]
  /\ made = 0
  /\ member = [u \in Users |-> [c \in Campaigns |-> NoMembership]]
  /\ default = [u \in Users |-> 0]
  /\ pj = [p \in Pjs |-> None]
  /\ sess = [s \in Sessions |-> None]
  /\ key = [k \in Keys |-> None]
  /\ req = [r \in Requests |-> Idle]

CampaignRequest(r) ==
  \/ \E u \in Users :
       \/ SetupCheck(r, u)
       \/ \E v \in Users, role \in {"admin", "user"} : UserCheck(r, u, v, role)
       \/ \E n \in Names : CreateCampaignCheck(r, u, n)
       \/ \E c \in Campaigns, n \in Names : RenameCampaignCheck(r, u, c, n)
       \/ \E c \in Campaigns : DeleteCampaignCheck(r, u, c)
  \/ SetupCommit(r) \/ UserCommit(r)
  \/ CreateCampaignCommit(r) \/ RenameCampaignCommit(r)
  \/ DeleteCampaignCommit(r)
  \/ Abort(r)

GmRequest(a) ==
  \/ \E s \in Sessions, c \in Campaigns : CreateSession(a, s, c)
  \/ \E s \in Sessions : DeleteSession(a, s)
  \/ \E p \in Pjs, c \in Campaigns, n \in Names : CreatePj(a, p, c, n)
  \/ \E p \in Pjs, n \in Names : UpdatePj(a, p, n)
  \/ \E s \in Sessions, who \in SUBSET Pjs : SetWho(a, s, who)
  \/ \E k \in Keys, p \in Pjs : EnrollPlayer(a, k, p)
  \/ \E k \in Keys : RevokePlayer(a, k)

Next ==
  \/ \E r \in Requests : CampaignRequest(r)
  \/ \E a \in Actors : GmRequest(a)

Spec == Init /\ [][Next]_vars

----------------------------------------------------------------------------
(* Nothing outlives its campaign: not a session, a character, a membership *)
(* or a default, although a deletion looks for sessions before it commits  *)
(* and for nothing else; and a user is a member of the default campaign.   *)
NothingOutlivesItsCampaign ==
  /\ \A s \in Sessions : sess[s] # None => campaign[sess[s].campaign] # None
  /\ \A p \in Pjs : pj[p] # None => campaign[pj[p].campaign] # None
  /\ \A u \in Users :
       /\ \A c \in Joined(u) : campaign[c] # None
       /\ default[u] # 0 => default[u] \in Joined(u)

(* A web user manages the sessions he has created as long as they exist,   *)
(* whatever becomes of his campaigns and of the active one.                *)
OwnersManageTheirSessions ==
  \A s \in Sessions, u \in Users :
    sess[s] # None /\ sess[s].owner = u => Resolves(u, s)

(* A player key is served only in sessions of the GM who owns its          *)
(* character, and no point of view but the one of its character, listed in *)
(* the session: two GMs of one campaign do not reach each other's players. *)
PlayersStayWithTheirGm ==
  \A k \in Keys, s \in Sessions :
    Served(k, s) # {} =>
      /\ pj[key[k].pj].owner = sess[s].owner
      /\ \A p \in Served(k, s) \cap Pjs : p \in sess[s].who

(* A campaign gets a name that another one of its owner has only when two  *)
(* requests overlap: the owner's campaigns are not the ones seen by the    *)
(* check of the request that commits.                                      *)
SameNameOnlyByRace ==
  [][\A c, d \in Campaigns :
       /\ c # d /\ campaign'[c] # None /\ campaign'[d] # None
       /\ campaign'[c] = campaign'[d]
       /\ campaign[c] # campaign'[c]
       => \E r \in Requests :
            /\ req'[r] = Idle
            /\ \/ req[r].kind \in {"setup", "user"} /\ req[r].into = 0
               \/ req[r].kind \in {"create", "rename"}
                  /\ req[r].seen # OwnedNames(campaign'[c].owner)]_vars
=============================================================================
