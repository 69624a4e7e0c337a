-------------------------- MODULE CampaignsProofs --------------------------
(***************************************************************************)
(* Proofs about Campaigns: its types, and that nothing outlives its        *)
(* campaign, that owners manage their sessions, that players stay with     *)
(* their GM, and that two campaigns of an owner share a name only when     *)
(* requests overlap.                                                       *)
(***************************************************************************)
EXTENDS Campaigns, TLAPS

(* An account is not a member of anything before it is created, and who    *)
(* has an account keeps it while his request waits for its commit.         *)
MembersHaveAccounts ==
  /\ \A u \in Users : user[u] = "none" => Joined(u) = {}
  /\ \A r \in Requests :
       req[r].kind \in {"user", "create"} => user[req[r].by] # "none"

(* The user who created a session is a GM of its campaign.                 *)
OwnersAreGms ==
  \A s \in Sessions :
    sess[s] # None /\ sess[s].owner \in Users
      => IsGm(sess[s].owner, sess[s].campaign)

(* Who is listed in a session may play in it.                              *)
ListedMayPlay ==
  \A s \in Sessions : sess[s] # None => \A p \in sess[s].who : MayPlay(s, p)

(* The name that a request found free is free among the names it saw.      *)
SeenNamesDiffer ==
  \A r \in Requests :
    /\ req[r].kind = "create" => \A x \in req[r].seen : x[2] # req[r].name
    /\ req[r].kind = "rename" =>
         \A x \in req[r].seen : x[2] = req[r].name => x[1] = req[r].campaign

Inv ==
  /\ TypeOK
  /\ NothingOutlivesItsCampaign
  /\ MembersHaveAccounts
  /\ OwnersAreGms
  /\ ListedMayPlay
  /\ SeenNamesDiffer

----------------------------------------------------------------------------
LEMMA DefaultNameType == DefaultName \in Names
BY CampaignsAssumption DEF DefaultName

LEMMA FirstOfIsIn ==
  ASSUME NEW S
  PROVE  FirstOf(S) = 0 \/ FirstOf(S) \in S
BY DEF FirstOf

LEMMA OldestType == Oldest \in 0 .. MaxCampaigns
<1> DEFINE S == {c \in Campaigns :
                  /\ campaign[c] # None
                  /\ \A d \in Campaigns : campaign[d] # None => c <= d}
<1>1. FirstOf(S) = 0 \/ FirstOf(S) \in Campaigns
  BY FirstOfIsIn
<1> QED
  BY <1>1, CampaignsAssumption DEF Oldest, Campaigns

LEMMA ActiveType ==
  ASSUME TypeOK, NEW u \in Users
  PROVE  Active(u) \in 0 .. MaxCampaigns
<1> DEFINE S == {c \in Joined(u) : member[u][c].after \cap Joined(u) = {}}
<1>1. FirstOf(S) = 0 \/ FirstOf(S) \in Campaigns
  BY FirstOfIsIn DEF Joined
<1> QED
  BY <1>1, CampaignsAssumption DEF Active, Campaigns, TypeOK

(* What a request holds while it waits for its commit.                     *)
LEMMA RequestTypes ==
  ASSUME TypeOK, NEW r \in Requests
  PROVE  /\ req[r].kind \in {"setup", "user"} =>
               /\ req[r].by \in Users
               /\ req[r].into \in 0 .. MaxCampaigns
         /\ req[r].kind = "user" =>
               /\ req[r].new \in Users
               /\ req[r].role \in {"admin", "user"}
               /\ req[r].joins \in BOOLEAN
         /\ req[r].kind = "create" =>
               /\ req[r].by \in Users
               /\ req[r].name \in Names
               /\ req[r].first \in BOOLEAN
         /\ req[r].kind \in {"rename", "delete"} =>
               req[r].campaign \in Campaigns
         /\ req[r].kind = "rename" => req[r].name \in Names
BY DEF TypeOK, Request, Idle

LEMMA OwnedNamesType ==
  ASSUME TypeOK, NEW u \in Users
  PROVE  OwnedNames(u) \in SUBSET (Campaigns \X Names)
<1>1. \A c \in Owned(u) : c \in Campaigns /\ campaign[c].name \in Names
  BY DEF TypeOK, Owned
<1> QED
  BY <1>1 DEF OwnedNames

(* A new membership, and the others as they were.                          *)
LEMMA JoinReads ==
  ASSUME TypeOK, NEW m \in [Users -> [Campaigns -> Membership]],
         NEW u \in Users, NEW c \in Campaigns, NEW role \in {"gm", "pj"}
  PROVE  /\ Join(m, u, c, role) \in [Users -> [Campaigns -> Membership]]
         /\ \A w \in Users, d \in Campaigns :
              Join(m, u, c, role)[w][d].role =
                IF w = u /\ d = c THEN role ELSE m[w][d].role
<1> DEFINE e == [role |-> role, after |-> Joined(u)]
           f == [m[u] EXCEPT ![c] = e]
<1>1. e \in Membership
  BY DEF Membership, Joined
<1>2. f \in [Campaigns -> Membership]
  BY <1>1
<1>3. Join(m, u, c, role) = [m EXCEPT ![u] = f]
  BY DEF Join
<1>4. \A d \in Campaigns : f[d].role = IF d = c THEN role ELSE m[u][d].role
  OBVIOUS
<1> HIDE DEF f
<1> QED
  BY <1>2, <1>3, <1>4

(* The next campaign is a new one.                                         *)
LEMMA NewCampaignEffect ==
  ASSUME TypeOK, NEW u \in Users, NEW n \in Names, NewCampaign(u, n)
  PROVE  /\ made + 1 \in Campaigns
         /\ made' \in 0 .. MaxCampaigns
         /\ campaign' \in [Campaigns -> [owner : Users, name : Names] \cup {None}]
         /\ campaign' = [campaign EXCEPT ![made + 1] = [owner |-> u, name |-> n]]
         /\ campaign'[made + 1] = [owner |-> u, name |-> n]
         /\ campaign'[made + 1] # None
<1>1. made + 1 \in Campaigns /\ made' \in 0 .. MaxCampaigns
  BY CampaignsAssumption DEF TypeOK, NewCampaign, Campaigns
<1>2. [owner |-> u, name |-> n] \in [owner : Users, name : Names]
  OBVIOUS
<1> QED
  BY <1>1, <1>2, CampaignsAssumption DEF TypeOK, NewCampaign

LEMMA EraseEffect ==
  ASSUME TypeOK, NEW c \in Campaigns, Erase(c)
  PROVE  /\ campaign' \in [Campaigns -> [owner : Users, name : Names] \cup {None}]
         /\ \A d \in Campaigns : d # c => campaign'[d] = campaign[d]
         /\ member' \in [Users -> [Campaigns -> Membership]]
         /\ \A w \in Users, d \in Campaigns :
              member'[w][d].role =
                IF d = c THEN "none" ELSE member[w][d].role
         /\ default' \in [Users -> 0 .. MaxCampaigns]
         /\ \A w \in Users :
              default'[w] = IF default[w] = c THEN 0 ELSE default[w]
<1>1. NoMembership \in Membership /\ NoMembership.role = "none"
  BY DEF NoMembership, Membership
<1>2. \A w \in Users : member[w] \in [Campaigns -> Membership]
  BY DEF TypeOK
<1>3. \A w \in Users :
        [member[w] EXCEPT ![c] = NoMembership] \in [Campaigns -> Membership]
  BY <1>1, <1>2
<1>4. member' = [u \in Users |-> [member[u] EXCEPT ![c] = NoMembership]]
  BY DEF Erase
<1>5. member' \in [Users -> [Campaigns -> Membership]]
  BY <1>3, <1>4
<1>6. ASSUME NEW w \in Users, NEW d \in Campaigns
      PROVE  member'[w][d].role = IF d = c THEN "none" ELSE member[w][d].role
  <2>1. member'[w] = [member[w] EXCEPT ![c] = NoMembership]
    BY <1>4
  <2> QED
    BY <2>1, <1>1, <1>2
<1>7. /\ default' \in [Users -> 0 .. MaxCampaigns]
      /\ \A w \in Users :
           default'[w] = IF default[w] = c THEN 0 ELSE default[w]
  BY CampaignsAssumption DEF Erase, TypeOK
<1>8. /\ campaign' \in [Campaigns -> [owner : Users, name : Names] \cup {None}]
      /\ \A d \in Campaigns : d # c => campaign'[d] = campaign[d]
  BY DEF Erase, TypeOK
<1> QED
  BY <1>5, <1>6, <1>7, <1>8

----------------------------------------------------------------------------
LEMMA InitTypes == Init => TypeOK
BY CampaignsAssumption
   DEF Init, TypeOK, Request, Membership, NoMembership

LEMMA BeginTypes ==
  ASSUME TypeOK, NEW r \in Requests, NEW plan \in Request, Begin(r, plan)
  PROVE  TypeOK'
BY DEF TypeOK, Begin

LEMMA FinishTypes ==
  ASSUME TypeOK, NEW r \in Requests, Finish(r)
  PROVE  req' \in [Requests -> Request]
BY DEF TypeOK, Finish, Request

(* The campaign in which a request puts a user, and the one it makes.      *)
LEMMA IntoEffect ==
  ASSUME TypeOK, NEW r \in Requests, req[r].kind \in {"setup", "user"},
         NEW u \in Users, NEW c,
         c = IF req[r].into = 0 THEN made + 1 ELSE req[r].into,
         IF req[r].into = 0 THEN NewCampaign(u, DefaultName)
         ELSE campaign[c] # None /\ UNCHANGED <<campaign, made>>
  PROVE  /\ c \in Campaigns
         /\ made' \in 0 .. MaxCampaigns
         /\ campaign' \in [Campaigns -> [owner : Users, name : Names] \cup {None}]
         /\ campaign'[c] # None
         /\ \A d \in Campaigns : d # c => campaign'[d] = campaign[d]
         /\ req[r].into # 0 => campaign' = campaign
<1>1. CASE req[r].into = 0
  BY <1>1, NewCampaignEffect, DefaultNameType DEF TypeOK
<1>2. CASE req[r].into # 0
  <2>1. req[r].into \in 0 .. MaxCampaigns
    BY RequestTypes
  <2>2. c \in Campaigns
    BY <1>2, <2>1, CampaignsAssumption DEF Campaigns
  <2> QED
    BY <1>2, <2>2 DEF TypeOK
<1> QED
  BY <1>1, <1>2

(* What the commits of a request do to campaigns, memberships and defaults.*)
LEMMA SetupEffect ==
  ASSUME TypeOK, NEW r \in Requests, SetupCommit(r)
  PROVE  /\ TypeOK'
         /\ \E c \in Campaigns :
              /\ campaign'[c] # None
              /\ \A d \in Campaigns : d # c => campaign'[d] = campaign[d]
              /\ req[r].into # 0 => campaign' = campaign
              /\ \A w \in Users, d \in Campaigns :
                   member'[w][d].role =
                     IF w = req[r].by /\ d = c THEN "gm" ELSE member[w][d].role
              /\ \A w \in Users :
                   default'[w] = IF w = req[r].by THEN c ELSE default[w]
<1> DEFINE u == req[r].by
           c == IF req[r].into = 0 THEN made + 1 ELSE req[r].into
<1>1. u \in Users /\ req[r].kind = "setup"
  BY RequestTypes DEF SetupCommit
<1>2. /\ c \in Campaigns
      /\ made' \in 0 .. MaxCampaigns
      /\ campaign' \in [Campaigns -> [owner : Users, name : Names] \cup {None}]
      /\ campaign'[c] # None
      /\ \A d \in Campaigns : d # c => campaign'[d] = campaign[d]
      /\ req[r].into # 0 => campaign' = campaign
  BY <1>1, IntoEffect DEF SetupCommit
<1>3. member' = Join(member, u, c, "gm")
  BY DEF SetupCommit
<1> HIDE DEF c
<1>4. /\ member' \in [Users -> [Campaigns -> Membership]]
      /\ \A w \in Users, d \in Campaigns :
           member'[w][d].role =
             IF w = u /\ d = c THEN "gm" ELSE member[w][d].role
  <2>1. member \in [Users -> [Campaigns -> Membership]]
    BY DEF TypeOK
  <2> HIDE DEF u
  <2> QED
    BY <1>1, <1>2, <1>3, <2>1, JoinReads
<1>5. default' = [default EXCEPT ![u] = c]
  BY DEF SetupCommit, c
<1>6. /\ default' \in [Users -> 0 .. MaxCampaigns]
      /\ \A w \in Users : default'[w] = IF w = u THEN c ELSE default[w]
  BY <1>1, <1>2, <1>5, CampaignsAssumption DEF TypeOK, Campaigns
<1>7. req' \in [Requests -> Request]
  BY FinishTypes DEF SetupCommit
<1>8. /\ user' \in [Users -> {"none", "admin", "user"}]
      /\ UNCHANGED <<pj, sess, key>>
  BY <1>1 DEF SetupCommit, TypeOK
<1> QED
  BY <1>2, <1>4, <1>6, <1>7, <1>8 DEF TypeOK

LEMMA UserEffect ==
  ASSUME TypeOK, NEW r \in Requests, UserCommit(r)
  PROVE  /\ TypeOK'
         /\ \E c \in Campaigns :
              /\ campaign'[c] # None
              /\ \A d \in Campaigns : d # c => campaign'[d] = campaign[d]
              /\ req[r].into # 0 => campaign' = campaign
              /\ \A w \in Users, d \in Campaigns :
                   member'[w][d].role =
                     IF w = req[r].new /\ d = c THEN "pj"
                     ELSE IF req[r].joins /\ w = req[r].by /\ d = c THEN "gm"
                     ELSE member[w][d].role
              /\ \A w \in Users :
                   default'[w] =
                     IF w = req[r].new \/ (w = req[r].by /\ req[r].joins)
                     THEN c ELSE default[w]
<1> DEFINE u == req[r].by
           v == req[r].new
           c == IF req[r].into = 0 THEN made + 1 ELSE req[r].into
           m == IF req[r].joins THEN Join(member, u, c, "gm") ELSE member
<1>1. u \in Users /\ v \in Users /\ req[r].kind = "user"
  BY RequestTypes DEF UserCommit
<1>2. /\ c \in Campaigns
      /\ made' \in 0 .. MaxCampaigns
      /\ campaign' \in [Campaigns -> [owner : Users, name : Names] \cup {None}]
      /\ campaign'[c] # None
      /\ \A d \in Campaigns : d # c => campaign'[d] = campaign[d]
      /\ req[r].into # 0 => campaign' = campaign
  BY <1>1, IntoEffect DEF UserCommit
<1>3. /\ member' = Join(m, v, c, "pj")
      /\ default' = [w \in Users |->
                       IF w = v \/ (w = u /\ req[r].joins)
                       THEN c ELSE default[w]]
      /\ user' = [user EXCEPT ![v] = req[r].role]
      /\ UNCHANGED <<pj, sess, key>>
  BY DEF UserCommit
<1> HIDE DEF c
<1>4. member \in [Users -> [Campaigns -> Membership]]
  BY DEF TypeOK
<1>5. /\ m \in [Users -> [Campaigns -> Membership]]
      /\ \A w \in Users, d \in Campaigns :
           m[w][d].role = IF req[r].joins /\ w = u /\ d = c THEN "gm"
                          ELSE member[w][d].role
  <2> HIDE DEF u
  <2>1. CASE req[r].joins
    <3>1. m = Join(member, u, c, "gm")
      BY <2>1
    <3> HIDE DEF m
    <3> QED
      BY <1>1, <1>2, <1>4, <2>1, <3>1, JoinReads
  <2>2. CASE ~ req[r].joins
    <3>1. m = member
      BY <2>2
    <3> QED
      BY <1>4, <2>2, <3>1
  <2> QED
    BY <2>1, <2>2
<1> HIDE DEF m, u, v
<1>6. /\ member' \in [Users -> [Campaigns -> Membership]]
      /\ \A w \in Users, d \in Campaigns :
           member'[w][d].role = IF w = v /\ d = c THEN "pj" ELSE m[w][d].role
  <2>1. v \in Users /\ c \in Campaigns /\ member' = Join(m, v, c, "pj")
    BY <1>1, <1>2, <1>3
  <2>2. m \in [Users -> [Campaigns -> Membership]]
    BY <1>5
  <2> QED
    BY <2>1, <2>2, JoinReads
<1>7. default' \in [Users -> 0 .. MaxCampaigns]
  BY <1>2, <1>3, CampaignsAssumption DEF TypeOK, Campaigns
<1>8. req' \in [Requests -> Request]
  BY FinishTypes DEF UserCommit
<1>9. user' \in [Users -> {"none", "admin", "user"}]
  BY <1>1, <1>3, RequestTypes DEF TypeOK
<1>10. TypeOK'
  BY <1>2, <1>3, <1>6, <1>7, <1>8, <1>9 DEF TypeOK
<1>11. \A w \in Users, d \in Campaigns :
         member'[w][d].role =
           IF w = v /\ d = c THEN "pj"
           ELSE IF req[r].joins /\ w = u /\ d = c THEN "gm"
           ELSE member[w][d].role
  BY <1>5, <1>6
<1>12. \A w \in Users :
         default'[w] = IF w = v \/ (w = u /\ req[r].joins)
                       THEN c ELSE default[w]
  BY <1>3
<1> QED
  BY <1>2, <1>10, <1>11, <1>12 DEF u, v

LEMMA CreateEffect ==
  ASSUME TypeOK, NEW r \in Requests, CreateCampaignCommit(r)
  PROVE  /\ TypeOK'
         /\ \E c \in Campaigns :
              /\ campaign' = [campaign EXCEPT ![c] =
                                [owner |-> req[r].by, name |-> req[r].name]]
              /\ campaign'[c] # None
              /\ \A w \in Users, d \in Campaigns :
                   member'[w][d].role =
                     IF w = req[r].by /\ d = c THEN "gm" ELSE member[w][d].role
              /\ \A w \in Users :
                   default'[w] = IF w = req[r].by /\ req[r].first THEN c
                                 ELSE default[w]
<1> DEFINE u == req[r].by
           c == made + 1
<1>1. u \in Users /\ req[r].name \in Names /\ req[r].kind = "create"
  BY RequestTypes DEF CreateCampaignCommit
<1>2. /\ c \in Campaigns
      /\ made' \in 0 .. MaxCampaigns
      /\ campaign' \in [Campaigns -> [owner : Users, name : Names] \cup {None}]
      /\ campaign' = [campaign EXCEPT ![c] = [owner |-> u, name |-> req[r].name]]
      /\ campaign'[c] # None
  BY <1>1, NewCampaignEffect DEF CreateCampaignCommit
<1>3. member' = Join(member, u, c, "gm")
  BY DEF CreateCampaignCommit
<1>4. default' = [default EXCEPT ![u] = IF req[r].first THEN c ELSE @]
  BY DEF CreateCampaignCommit
<1> HIDE DEF c
<1>5. /\ member' \in [Users -> [Campaigns -> Membership]]
      /\ \A w \in Users, d \in Campaigns :
           member'[w][d].role =
             IF w = u /\ d = c THEN "gm" ELSE member[w][d].role
  <2>1. member \in [Users -> [Campaigns -> Membership]]
    BY DEF TypeOK
  <2> HIDE DEF u
  <2> QED
    BY <1>1, <1>2, <1>3, <2>1, JoinReads
<1>6. /\ default' \in [Users -> 0 .. MaxCampaigns]
      /\ \A w \in Users :
           default'[w] = IF w = u /\ req[r].first THEN c ELSE default[w]
  BY <1>1, <1>2, <1>4, CampaignsAssumption DEF TypeOK, Campaigns
<1>7. req' \in [Requests -> Request]
  BY FinishTypes DEF CreateCampaignCommit
<1>8. UNCHANGED <<user, pj, sess, key>>
  BY DEF CreateCampaignCommit
<1> QED
  BY <1>2, <1>5, <1>6, <1>7, <1>8 DEF TypeOK

LEMMA RenameEffect ==
  ASSUME TypeOK, NEW r \in Requests, RenameCampaignCommit(r)
  PROVE  /\ TypeOK'
         /\ req[r].campaign \in Campaigns
         /\ \A d \in Campaigns : campaign[d] # None => campaign'[d] # None
         /\ \A d \in Campaigns : d # req[r].campaign => campaign'[d] = campaign[d]
         /\ campaign'[req[r].campaign] =
              [owner |-> campaign[req[r].campaign].owner, name |-> req[r].name]
<1> DEFINE c == req[r].campaign
           row == [campaign[c] EXCEPT !.name = req[r].name]
<1>1. c \in Campaigns /\ req[r].name \in Names /\ campaign[c] # None
  BY RequestTypes DEF RenameCampaignCommit
<1>2. campaign[c] \in [owner : Users, name : Names]
  BY <1>1 DEF TypeOK
<1>3. /\ row = [owner |-> campaign[c].owner, name |-> req[r].name]
      /\ row \in [owner : Users, name : Names]
  BY <1>1, <1>2
<1>4. campaign' = [campaign EXCEPT ![c] = row]
  BY DEF RenameCampaignCommit
<1>5. req' \in [Requests -> Request] /\ UNCHANGED <<user, made, member, default, pj, sess, key>>
  BY FinishTypes DEF RenameCampaignCommit
<1> HIDE DEF c, row
<1> QED
  BY <1>1, <1>3, <1>4, <1>5, CampaignsAssumption DEF TypeOK, c

LEMMA DeleteTypes ==
  ASSUME TypeOK, NEW r \in Requests, DeleteCampaignCommit(r)
  PROVE  TypeOK' /\ req[r].campaign \in Campaigns /\ Erase(req[r].campaign)
<1>1. req[r].campaign \in Campaigns /\ Erase(req[r].campaign)
  BY RequestTypes DEF DeleteCampaignCommit
<1>2. req' \in [Requests -> Request] /\ UNCHANGED <<user, made, pj, sess, key>>
  BY FinishTypes DEF DeleteCampaignCommit
<1> QED
  BY <1>1, <1>2, EraseEffect DEF TypeOK

----------------------------------------------------------------------------
(* What a check leaves for the commit.                                     *)
GoodPlan(plan) ==
  /\ plan.kind \in {"user", "create"} => user[plan.by] # "none"
  /\ plan.kind = "create" => \A x \in plan.seen : x[2] # plan.name
  /\ plan.kind = "rename" =>
       \A x \in plan.seen : x[2] = plan.name => x[1] = plan.campaign

LEMMA SetupPlan ==
  ASSUME TypeOK, NEW r \in Requests, NEW u \in Users, SetupCheck(r, u)
  PROVE  \E plan \in Request : Begin(r, plan) /\ GoodPlan(plan)
<1> DEFINE plan == [kind |-> "setup", by |-> u, into |-> Oldest]
<1>1. plan \in Request
  BY OldestType DEF Request
<1> QED
  BY <1>1 DEF SetupCheck, GoodPlan

LEMMA UserPlan ==
  ASSUME TypeOK, NEW r \in Requests, NEW u \in Users, NEW v \in Users,
         NEW role \in {"admin", "user"}, UserCheck(r, u, v, role)
  PROVE  \E plan \in Request : Begin(r, plan) /\ GoodPlan(plan)
<1> DEFINE plan == [kind |-> "user", by |-> u, new |-> v, role |-> role,
                    into |-> IF Active(u) # 0 THEN Active(u) ELSE Oldest,
                    joins |-> Active(u) = 0]
<1>1. plan \in Request
  BY OldestType, ActiveType DEF Request
<1>2. plan.kind = "user" /\ plan.by = u
  OBVIOUS
<1>3. Begin(r, plan) /\ user[u] = "admin"
  BY DEF UserCheck
<1> HIDE DEF plan
<1> QED
  BY <1>1, <1>2, <1>3 DEF GoodPlan

LEMMA CreatePlan ==
  ASSUME TypeOK, NEW r \in Requests, NEW u \in Users, NEW n \in Names,
         CreateCampaignCheck(r, u, n)
  PROVE  \E plan \in Request : Begin(r, plan) /\ GoodPlan(plan)
<1> DEFINE plan == [kind |-> "create", by |-> u, name |-> n,
                    first |-> default[u] = 0, seen |-> OwnedNames(u)]
<1>1. plan \in Request
  BY OwnedNamesType DEF Request
<1>2. \A x \in OwnedNames(u) : x[2] # n
  BY DEF CreateCampaignCheck, OwnedNames, NameTaken, Owned, Campaigns
<1>3. /\ plan.kind = "create" /\ plan.by = u /\ plan.name = n
      /\ plan.seen = OwnedNames(u)
  OBVIOUS
<1>4. Begin(r, plan) /\ user[u] # "none"
  BY DEF CreateCampaignCheck
<1> HIDE DEF plan
<1> QED
  BY <1>1, <1>2, <1>3, <1>4 DEF GoodPlan

LEMMA RenamePlan ==
  ASSUME TypeOK, MembersHaveAccounts, NEW r \in Requests, NEW u \in Users,
         NEW c \in Campaigns, NEW n \in Names, RenameCampaignCheck(r, u, c, n)
  PROVE  \E plan \in Request : Begin(r, plan) /\ GoodPlan(plan)
<1> DEFINE owner == campaign[c].owner
           plan == [kind |-> "rename", by |-> u, campaign |-> c, name |-> n,
                    seen |-> OwnedNames(owner)]
<1>1. owner \in Users
  BY DEF TypeOK, RenameCampaignCheck
<1> HIDE DEF owner
<1>2. plan \in Request
  BY <1>1, OwnedNamesType DEF Request
<1>3. \A x \in OwnedNames(owner) : x[2] = n => x[1] = c
  BY DEF RenameCampaignCheck, OwnedNames, NameTaken, owner
<1>4. /\ plan.kind = "rename" /\ plan.campaign = c /\ plan.name = n
      /\ plan.seen = OwnedNames(owner)
  OBVIOUS
<1>5. Begin(r, plan)
  BY DEF RenameCampaignCheck, owner
<1> HIDE DEF plan
<1> QED
  BY <1>2, <1>3, <1>4, <1>5 DEF GoodPlan

LEMMA DeletePlan ==
  ASSUME TypeOK, NEW r \in Requests, NEW u \in Users, NEW c \in Campaigns,
         DeleteCampaignCheck(r, u, c)
  PROVE  \E plan \in Request : Begin(r, plan) /\ GoodPlan(plan)
<1> DEFINE plan == [kind |-> "delete", by |-> u, campaign |-> c]
<1>1. plan \in Request
  BY DEF Request
<1> QED
  BY <1>1 DEF DeleteCampaignCheck, GoodPlan

----------------------------------------------------------------------------
(* The invariant, step by step.                                            *)

LEMMA BeginKeepsInv ==
  ASSUME Inv, NEW r \in Requests, NEW plan \in Request,
         Begin(r, plan), GoodPlan(plan)
  PROVE  Inv'
<1>1. /\ \A q \in Requests : req'[q] = IF q = r THEN plan ELSE req[q]
      /\ UNCHANGED <<user, campaign, made, member, default, pj, sess, key>>
  BY DEF Begin, Inv, TypeOK
<1>2. TypeOK'
  BY BeginTypes DEF Inv
<1>3. NothingOutlivesItsCampaign' /\ OwnersAreGms' /\ ListedMayPlay'
  BY <1>1 DEF Inv, NothingOutlivesItsCampaign, OwnersAreGms, ListedMayPlay,
              Joined, IsGm, MayPlay
<1>4. MembersHaveAccounts'
  BY <1>1 DEF Inv, MembersHaveAccounts, GoodPlan, Joined
<1>5. SeenNamesDiffer'
  BY <1>1 DEF Inv, SeenNamesDiffer, GoodPlan
<1> QED
  BY <1>2, <1>3, <1>4, <1>5 DEF Inv

(* The requests that go on hold what they held.                            *)
LEMMA FinishKeepsNames ==
  ASSUME TypeOK, SeenNamesDiffer, NEW r \in Requests, Finish(r)
  PROVE  /\ SeenNamesDiffer'
         /\ \A q \in Requests :
              req'[q].kind \in {"user", "create"} => req'[q] = req[q]
<1>1. \A q \in Requests : req'[q] = IF q = r THEN Idle ELSE req[q]
  BY DEF Finish, TypeOK
<1>2. Idle.kind = "idle"
  BY DEF Idle
<1> QED
  BY <1>1, <1>2 DEF SeenNamesDiffer

(* Campaigns and memberships that only grow leave nothing behind.          *)
LEMMA GrowthLeavesNothing ==
  ASSUME TypeOK, NothingOutlivesItsCampaign, UNCHANGED <<pj, sess>>,
         \A d \in Campaigns : campaign[d] # None => campaign'[d] # None,
         \A w \in Users, d \in Campaigns :
           /\ member[w][d].role # "none" => member'[w][d].role # "none"
           /\ member'[w][d].role # "none"
                => member[w][d].role # "none" \/ campaign'[d] # None,
         \A w \in Users :
           \/ default'[w] = default[w]
           \/ default'[w] \in Campaigns /\ member'[w][default'[w]].role # "none"
  PROVE  NothingOutlivesItsCampaign'
<1>1. ASSUME NEW s \in Sessions, sess'[s] # None
      PROVE  campaign'[sess'[s].campaign] # None
  <2>1. sess[s] # None /\ sess[s].campaign \in Campaigns
    BY <1>1 DEF TypeOK
  <2> QED
    BY <2>1 DEF NothingOutlivesItsCampaign
<1>2. ASSUME NEW p \in Pjs, pj'[p] # None
      PROVE  campaign'[pj'[p].campaign] # None
  <2>1. pj[p] # None /\ pj[p].campaign \in Campaigns
    BY <1>2 DEF TypeOK
  <2> QED
    BY <2>1 DEF NothingOutlivesItsCampaign
<1>3. ASSUME NEW w \in Users, NEW d \in Campaigns, member'[w][d].role # "none"
      PROVE  campaign'[d] # None
  BY <1>3 DEF NothingOutlivesItsCampaign, Joined
<1>4. ASSUME NEW w \in Users, default'[w] # 0
      PROVE  default'[w] \in Campaigns /\ member'[w][default'[w]].role # "none"
  BY <1>4 DEF NothingOutlivesItsCampaign, Joined
<1> QED
  BY <1>1, <1>2, <1>3, <1>4 DEF NothingOutlivesItsCampaign, Joined

(* Memberships only grow where there is an account.                        *)
LEMMA GrowthHasAccounts ==
  ASSUME TypeOK, SeenNamesDiffer, MembersHaveAccounts,
         NEW r \in Requests, Finish(r),
         \A w \in Users : user'[w] = "none" => user[w] = "none",
         \A w \in Users, d \in Campaigns :
           member'[w][d].role # "none"
             => member[w][d].role # "none" \/ user'[w] # "none"
  PROVE  MembersHaveAccounts'
<1>1. ASSUME NEW w \in Users, user'[w] = "none", NEW d \in Campaigns
      PROVE  member'[w][d].role = "none"
  BY <1>1 DEF MembersHaveAccounts, Joined
<1>2. ASSUME NEW q \in Requests, req'[q].kind \in {"user", "create"}
      PROVE  user'[req'[q].by] # "none"
  <2>1. req'[q] = req[q]
    BY <1>2, FinishKeepsNames
  <2>2. req[q].by \in Users
    BY <1>2, <2>1, RequestTypes
  <2> QED
    BY <1>2, <2>1, <2>2 DEF MembersHaveAccounts
<1> QED
  BY <1>1, <1>2 DEF MembersHaveAccounts, Joined

LEMMA SetupKeepsInv ==
  ASSUME Inv, NEW r \in Requests, SetupCommit(r)
  PROVE  Inv'
<1> USE DEF Inv
<1> DEFINE u == req[r].by
<1>1. u \in Users /\ user[u] = "none" /\ user' = [user EXCEPT ![u] = "admin"]
  BY RequestTypes DEF SetupCommit
<1>2. UNCHANGED <<pj, sess, key>> /\ Finish(r)
  BY DEF SetupCommit
<1>3. PICK c \in Campaigns :
        /\ campaign'[c] # None
        /\ \A d \in Campaigns : d # c => campaign'[d] = campaign[d]
        /\ \A w \in Users, d \in Campaigns :
             member'[w][d].role =
               IF w = u /\ d = c THEN "gm" ELSE member[w][d].role
        /\ \A w \in Users : default'[w] = IF w = u THEN c ELSE default[w]
  BY SetupEffect
<1> HIDE DEF u
<1>4. TypeOK'
  BY SetupEffect
<1>5. NothingOutlivesItsCampaign'
  <2>1. \A w \in Users :
          default'[w] = c => member'[w][c].role # "none" \/ default[w] = c
    BY <1>3
  <2> QED
    BY <1>2, <1>3, <2>1, GrowthLeavesNothing
<1>6. MembersHaveAccounts'
  BY <1>1, <1>2, <1>3, GrowthHasAccounts DEF TypeOK
<1>7. OwnersAreGms'
  BY <1>2, <1>3 DEF OwnersAreGms, IsGm, TypeOK
<1>8. ListedMayPlay'
  BY <1>2 DEF ListedMayPlay, MayPlay
<1> QED
  BY <1>2, <1>4, <1>5, <1>6, <1>7, <1>8, FinishKeepsNames

LEMMA UserKeepsInv ==
  ASSUME Inv, NEW r \in Requests, UserCommit(r)
  PROVE  Inv'
<1> USE DEF Inv
<1> DEFINE u == req[r].by
           v == req[r].new
<1>1. /\ u \in Users /\ v \in Users /\ user[v] = "none" /\ user[u] # "none"
      /\ req[r].role # "none"
      /\ user' = [user EXCEPT ![v] = req[r].role]
  BY RequestTypes DEF UserCommit, MembersHaveAccounts
<1>2. UNCHANGED <<pj, sess, key>> /\ Finish(r)
  BY DEF UserCommit
<1>3. PICK c \in Campaigns :
        /\ campaign'[c] # None
        /\ \A d \in Campaigns : d # c => campaign'[d] = campaign[d]
        /\ \A w \in Users, d \in Campaigns :
             member'[w][d].role =
               IF w = v /\ d = c THEN "pj"
               ELSE IF req[r].joins /\ w = u /\ d = c THEN "gm"
               ELSE member[w][d].role
        /\ \A w \in Users :
             default'[w] = IF w = v \/ (w = u /\ req[r].joins)
                           THEN c ELSE default[w]
  BY UserEffect
<1> HIDE DEF u, v
<1>4. TypeOK'
  BY UserEffect
<1>5. NothingOutlivesItsCampaign'
  <2>1. \A w \in Users :
          default'[w] = c => member'[w][c].role # "none" \/ default[w] = c
    BY <1>3
  <2> QED
    BY <1>2, <1>3, <2>1, GrowthLeavesNothing
<1>6. MembersHaveAccounts'
  BY <1>1, <1>2, <1>3, GrowthHasAccounts DEF TypeOK
<1>7. OwnersAreGms'
  <2>1. \A d \in Campaigns : ~ IsGm(v, d)
    BY <1>1 DEF MembersHaveAccounts, Joined, IsGm
  <2> QED
    BY <1>2, <1>3, <2>1 DEF OwnersAreGms, IsGm, TypeOK
<1>8. ListedMayPlay'
  BY <1>2 DEF ListedMayPlay, MayPlay
<1> QED
  BY <1>2, <1>4, <1>5, <1>6, <1>7, <1>8, FinishKeepsNames

LEMMA CreateKeepsInv ==
  ASSUME Inv, NEW r \in Requests, CreateCampaignCommit(r)
  PROVE  Inv'
<1> USE DEF Inv
<1> DEFINE u == req[r].by
<1>1. u \in Users /\ user[u] # "none" /\ user' = user
  BY RequestTypes DEF CreateCampaignCommit, MembersHaveAccounts
<1>2. UNCHANGED <<pj, sess, key>> /\ Finish(r)
  BY DEF CreateCampaignCommit
<1>3. PICK c \in Campaigns :
        /\ campaign' = [campaign EXCEPT ![c] = [owner |-> u, name |-> req[r].name]]
        /\ campaign'[c] # None
        /\ \A w \in Users, d \in Campaigns :
             member'[w][d].role =
               IF w = u /\ d = c THEN "gm" ELSE member[w][d].role
        /\ \A w \in Users :
             default'[w] = IF w = u /\ req[r].first THEN c ELSE default[w]
  BY CreateEffect
<1>4. \A d \in Campaigns : d # c => campaign'[d] = campaign[d]
  BY <1>3 DEF TypeOK
<1> HIDE DEF u
<1>5. TypeOK'
  BY CreateEffect
<1>6. NothingOutlivesItsCampaign'
  BY <1>2, <1>3, <1>4, GrowthLeavesNothing
<1>7. MembersHaveAccounts'
  BY <1>1, <1>2, <1>3, GrowthHasAccounts DEF TypeOK
<1>8. OwnersAreGms'
  BY <1>2, <1>3 DEF OwnersAreGms, IsGm, TypeOK
<1>9. ListedMayPlay'
  BY <1>2 DEF ListedMayPlay, MayPlay
<1> QED
  BY <1>2, <1>5, <1>6, <1>7, <1>8, <1>9, FinishKeepsNames

LEMMA RenameKeepsInv ==
  ASSUME Inv, NEW r \in Requests, RenameCampaignCommit(r)
  PROVE  Inv'
<1> USE DEF Inv
<1>1. UNCHANGED <<user, member, default, pj, sess, key>> /\ Finish(r)
  BY DEF RenameCampaignCommit
<1>2. \A d \in Campaigns : campaign[d] # None => campaign'[d] # None
  BY RenameEffect
<1>3. NothingOutlivesItsCampaign'
  BY <1>1, <1>2, GrowthLeavesNothing
<1>4. MembersHaveAccounts'
  BY <1>1, GrowthHasAccounts
<1>5. OwnersAreGms' /\ ListedMayPlay'
  BY <1>1 DEF OwnersAreGms, IsGm, ListedMayPlay, MayPlay
<1> QED
  BY <1>1, <1>3, <1>4, <1>5, RenameEffect, FinishKeepsNames

LEMMA DeleteKeepsInv ==
  ASSUME Inv, NEW r \in Requests, DeleteCampaignCommit(r)
  PROVE  Inv'
<1> USE DEF Inv
<1> DEFINE c == req[r].campaign
<1>1. /\ UNCHANGED <<user, pj, sess, key>> /\ Finish(r)
      /\ \A s \in Sessions : sess[s] # None => sess[s].campaign # c
      /\ \A p \in Pjs : pj[p] # None => pj[p].campaign # c
  BY DEF DeleteCampaignCommit
<1>2. TypeOK' /\ c \in Campaigns /\ Erase(c)
  BY DeleteTypes
<1> HIDE DEF c
<1>3. /\ \A d \in Campaigns : d # c => campaign'[d] = campaign[d]
      /\ \A w \in Users, d \in Campaigns :
           member'[w][d].role = IF d = c THEN "none" ELSE member[w][d].role
      /\ \A w \in Users : default'[w] = IF default[w] = c THEN 0 ELSE default[w]
  BY <1>2, EraseEffect
<1>4. NothingOutlivesItsCampaign'
  <2>1. ASSUME NEW s \in Sessions, sess'[s] # None
        PROVE  campaign'[sess'[s].campaign] # None
    <3>1. sess[s] # None /\ sess[s].campaign \in Campaigns
      BY <1>1, <2>1 DEF TypeOK
    <3> QED
      BY <1>1, <1>3, <3>1 DEF NothingOutlivesItsCampaign
  <2>2. ASSUME NEW p \in Pjs, pj'[p] # None
        PROVE  campaign'[pj'[p].campaign] # None
    <3>1. pj[p] # None /\ pj[p].campaign \in Campaigns
      BY <1>1, <2>2 DEF TypeOK
    <3> QED
      BY <1>1, <1>3, <3>1 DEF NothingOutlivesItsCampaign
  <2>3. \A w \in Users, d \in Campaigns :
          member'[w][d].role # "none" => campaign'[d] # None
    BY <1>3 DEF NothingOutlivesItsCampaign, Joined
  <2>4. \A w \in Users :
          default'[w] # 0 =>
            default'[w] \in Campaigns /\ member'[w][default'[w]].role # "none"
    BY <1>3 DEF NothingOutlivesItsCampaign, Joined
  <2> QED
    BY <2>1, <2>2, <2>3, <2>4 DEF NothingOutlivesItsCampaign, Joined
<1>5. MembersHaveAccounts'
  BY <1>1, <1>3, GrowthHasAccounts
<1>6. OwnersAreGms'
  BY <1>1, <1>3 DEF OwnersAreGms, IsGm, TypeOK
<1>7. ListedMayPlay'
  BY <1>1 DEF ListedMayPlay, MayPlay
<1> QED
  BY <1>1, <1>2, <1>4, <1>5, <1>6, <1>7, FinishKeepsNames

LEMMA AbortKeepsInv ==
  ASSUME Inv, NEW r \in Requests, Abort(r)
  PROVE  Inv'
<1> USE DEF Inv
<1>1. UNCHANGED <<user, campaign, made, member, default, pj, sess, key>> /\ Finish(r)
  BY DEF Abort
<1>2. TypeOK'
  BY <1>1, FinishTypes DEF TypeOK
<1>3. NothingOutlivesItsCampaign' /\ OwnersAreGms' /\ ListedMayPlay'
  BY <1>1 DEF NothingOutlivesItsCampaign, OwnersAreGms, ListedMayPlay, Joined, IsGm, MayPlay
<1>4. MembersHaveAccounts'
  BY <1>1, GrowthHasAccounts
<1> QED
  BY <1>1, <1>2, <1>3, <1>4, FinishKeepsNames

(* What the requests on sessions, characters and keys leave alone.         *)
LEMMA RestKeeps ==
  ASSUME Inv, restUnchanged,
         \A s \in Sessions : sess'[s] # None => campaign[sess'[s].campaign] # None,
         \A p \in Pjs : pj'[p] # None => campaign[pj'[p].campaign] # None
  PROVE  NothingOutlivesItsCampaign' /\ MembersHaveAccounts' /\ SeenNamesDiffer'
BY DEF Inv, restUnchanged, NothingOutlivesItsCampaign, MembersHaveAccounts,
       SeenNamesDiffer, Joined

LEMMA RowsAreInCampaigns ==
  ASSUME Inv
  PROVE  /\ \A s \in Sessions : sess[s] # None =>
              /\ sess[s].campaign \in Campaigns
              /\ campaign[sess[s].campaign] # None
         /\ \A p \in Pjs : pj[p] # None =>
              /\ pj[p].campaign \in Campaigns
              /\ campaign[pj[p].campaign] # None
BY DEF Inv, TypeOK, NothingOutlivesItsCampaign

(* A step that changes one session.                                        *)
LEMMA SessionRowKeepsInv ==
  ASSUME Inv, NEW s \in Sessions, NEW row,
         sess' = [sess EXCEPT ![s] = row], UNCHANGED <<pj, key>>, restUnchanged,
         \/ row = None
         \/ /\ row \in [owner : Actors, campaign : Campaigns, who : SUBSET Pjs]
            /\ campaign[row.campaign] # None
            /\ row.owner \in Users => IsGm(row.owner, row.campaign)
            /\ \A p \in row.who :
                 /\ pj[p] # None
                 /\ pj[p].owner = row.owner
                 /\ pj[p].campaign = row.campaign
  PROVE  Inv'
<1>1. sess \in [Sessions -> [owner : Actors, campaign : Campaigns,
                             who : SUBSET Pjs] \cup {None}]
  BY DEF Inv, TypeOK
<1>2. \A q \in Sessions : sess'[q] = IF q = s THEN row ELSE sess[q]
  BY <1>1
<1>3. TypeOK'
  BY <1>1 DEF Inv, TypeOK, restUnchanged
<1>4. NothingOutlivesItsCampaign' /\ MembersHaveAccounts' /\ SeenNamesDiffer'
  BY <1>2, RestKeeps, RowsAreInCampaigns
<1>5. OwnersAreGms'
  BY <1>2 DEF Inv, OwnersAreGms, IsGm, restUnchanged
<1>6. ListedMayPlay'
  BY <1>2 DEF Inv, ListedMayPlay, MayPlay
<1> QED
  BY <1>3, <1>4, <1>5, <1>6 DEF Inv

(* A step that changes one character, and not whose it is or where.        *)
LEMMA PjRowKeepsInv ==
  ASSUME Inv, NEW p \in Pjs,
         NEW row \in [owner : Actors, campaign : Campaigns, name : Names],
         pj' = [pj EXCEPT ![p] = row], UNCHANGED <<sess, key>>, restUnchanged,
         campaign[row.campaign] # None,
         pj[p] # None => pj[p].owner = row.owner /\ pj[p].campaign = row.campaign
  PROVE  Inv'
<1>1. /\ pj \in [Pjs -> [owner : Actors, campaign : Campaigns, name : Names]
                        \cup {None}]
      /\ row # None
  BY CampaignsAssumption DEF Inv, TypeOK, Actors, Campaigns
<1>2. \A q \in Pjs : pj'[q] = IF q = p THEN row ELSE pj[q]
  BY <1>1
<1>3. TypeOK'
  BY <1>1 DEF Inv, TypeOK, restUnchanged
<1>4. NothingOutlivesItsCampaign' /\ MembersHaveAccounts' /\ SeenNamesDiffer'
  BY <1>2, RestKeeps, RowsAreInCampaigns
<1>5. OwnersAreGms'
  BY DEF Inv, OwnersAreGms, IsGm, restUnchanged
<1>6. ASSUME NEW s \in Sessions, sess[s] # None, NEW q \in sess[s].who
      PROVE  MayPlay(s, q)'
  <2>1. q \in Pjs
    BY <1>6 DEF Inv, TypeOK
  <2> QED
    BY <1>1, <1>2, <1>6, <2>1 DEF Inv, ListedMayPlay, MayPlay
<1> QED
  BY <1>3, <1>4, <1>5, <1>6 DEF Inv, ListedMayPlay

LEMMA KeyRowKeepsInv ==
  ASSUME Inv, NEW k \in Keys, NEW row \in [pj : Pjs, active : BOOLEAN],
         key' = [key EXCEPT ![k] = row], UNCHANGED <<pj, sess>>, restUnchanged
  PROVE  Inv'
<1>1. TypeOK'
  BY DEF Inv, TypeOK, restUnchanged
<1>2. NothingOutlivesItsCampaign' /\ MembersHaveAccounts' /\ SeenNamesDiffer'
  BY RestKeeps, RowsAreInCampaigns
<1>3. OwnersAreGms' /\ ListedMayPlay'
  BY DEF Inv, OwnersAreGms, IsGm, ListedMayPlay, MayPlay, restUnchanged
<1> QED
  BY <1>1, <1>2, <1>3 DEF Inv

LEMMA GmRequestKeepsInv ==
  ASSUME Inv, NEW a \in Actors, GmRequest(a)
  PROVE  Inv'
<1>1. ASSUME NEW s \in Sessions, NEW c \in Campaigns, CreateSession(a, s, c)
      PROVE  Inv'
  BY <1>1, SessionRowKeepsInv DEF CreateSession
<1>2. ASSUME NEW s \in Sessions, DeleteSession(a, s)
      PROVE  Inv'
  BY <1>2, SessionRowKeepsInv DEF DeleteSession
<1>3. ASSUME NEW p \in Pjs, NEW c \in Campaigns, NEW n \in Names,
             CreatePj(a, p, c, n)
      PROVE  Inv'
  BY <1>3, PjRowKeepsInv DEF CreatePj
<1>4. ASSUME NEW p \in Pjs, NEW n \in Names, UpdatePj(a, p, n)
      PROVE  Inv'
  <2> DEFINE row == [pj[p] EXCEPT !.name = n]
  <2>1. pj[p] \in [owner : Actors, campaign : Campaigns, name : Names]
    BY <1>4 DEF UpdatePj, Inv, TypeOK
  <2>2. /\ row \in [owner : Actors, campaign : Campaigns, name : Names]
        /\ row.owner = pj[p].owner /\ row.campaign = pj[p].campaign
    BY <2>1
  <2>3. campaign[row.campaign] # None
    BY <1>4, <2>2, RowsAreInCampaigns DEF UpdatePj
  <2>4. /\ pj' = [pj EXCEPT ![p] = row]
        /\ UNCHANGED <<sess, key>> /\ restUnchanged
    BY <1>4 DEF UpdatePj
  <2> HIDE DEF row
  <2> QED
    BY <2>2, <2>3, <2>4, PjRowKeepsInv
<1>5. ASSUME NEW s \in Sessions, NEW who \in SUBSET Pjs, SetWho(a, s, who)
      PROVE  Inv'
  <2> DEFINE row == [sess[s] EXCEPT !.who = who]
  <2>1. /\ sess[s] # None
        /\ sess[s] \in [owner : Actors, campaign : Campaigns, who : SUBSET Pjs]
    BY <1>5 DEF SetWho, Resolves, Inv, TypeOK
  <2>2. /\ row \in [owner : Actors, campaign : Campaigns, who : SUBSET Pjs]
        /\ row.owner = sess[s].owner /\ row.campaign = sess[s].campaign
        /\ row.who = who
    BY <2>1
  <2>3. /\ campaign[row.campaign] # None
        /\ row.owner \in Users => IsGm(row.owner, row.campaign)
    BY <2>1, <2>2, RowsAreInCampaigns DEF Inv, OwnersAreGms
  <2>4. \A p \in row.who : /\ pj[p] # None
                           /\ pj[p].owner = row.owner
                           /\ pj[p].campaign = row.campaign
    BY <1>5, <2>2 DEF SetWho, MayPlay
  <2>5. /\ sess' = [sess EXCEPT ![s] = row]
        /\ UNCHANGED <<pj, key>> /\ restUnchanged
    BY <1>5 DEF SetWho
  <2> HIDE DEF row
  <2> QED
    BY <2>2, <2>3, <2>4, <2>5, SessionRowKeepsInv
<1>6. ASSUME NEW k \in Keys, NEW p \in Pjs, EnrollPlayer(a, k, p)
      PROVE  Inv'
  BY <1>6, KeyRowKeepsInv DEF EnrollPlayer
<1>7. ASSUME NEW k \in Keys, RevokePlayer(a, k)
      PROVE  Inv'
  <2> DEFINE row == [key[k] EXCEPT !.active = FALSE]
  <2>1. row \in [pj : Pjs, active : BOOLEAN]
    BY <1>7 DEF RevokePlayer, Inv, TypeOK
  <2>2. /\ key' = [key EXCEPT ![k] = row]
        /\ UNCHANGED <<pj, sess>> /\ restUnchanged
    BY <1>7 DEF RevokePlayer
  <2> HIDE DEF row
  <2> QED
    BY <2>1, <2>2, KeyRowKeepsInv
<1> QED
  BY <1>1, <1>2, <1>3, <1>4, <1>5, <1>6, <1>7 DEF GmRequest

LEMMA CampaignRequestKeepsInv ==
  ASSUME Inv, NEW r \in Requests, CampaignRequest(r)
  PROVE  Inv'
<1>1. ASSUME NEW u \in Users, SetupCheck(r, u)
      PROVE  Inv'
  BY <1>1, SetupPlan, BeginKeepsInv DEF Inv
<1>2. ASSUME NEW u \in Users, NEW v \in Users, NEW role \in {"admin", "user"},
             UserCheck(r, u, v, role)
      PROVE  Inv'
  BY <1>2, UserPlan, BeginKeepsInv DEF Inv
<1>3. ASSUME NEW u \in Users, NEW n \in Names, CreateCampaignCheck(r, u, n)
      PROVE  Inv'
  BY <1>3, CreatePlan, BeginKeepsInv DEF Inv
<1>4. ASSUME NEW u \in Users, NEW c \in Campaigns, NEW n \in Names,
             RenameCampaignCheck(r, u, c, n)
      PROVE  Inv'
  BY <1>4, RenamePlan, BeginKeepsInv DEF Inv
<1>5. ASSUME NEW u \in Users, NEW c \in Campaigns, DeleteCampaignCheck(r, u, c)
      PROVE  Inv'
  BY <1>5, DeletePlan, BeginKeepsInv DEF Inv
<1> QED
  BY <1>1, <1>2, <1>3, <1>4, <1>5, SetupKeepsInv, UserKeepsInv, CreateKeepsInv,
     RenameKeepsInv, DeleteKeepsInv, AbortKeepsInv DEF CampaignRequest

LEMMA InitInv == Init => Inv
<1> SUFFICES ASSUME Init
             PROVE  Inv
  OBVIOUS
<1>1. TypeOK
  BY InitTypes
<1>2. \A u \in Users : Joined(u) = {}
  BY DEF Init, Joined, NoMembership
<1>3. NothingOutlivesItsCampaign /\ OwnersAreGms /\ ListedMayPlay
  BY <1>2 DEF Init, NothingOutlivesItsCampaign, OwnersAreGms, ListedMayPlay
<1>4. MembersHaveAccounts /\ SeenNamesDiffer
  BY <1>2 DEF Init, Idle, MembersHaveAccounts, SeenNamesDiffer
<1> QED
  BY <1>1, <1>3, <1>4 DEF Inv

LEMMA NextKeepsInv == Inv /\ [Next]_vars => Inv'
<1> SUFFICES ASSUME Inv, [Next]_vars
             PROVE  Inv'
  OBVIOUS
<1>1. CASE UNCHANGED vars
  BY <1>1 DEF vars, Inv, TypeOK, NothingOutlivesItsCampaign, MembersHaveAccounts,
              OwnersAreGms, ListedMayPlay, SeenNamesDiffer, Joined, IsGm, MayPlay
<1>2. CASE Next
  BY <1>2, GmRequestKeepsInv, CampaignRequestKeepsInv DEF Next
<1> QED
  BY <1>1, <1>2

----------------------------------------------------------------------------
(* Every variable keeps its type.                                          *)
THEOREM TypeCorrect == Spec => []TypeOK
<1>1. Inv => TypeOK
  BY DEF Inv
<1> QED
  BY <1>1, InitInv, NextKeepsInv, PTL DEF Spec

(* The inductive invariant: besides what the theorems below state, members *)
(* have accounts, owners of sessions are GMs of their campaigns, and the   *)
(* characters listed in a session may play in it.                          *)
THEOREM InvHolds == Spec => []Inv
BY InitInv, NextKeepsInv, PTL DEF Spec

(* No session, character, membership or default names a campaign that has  *)
(* been deleted, whatever was created between the check of a deletion and  *)
(* its commit, and the default campaign of a user is one of his.           *)
THEOREM NothingLeftBehind == Spec => []NothingOutlivesItsCampaign
<1>1. Inv => NothingOutlivesItsCampaign
  BY DEF Inv
<1> QED
  BY <1>1, InvHolds, PTL

(* resolve_session_for_gm answers the web user who created the session as  *)
(* long as the session exists.                                             *)
THEOREM OwnersKeepTheirSessions == Spec => []OwnersManageTheirSessions
<1>1. Inv => OwnersManageTheirSessions
  BY DEF Inv, OwnersManageTheirSessions, OwnersAreGms, Resolves
<1> QED
  BY <1>1, InvHolds, PTL

(* What a player key is served is of the GM who owns its character, and of *)
(* no point of view but that of a character listed in the session.         *)
THEOREM PlayersKeepToTheirGm == Spec => []PlayersStayWithTheirGm
<1>1. ASSUME Inv
      PROVE  PlayersStayWithTheirGm
  <2> SUFFICES ASSUME NEW k \in Keys, NEW s \in Sessions, Served(k, s) # {}
               PROVE  /\ pj[key[k].pj].owner = sess[s].owner
                      /\ \A p \in Served(k, s) \cap Pjs : p \in sess[s].who
    BY DEF PlayersStayWithTheirGm
  <2>1. sess[s] # None /\ key[k].pj \in sess[s].who
    BY DEF Served, ServedTexts, ServedPov, MayRead
  <2>2. MayPlay(s, key[k].pj)
    BY <1>1, <2>1 DEF Inv, ListedMayPlay
  <2>3. \A p \in Served(k, s) \cap Pjs : p = key[k].pj
    BY CampaignsAssumption DEF Served, ServedTexts, ServedPov
  <2> QED
    BY <2>1, <2>2, <2>3 DEF MayPlay
<1> QED
  BY <1>1, InvHolds, PTL

(* A request gives a campaign the name of another one of its owner only    *)
(* when the owner's campaigns have changed since the check of the request, *)
(* or when it makes the default campaign, whose name nothing checks.       *)
THEOREM NamesClashOnlyByRace == Spec => SameNameOnlyByRace
<1> DEFINE Clash ==
      \A c, d \in Campaigns :
        /\ c # d /\ campaign'[c] # None /\ campaign'[d] # None
        /\ campaign'[c] = campaign'[d]
        /\ campaign[c] # campaign'[c]
        => \E r \in Requests :
             /\ req'[r] = Idle
             /\ \/ req[r].kind \in {"setup", "user"} /\ req[r].into = 0
                \/ req[r].kind \in {"create", "rename"}
                   /\ req[r].seen # OwnedNames(campaign'[c].owner)
<1>1. ASSUME Inv, [Next]_vars
      PROVE  [Clash]_vars
  <2> SUFFICES ASSUME NEW c \in Campaigns, NEW d \in Campaigns,
                      c # d, campaign'[c] # None, campaign'[d] # None,
                      campaign'[c] = campaign'[d], campaign[c] # campaign'[c]
               PROVE  \E r \in Requests :
                        /\ req'[r] = Idle
                        /\ \/ req[r].kind \in {"setup", "user"} /\ req[r].into = 0
                           \/ req[r].kind \in {"create", "rename"}
                              /\ req[r].seen # OwnedNames(campaign'[c].owner)
    OBVIOUS
  <2>1. ASSUME NEW r \in Requests, Finish(r)
        PROVE  req'[r] = Idle
    BY <1>1, <2>1 DEF Finish, Inv, TypeOK
  <2>2. ASSUME NEW r \in Requests, SetupCommit(r) \/ UserCommit(r)
        PROVE  req'[r] = Idle /\ req[r].kind \in {"setup", "user"} /\ req[r].into = 0
    BY <1>1, <2>1, <2>2, SetupEffect, UserEffect DEF Inv, SetupCommit, UserCommit
  <2>3. ASSUME NEW r \in Requests, CreateCampaignCommit(r)
        PROVE  /\ req'[r] = Idle /\ req[r].kind = "create"
               /\ req[r].seen # OwnedNames(campaign'[c].owner)
    <3> DEFINE u == req[r].by
    <3>1. u \in Users /\ req[r].kind = "create" /\ Finish(r)
      BY <1>1, <2>3, RequestTypes DEF Inv, CreateCampaignCommit
    <3>2. PICK e \in Campaigns :
            campaign' = [campaign EXCEPT ![e] = [owner |-> u, name |-> req[r].name]]
      BY <1>1, <2>3, CreateEffect DEF Inv
    <3>3. e = c /\ campaign'[c] = [owner |-> u, name |-> req[r].name]
      BY <1>1, <3>2 DEF Inv, TypeOK
    <3>4. campaign[d] = campaign'[d]
      BY <1>1, <3>2, <3>3 DEF Inv, TypeOK
    <3>5. d \in Owned(u) /\ campaign[d].name = req[r].name
      <4>1. campaign[d] = [owner |-> u, name |-> req[r].name]
        BY <3>3, <3>4
      <4>2. campaign[d].owner = u /\ campaign[d].name = req[r].name
        BY <4>1
      <4>3. campaign[d] # None
        BY <3>4
      <4> HIDE DEF u
      <4> QED
        BY <4>2, <4>3 DEF Owned
    <3>6. <<d, req[r].name>> \in OwnedNames(u)
      BY <3>5 DEF OwnedNames
    <3>7. \A x \in req[r].seen : x[2] # req[r].name
      BY <1>1, <3>1 DEF Inv, SeenNamesDiffer
    <3>8. req[r].seen # OwnedNames(u)
      BY <3>6, <3>7
    <3> QED
      BY <2>1, <3>1, <3>3, <3>8
  <2>4. ASSUME NEW r \in Requests, RenameCampaignCommit(r)
        PROVE  /\ req'[r] = Idle /\ req[r].kind = "rename"
               /\ req[r].seen # OwnedNames(campaign'[c].owner)
    <3> DEFINE e == req[r].campaign
               u == campaign[c].owner
    <3>1. req[r].kind = "rename" /\ Finish(r)
      BY <2>4 DEF RenameCampaignCommit
    <3>2. /\ e = c
          /\ campaign'[c] = [owner |-> u, name |-> req[r].name]
          /\ campaign[d] = campaign'[d]
      BY <1>1, <2>4, RenameEffect DEF Inv
    <3>3. d \in Owned(u) /\ campaign[d].name = req[r].name
      <4>1. campaign[d] = [owner |-> u, name |-> req[r].name]
        BY <3>2
      <4>2. campaign[d].owner = u /\ campaign[d].name = req[r].name
        BY <4>1
      <4>3. campaign[d] # None
        BY <3>2
      <4> HIDE DEF u
      <4> QED
        BY <4>2, <4>3 DEF Owned
    <3>4. <<d, req[r].name>> \in OwnedNames(u)
      BY <3>3 DEF OwnedNames
    <3>5. \A x \in req[r].seen : x[2] = req[r].name => x[1] = c
      BY <1>1, <3>1, <3>2 DEF Inv, SeenNamesDiffer
    <3>6. req[r].seen # OwnedNames(u)
      BY <3>4, <3>5
    <3> QED
      BY <2>1, <3>1, <3>2, <3>6
  <2>5. ASSUME NEW r \in Requests, DeleteCampaignCommit(r)
        PROVE  FALSE
    BY <1>1, <2>5, DeleteTypes, EraseEffect DEF Inv, Erase, TypeOK
  <2>6. campaign' # campaign
    OBVIOUS
  <2>7. \E r \in Requests : \/ SetupCommit(r) \/ UserCommit(r)
                            \/ CreateCampaignCommit(r) \/ RenameCampaignCommit(r)
                            \/ DeleteCampaignCommit(r)
    <3>1. ASSUME NEW a \in Actors, GmRequest(a)
          PROVE  FALSE
      BY <2>6, <3>1 DEF GmRequest, CreateSession, DeleteSession, CreatePj, UpdatePj,
                        SetWho, EnrollPlayer, RevokePlayer, restUnchanged
    <3> QED
      BY <1>1, <2>6, <3>1
         DEF Next, vars, CampaignRequest, Begin, SetupCheck, UserCheck,
             CreateCampaignCheck, RenameCampaignCheck, DeleteCampaignCheck, Abort
  <2> QED
    BY <2>2, <2>3, <2>4, <2>5, <2>7
<1> QED
  BY <1>1, InvHolds, PTL DEF Spec, SameNameOnlyByRace
=============================================================================
