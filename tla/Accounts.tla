------------------------------ MODULE Accounts ------------------------------
(***************************************************************************)
(* User accounts, browser sessions and the registry of API keys            *)
(* (app/core/users.py, app/core/auth.py, the first part of                 *)
(* app/services/jdr/auth_router.py, the startup task of app/main.py).      *)
(*                                                                         *)
(* A request is one PostgreSQL transaction at READ COMMITTED: it reads     *)
(* what is committed, writes the columns it has changed, and commits when  *)
(* the handler has returned (get_db_session).  So a request is several     *)
(* steps and others come between them.  Two row locks order them:          *)
(* validate_web_session stamps the session row, and the first query of the *)
(* handler flushes that stamp, so requests made with one session pass one  *)
(* at a time after their authentication; and revoking the sessions of an   *)
(* account waits for the requests that are using them.  A deadlock ends in *)
(* the abort of one of the requests.                                       *)
(***************************************************************************)
EXTENDS Naturals, FiniteSets

CONSTANTS
  Users,      \* usernames, once normalised
  Passwords,
  EnvKeys,    \* the entries the operator may put in API_KEYS
  Tokens,     \* session tokens
  Requests,   \* concurrent API requests
  Changes,    \* the bodies of PATCH /users/{id}
  TTL,        \* WEB_SESSION_TTL_SECONDS
  MaxTime,    \* bound: the clock stops there
  NoPassword

Statuses == {"active", "inactive", "deleted"}
Roles == {"admin", "user"}
Columns == {"status", "role", "pw"}
Change == [status : Statuses \cup {"keep"}, role : Roles \cup {"keep"},
           pw : Passwords \cup {"keep"}]

ASSUME AccountsAssumption ==
  /\ Users \cap EnvKeys = {}
  /\ Changes \subseteq Change
  /\ TTL \in Nat /\ MaxTime \in Nat
  /\ NoPassword \notin Passwords /\ "keep" \notin Passwords

VARIABLES
  now,       \* the clock
  account,   \* the rows of core_users
  keys,      \* the rows of jdr_api_keys: environment entries and web users
  session,   \* the rows of core_web_sessions
  req        \* the requests in progress

vars == <<now, account, keys, session, req>>

----------------------------------------------------------------------------
Account == [status : Statuses \cup {"none"}, role : Roles,
            pw : Passwords \cup {NoPassword}]
NoAccount == [status |-> "none", role |-> "user", pw |-> NoPassword]

(* late: the account was no longer active when the session was stored.     *)
(* A history field, the row does not hold it.                              *)
Session == [user : Users, expires : Nat, revoked : BOOLEAN, late : BOOLEAN]
NoSession == [user |-> "none"]

(* op: what an administrator asks for; by: the session it comes with;      *)
(* write: the columns that differ from the row read; seen: the active      *)
(* administrators when the row was read (a history field, the code only    *)
(* counts them).                                                           *)
NoChange == [c \in Columns |-> "keep"]
Op == [kind : {"create"}, user : Users,
       set : [status : {"active"}, role : Roles, pw : Passwords]]
      \cup [kind : {"update"}, user : Users, set : Changes]
      \cup [kind : {"delete"}, user : Users,
            set : {[NoChange EXCEPT !["status"] = "deleted"]}]

Idle == [step |-> "idle"]
RequestState ==
  {Idle}
  \cup [step : {"setup"}, user : Users, pw : Passwords, expires : Nat]
  \cup [step : {"login"}, user : Users, expires : Nat]
  \cup [step : {"begun"}, by : Tokens, op : Op]
  \cup [step : {"read"}, by : Tokens, op : Op, write : Change,
        seen : SUBSET Users]

TypeOK ==
  /\ now \in Nat
  /\ account \in [Users -> Account]
  /\ keys \in SUBSET (EnvKeys \cup Users)
  /\ session \in [Tokens -> Session \cup {NoSession}]
  /\ req \in [Requests -> RequestState]

----------------------------------------------------------------------------
Exists(u) == account[u].status # "none"
SetupRequired == \A u \in Users : ~Exists(u)
ActiveAdmins ==
  {u \in Users : account[u].status = "active" /\ account[u].role = "admin"}

Issued(t) == session[t] # NoSession

(* validate_web_session: the cookie is accepted.                           *)
Accepted(t) ==
  /\ Issued(t)
  /\ ~session[t].revoked
  /\ session[t].expires > now
  /\ account[session[t].user].status = "active"

(* _require_admin_user: a session, not a bearer key, of an administrator.  *)
AdminSession(t) == Accepted(t) /\ account[session[t].user].role = "admin"

Deactivates(o) == o.kind # "create" /\ o.set.status \in {"inactive", "deleted"}

MutantRemovesLastAdmin(o) ==
  /\ o.user \in ActiveAdmins
  /\ Deactivates(o)
  /\ Cardinality(ActiveAdmins) <= 1

(* update_user and delete_user count the administrators only when the one  *)
(* they change is active and would stop being one.                         *)
RemovesLastAdmin(o) ==
  /\ o.user \in ActiveAdmins
  /\ Deactivates(o) \/ o.set.role = "user"
  /\ Cardinality(ActiveAdmins) <= 1

(* The session row is locked by the stamp of another request.              *)
InUse(t, r) ==
  \E q \in Requests \ {r} : req[q].step = "read" /\ req[q].by = t

Finish(r) == req' = [req EXCEPT ![r] = Idle]

MutantStore(u, role, pw) ==
  /\ account' = [account EXCEPT ![u] =
                   [status |-> "active", role |-> role, pw |-> pw]]
  /\ UNCHANGED keys

(* create_user stores the account and its internal key.  The unique        *)
(* username makes the loser of two creations fail when it commits.         *)
Store(u, role, pw) ==
  /\ account' = [account EXCEPT ![u] =
                   [status |-> "active", role |-> role, pw |-> pw]]
  /\ keys' = keys \cup {u}

(* create_web_session.                                                     *)
OpenSession(u, expires, late) ==
  \E t \in Tokens :
    /\ ~Issued(t)
    /\ session' = [session EXCEPT ![t] =
                     [user |-> u, expires |-> expires, revoked |-> FALSE,
                      late |-> late]]

----------------------------------------------------------------------------
(* Setup and sign-in.                                                      *)

MutantSetupCheck(r, u, p) ==
  /\ req[r] = Idle
  /\ ActiveAdmins = {}
  /\ req' = [req EXCEPT ![r] = [step |-> "setup", user |-> u, pw |-> p,
                                expires |-> now + TTL]]
  /\ UNCHANGED <<now, account, keys, session>>

(* create_first_gm: the lock is released before the transaction commits,   *)
(* so it keeps no second setup out; only a second one of the same name     *)
(* waits, with the lock, for the first to commit.                          *)
SetupCheck(r, u, p) ==
  /\ req[r] = Idle
  /\ SetupRequired
  /\ \A q, s \in Requests :
       q # s /\ req[q].step = "setup" /\ req[s].step = "setup"
         => req[q].user # req[s].user
  /\ req' = [req EXCEPT ![r] = [step |-> "setup", user |-> u, pw |-> p,
                                expires |-> now + TTL]]
  /\ UNCHANGED <<now, account, keys, session>>

SetupCommit(r) ==
  /\ req[r].step = "setup"
  /\ ~Exists(req[r].user)
  /\ Store(req[r].user, "admin", req[r].pw)
  /\ OpenSession(req[r].user, req[r].expires, FALSE)
  /\ Finish(r)
  /\ UNCHANGED now

(* authenticate_user, then create_web_session fixes the expiry.            *)
LoginCheck(r, u, p) ==
  /\ req[r] = Idle
  /\ account[u].status = "active"
  /\ account[u].pw = p
  /\ req' = [req EXCEPT ![r] = [step |-> "login", user |-> u,
                                expires |-> now + TTL]]
  /\ UNCHANGED <<now, account, keys, session>>

(* The session row, the user's last login and, for an account without one, *)
(* the internal key.                                                       *)
LoginCommit(r) ==
  /\ req[r].step = "login"
  /\ OpenSession(req[r].user, req[r].expires,
                 account[req[r].user].status # "active")
  /\ keys' = keys \cup {req[r].user}
  /\ Finish(r)
  /\ UNCHANGED <<now, account>>

(* Revokes the cookie's session.  The caller is authenticated by that      *)
(* cookie or by a bearer key.                                              *)
Logout(t) ==
  /\ Issued(t)
  /\ Accepted(t) \/ keys \cap EnvKeys # {}
  /\ \A r \in Requests : ~InUse(t, r)
  /\ session' = [session EXCEPT ![t].revoked = TRUE]
  /\ UNCHANGED <<now, account, keys, req>>

----------------------------------------------------------------------------
(* Administration.                                                         *)

(* require_gm and _require_admin_user: read before the session row is      *)
(* locked, and not read again.                                             *)
AdminBegin(r, t, o) ==
  /\ req[r] = Idle
  /\ AdminSession(t)
  /\ req' = [req EXCEPT ![r] = [step |-> "begun", by |-> t, op |-> o]]
  /\ UNCHANGED <<now, account, keys, session>>

Read(r, write) ==
  req' = [req EXCEPT ![r] = [step |-> "read", by |-> req[r].by,
                             op |-> req[r].op, write |-> write,
                             seen |-> ActiveAdmins]]

MutantDirty(o) ==
  [c \in Columns |-> IF o.set[c] = "keep" THEN account[o.user][c]
                     ELSE o.set[c]]

(* The columns of o that differ from the row: the ones SQLAlchemy writes.  *)
Dirty(o) ==
  [c \in Columns |-> IF o.set[c] = account[o.user][c] THEN "keep"
                     ELSE o.set[c]]

CreateRead(r) ==
  /\ req[r].step = "begun" /\ req[r].op.kind = "create"
  /\ ~InUse(req[r].by, r)
  /\ ~Exists(req[r].op.user)
  /\ Read(r, req[r].op.set)
  /\ UNCHANGED <<now, account, keys, session>>

(* update_user and delete_user up to their first write.                    *)
UpdateRead(r) ==
  /\ req[r].step = "begun" /\ req[r].op.kind # "create"
  /\ ~InUse(req[r].by, r)
  /\ Exists(req[r].op.user)
  /\ ~RemovesLastAdmin(req[r].op)
  /\ Read(r, Dirty(req[r].op))
  /\ UNCHANGED <<now, account, keys, session>>

CreateCommit(r) ==
  /\ req[r].step = "read" /\ req[r].op.kind = "create"
  /\ ~Exists(req[r].op.user)
  /\ Store(req[r].op.user, req[r].op.set.role, req[r].op.set.pw)
  /\ Finish(r)
  /\ UNCHANGED <<now, session>>

MutantUpdateCommit(r) ==
  LET o == req[r].op  w == req[r].write IN
  /\ req[r].step = "read" /\ o.kind # "create"
  /\ account' = [account EXCEPT ![o.user] =
                   [c \in Columns |-> IF w[c] = "keep" THEN @[c] ELSE w[c]]]
  /\ session' = [t \in Tokens |->
                   IF w.status # "deleted" \/ ~Issued(t) THEN session[t]
                   ELSE IF session[t].user # o.user THEN session[t]
                   ELSE [session[t] EXCEPT !.revoked = TRUE]]
  /\ keys' = IF o.kind = "update" THEN keys \cup {o.user} ELSE keys
  /\ Finish(r)
  /\ UNCHANGED now

(* The row, then, whatever it held, the sessions of an account that is     *)
(* deactivated or deleted; a session that another request is using is      *)
(* waited for.                                                             *)
UpdateCommit(r) ==
  LET o == req[r].op  w == req[r].write IN
  /\ req[r].step = "read" /\ o.kind # "create"
  /\ Deactivates(o) =>
       \A t \in Tokens : Issued(t) /\ session[t].user = o.user => ~InUse(t, r)
  /\ account' = [account EXCEPT ![o.user] =
                   [c \in Columns |-> IF w[c] = "keep" THEN @[c] ELSE w[c]]]
  /\ session' = [t \in Tokens |->
                   IF Deactivates(o) /\ Issued(t) /\ session[t].user = o.user
                     THEN [session[t] EXCEPT !.revoked = TRUE]
                     ELSE session[t]]
  /\ keys' = IF o.kind = "update" THEN keys \cup {o.user} ELSE keys
  /\ Finish(r)
  /\ UNCHANGED now

----------------------------------------------------------------------------
(* A request ends without effect: an error answer, a violated unique       *)
(* constraint, a deadlock, a disconnection.                                *)
Abort(r) ==
  /\ req[r] # Idle
  /\ Finish(r)
  /\ UNCHANGED <<now, account, keys, session>>

Tick ==
  /\ now < MaxTime
  /\ now' = now + 1
  /\ UNCHANGED <<account, keys, session, req>>

(* bootstrap_api_keys_from_env: imports API_KEYS into an empty registry.   *)
Bootstrap(env) == keys' = IF keys = {} THEN env ELSE keys

(* The API restarts, with the API_KEYS its operator has set; a list that   *)
(* does not parse imports nothing.                                         *)
Restart(env) ==
  /\ Bootstrap(env)
  /\ req' = [r \in Requests |-> Idle]
  /\ UNCHANGED <<now, account, session>>

Init ==
  /\ now = 0
  /\ account = [u \in Users |-> NoAccount]
  /\ keys \in SUBSET EnvKeys
  /\ session = [t \in Tokens |-> NoSession]
  /\ req = [r \in Requests |-> Idle]

Next ==
  \/ \E r \in Requests, u \in Users, p \in Passwords :
       SetupCheck(r, u, p) \/ LoginCheck(r, u, p)
  \/ \E r \in Requests, t \in Tokens, o \in Op : AdminBegin(r, t, o)
  \/ \E r \in Requests :
       \/ SetupCommit(r) \/ LoginCommit(r)
       \/ CreateRead(r) \/ CreateCommit(r)
       \/ UpdateRead(r) \/ UpdateCommit(r)
       \/ Abort(r)
  \/ \E t \in Tokens : Logout(t)
  \/ \E env \in SUBSET EnvKeys : Restart(env)
  \/ Tick

Spec == Init /\ [][Next]_vars

----------------------------------------------------------------------------
(* Every account has its internal key (create_user stores both), so the    *)
(* registry is not empty once an account exists.                           *)
UsersHaveKeys == \A u \in Users : Exists(u) => u \in keys

(* What an update has read still holds, or held, when it commits: accounts *)
(* are never removed, it writes only what was asked, and it saw another    *)
(* administrator if it takes one away.                                     *)
UpdatesAreAsked ==
  \A r \in Requests :
    req[r].step = "read" /\ req[r].op.kind # "create" =>
      /\ Exists(req[r].op.user)
      /\ \A c \in Columns : req[r].write[c] \in {"keep", req[r].op.set[c]}
OthersWereSeen ==
  \A r \in Requests :
    /\ req[r].step = "read" /\ req[r].op.kind # "create"
    /\ req[r].op.user \in req[r].seen
    /\ Deactivates(req[r].op) \/ req[r].op.set.role = "user"
    => ~ (Cardinality(req[r].seen) <= 1)

(* Deactivating an account revokes its sessions.                           *)
SessionsAreOfActiveUsers ==
  \A t \in Tokens :
    Issued(t) /\ ~session[t].late /\ ~session[t].revoked =>
      account[session[t].user].status = "active"

(* The inductive invariant of the proofs.                                  *)
AccountsInv ==
  /\ TypeOK
  /\ UsersHaveKeys /\ UpdatesAreAsked /\ OthersWereSeen
  /\ SessionsAreOfActiveUsers

(* The environment's keys are imported before the first account or never:  *)
(* a restart never opens the registry again, since the internal key of a   *)
(* web user fills it as well as an imported one does.                      *)
NoLateImport ==
  [][keys' \cap EnvKeys # keys \cap EnvKeys => SetupRequired]_vars

(* The last active administrator is lost to a race only: the request that  *)
(* removes it counted, or read, other administrators than the ones left    *)
(* when it commits.  Requests that do not overlap never remove it.         *)
LastAdminLostOnlyToARace ==
  [][ActiveAdmins # {} /\ ActiveAdmins' = {} =>
       \E r \in Requests : /\ req[r].step = "read" /\ req'[r] = Idle
                           /\ req[r].seen # ActiveAdmins]_vars

(* No administrator is left, no request that may make one is in progress,  *)
(* and there are accounts.                                                 *)
LockedOut ==
  /\ ~SetupRequired
  /\ ActiveAdmins = {}
  /\ \A r \in Requests : req[r].step \in {"idle", "login"}

(* Nothing brings an administrator back then: neither setup, which asks    *)
(* for an empty table, nor a restart, nor any sequence of requests.        *)
LockoutIsFinal == [][LockedOut => LockedOut']_vars

(* A session that is refused (logged out, expired, or its owner is not     *)
(* active) is never accepted again, whatever happens to the account, but   *)
(* for one that a sign-in stored after its account had been deactivated.   *)
RefusedStaysRefused ==
  [][\A t \in Tokens :
       Issued(t) /\ ~session[t].late /\ ~Accepted(t) => ~Accepted(t)']_vars

(* Two administrators who change different columns of one account do not   *)
(* undo each other: a column changes only to what the request that commits *)
(* asked for.                                                              *)
NoLostUpdate ==
  [][\A u \in Users, c \in Columns :
       Exists(u) /\ account'[u][c] # account[u][c] =>
         \E r \in Requests : /\ req[r].step = "read" /\ req'[r] = Idle
                             /\ req[r].op.user = u
                             /\ req[r].op.set[c] = account'[u][c]]_vars
=============================================================================
