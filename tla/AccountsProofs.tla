--------------------------- MODULE AccountsProofs ---------------------------
(***************************************************************************)
(* Proofs about Accounts: its types, and that the keys of the environment  *)
(* are never imported once there are accounts.                             *)
(***************************************************************************)
EXTENDS Accounts, FiniteSetTheorems, TLAPS

LEMMA ChangeIsRecord ==
  ASSUME NEW f, f = [c \in Columns |-> f[c]],
         f["status"] \in Statuses \cup {"keep"},
         f["role"] \in Roles \cup {"keep"},
         f["pw"] \in Passwords \cup {"keep"}
  PROVE  f \in Change
BY DEF Columns, Change

LEMMA OpSetsAreChanges == \A o \in Op : o.set \in Change
<1>1. \A s \in [status : {"active"}, role : Roles, pw : Passwords] : s \in Change
  BY DEF Change, Statuses
<1>2. [NoChange EXCEPT !["status"] = "deleted"] \in Change
  <2> DEFINE f == [NoChange EXCEPT !["status"] = "deleted"]
  <2>1. f["status"] = "deleted" /\ f["role"] = "keep" /\ f["pw"] = "keep"
    BY DEF NoChange, Columns
  <2>2. f = [c \in Columns |-> f[c]]
    BY DEF NoChange
  <2> HIDE DEF f
  <2>3. f \in Change
    BY <2>1, <2>2, ChangeIsRecord DEF Statuses
  <2> QED
    BY <2>3 DEF f
<1> QED
  BY <1>1, <1>2, AccountsAssumption DEF Op

LEMMA DirtyType ==
  ASSUME TypeOK, NEW o \in Op, Exists(o.user)
  PROVE  Dirty(o) \in Change
<1> DEFINE d == Dirty(o)
<1>1. o.set \in Change
  BY OpSetsAreChanges
<1>2. /\ d["status"] = IF o.set["status"] = account[o.user]["status"] THEN "keep" ELSE o.set["status"]
      /\ d["role"] = IF o.set["role"] = account[o.user]["role"] THEN "keep" ELSE o.set["role"]
      /\ d["pw"] = IF o.set["pw"] = account[o.user]["pw"] THEN "keep" ELSE o.set["pw"]
  BY DEF Dirty, Columns
<1>3. d = [c \in Columns |-> d[c]]
  BY DEF Dirty
<1>4. /\ d["status"] \in Statuses \cup {"keep"}
      /\ d["role"] \in Roles \cup {"keep"}
      /\ d["pw"] \in Passwords \cup {"keep"}
  BY <1>1, <1>2 DEF Change
<1> QED
  BY <1>3, <1>4, ChangeIsRecord

LEMMA AccountIsRecord ==
  ASSUME NEW f, f = [c \in Columns |-> f[c]],
         f["status"] \in Statuses \cup {"none"},
         f["role"] \in Roles,
         f["pw"] \in Passwords \cup {NoPassword}
  PROVE  f \in Account
BY DEF Columns, Account

LEMMA UpdatedAccount ==
  ASSUME NEW a \in Account, NEW w \in Change
  PROVE  [c \in Columns |-> IF w[c] = "keep" THEN a[c] ELSE w[c]] \in Account
<1> DEFINE f == [c \in Columns |-> IF w[c] = "keep" THEN a[c] ELSE w[c]]
<1>1. /\ f["status"] = IF w["status"] = "keep" THEN a["status"] ELSE w["status"]
      /\ f["role"] = IF w["role"] = "keep" THEN a["role"] ELSE w["role"]
      /\ f["pw"] = IF w["pw"] = "keep" THEN a["pw"] ELSE w["pw"]
  BY DEF Columns
<1>2. f = [c \in Columns |-> f[c]]
  OBVIOUS
<1>3. /\ f["status"] \in Statuses \cup {"none"}
      /\ f["role"] \in Roles
      /\ f["pw"] \in Passwords \cup {NoPassword}
  BY <1>1 DEF Change, Account
<1> HIDE DEF f
<1>4. f \in Account
  BY <1>2, <1>3, AccountIsRecord
<1> QED
  BY <1>4 DEF f

----------------------------------------------------------------------------
LEMMA InitTypes == Init => TypeOK
BY DEF Init, TypeOK, NoAccount, Account, Roles, RequestState, Idle

LEMMA StoreTypes ==
  ASSUME TypeOK, NEW u \in Users, NEW role \in Roles, NEW pw \in Passwords,
         Store(u, role, pw)
  PROVE  /\ account' \in [Users -> Account]
         /\ keys' \in SUBSET (EnvKeys \cup Users)
<1>1. [status |-> "active", role |-> role, pw |-> pw] \in Account
  BY DEF Account, Statuses
<1> QED
  BY <1>1 DEF TypeOK, Store

LEMMA OpenTypes ==
  ASSUME TypeOK, NEW u \in Users, NEW e \in Nat, NEW late \in BOOLEAN,
         OpenSession(u, e, late)
  PROVE  session' \in [Tokens -> Session \cup {NoSession}]
BY DEF TypeOK, OpenSession, Session

LEMMA FinishTypes ==
  ASSUME TypeOK, NEW r \in Requests, Finish(r)
  PROVE  req' \in [Requests -> RequestState]
BY DEF TypeOK, Finish, RequestState

(* What a request in each step holds.                                      *)
LEMMA RequestTypes ==
  ASSUME TypeOK, NEW r \in Requests
  PROVE  /\ req[r].step = "setup" => req[r] \in [step : {"setup"}, user : Users, pw : Passwords, expires : Nat]
         /\ req[r].step = "login" => req[r] \in [step : {"login"}, user : Users, expires : Nat]
         /\ req[r].step = "begun" => req[r] \in [step : {"begun"}, by : Tokens, op : Op]
         /\ req[r].step = "read" => req[r] \in [step : {"read"}, by : Tokens, op : Op, write : Change, seen : SUBSET Users]
BY DEF TypeOK, RequestState, Idle

LEMMA ReadTypes ==
  ASSUME TypeOK, NEW r \in Requests, req[r].step = "begun",
         NEW w \in Change, Read(r, w)
  PROVE  req' \in [Requests -> RequestState]
<1>1. ActiveAdmins \in SUBSET Users
  BY DEF ActiveAdmins
<1>2. req[r].by \in Tokens /\ req[r].op \in Op
  BY RequestTypes
<1>3. [step |-> "read", by |-> req[r].by, op |-> req[r].op, write |-> w,
       seen |-> ActiveAdmins] \in RequestState
  BY <1>1, <1>2 DEF RequestState
<1> QED
  BY <1>3 DEF TypeOK, Read

----------------------------------------------------------------------------
LEMMA NextTypes == TypeOK /\ [Next]_vars => TypeOK'
<1> SUFFICES ASSUME TypeOK, [Next]_vars
             PROVE  TypeOK'
  OBVIOUS
<1>1. ASSUME NEW r \in Requests, NEW u \in Users, NEW p \in Passwords,
             SetupCheck(r, u, p)
      PROVE  TypeOK'
  <2>1. now + TTL \in Nat
    BY AccountsAssumption DEF TypeOK
  <2>2. [step |-> "setup", user |-> u, pw |-> p, expires |-> now + TTL]
          \in RequestState
    BY <2>1 DEF RequestState
  <2> QED
    BY <1>1, <2>2 DEF TypeOK, SetupCheck
<1>2. ASSUME NEW r \in Requests, NEW u \in Users, NEW p \in Passwords,
             LoginCheck(r, u, p)
      PROVE  TypeOK'
  <2>1. now + TTL \in Nat
    BY AccountsAssumption DEF TypeOK
  <2>2. [step |-> "login", user |-> u, expires |-> now + TTL] \in RequestState
    BY <2>1 DEF RequestState
  <2> QED
    BY <1>2, <2>2 DEF TypeOK, LoginCheck
<1>3. ASSUME NEW r \in Requests, NEW t \in Tokens, NEW o \in Op,
             AdminBegin(r, t, o)
      PROVE  TypeOK'
  <2>1. [step |-> "begun", by |-> t, op |-> o] \in RequestState
    BY DEF RequestState
  <2> QED
    BY <1>3, <2>1 DEF TypeOK, AdminBegin
<1>4. ASSUME NEW r \in Requests, SetupCommit(r)
      PROVE  TypeOK'
  <2>1. req[r].user \in Users /\ req[r].pw \in Passwords /\ req[r].expires \in Nat
    BY <1>4, RequestTypes DEF SetupCommit
  <2>2. /\ account' \in [Users -> Account]
        /\ keys' \in SUBSET (EnvKeys \cup Users)
    BY <1>4, <2>1, StoreTypes DEF SetupCommit, Roles
  <2>3. session' \in [Tokens -> Session \cup {NoSession}]
    BY <1>4, <2>1, OpenTypes DEF SetupCommit
  <2> QED
    BY <1>4, <2>2, <2>3, FinishTypes DEF SetupCommit, TypeOK
<1>5. ASSUME NEW r \in Requests, LoginCommit(r)
      PROVE  TypeOK'
  <2>1. req[r].user \in Users /\ req[r].expires \in Nat
    BY <1>5, RequestTypes DEF LoginCommit
  <2>2. session' \in [Tokens -> Session \cup {NoSession}]
    BY <1>5, <2>1, OpenTypes DEF LoginCommit
  <2> QED
    BY <1>5, <2>1, <2>2, FinishTypes DEF LoginCommit, TypeOK
<1>6. ASSUME NEW r \in Requests, CreateRead(r)
      PROVE  TypeOK'
  <2>1. req[r].op.set \in Change
    BY <1>6, RequestTypes, OpSetsAreChanges DEF CreateRead
  <2> QED
    BY <1>6, <2>1, ReadTypes DEF CreateRead, TypeOK
<1>7. ASSUME NEW r \in Requests, CreateCommit(r)
      PROVE  TypeOK'
  <2>1. /\ req[r].op.user \in Users
        /\ req[r].op.set.role \in Roles /\ req[r].op.set.pw \in Passwords
    BY <1>7, RequestTypes DEF CreateCommit, Op
  <2>2. /\ account' \in [Users -> Account]
        /\ keys' \in SUBSET (EnvKeys \cup Users)
    BY <1>7, <2>1, StoreTypes DEF CreateCommit
  <2> QED
    BY <1>7, <2>2, FinishTypes DEF CreateCommit, TypeOK
<1>8. ASSUME NEW r \in Requests, UpdateRead(r)
      PROVE  TypeOK'
  <2>1. req[r].op \in Op
    BY <1>8, RequestTypes DEF UpdateRead
  <2>2. Dirty(req[r].op) \in Change
    BY <1>8, <2>1, DirtyType DEF UpdateRead
  <2> QED
    BY <1>8, <2>2, ReadTypes DEF UpdateRead, TypeOK
<1>9. ASSUME NEW r \in Requests, UpdateCommit(r)
      PROVE  TypeOK'
  <2> DEFINE o == req[r].op  w == req[r].write
  <2>1. o \in Op /\ w \in Change /\ o.user \in Users
    BY <1>9, RequestTypes DEF UpdateCommit, Op
  <2>2. account' \in [Users -> Account]
    <3>1. account[o.user] \in Account
      BY <2>1 DEF TypeOK
    <3>2. [c \in Columns |-> IF w[c] = "keep" THEN account[o.user][c] ELSE w[c]]
            \in Account
      BY <2>1, <3>1, UpdatedAccount
    <3> QED
      BY <1>9, <2>1, <3>2 DEF UpdateCommit, TypeOK
  <2>3. session' \in [Tokens -> Session \cup {NoSession}]
    <3>1. ASSUME NEW t \in Tokens, Issued(t)
          PROVE  [session[t] EXCEPT !.revoked = TRUE] \in Session
      BY <3>1 DEF TypeOK, Issued, Session
    <3> QED
      BY <1>9, <3>1 DEF UpdateCommit, TypeOK
  <2>4. keys' \in SUBSET (EnvKeys \cup Users)
    BY <1>9, <2>1 DEF UpdateCommit, TypeOK
  <2> QED
    BY <1>9, <2>2, <2>3, <2>4, FinishTypes DEF UpdateCommit, TypeOK
<1>10. ASSUME NEW r \in Requests, Abort(r)
       PROVE  TypeOK'
  BY <1>10, FinishTypes DEF Abort, TypeOK
<1>11. ASSUME NEW t \in Tokens, Logout(t)
       PROVE  TypeOK'
  <2>1. [session[t] EXCEPT !.revoked = TRUE] \in Session
    BY <1>11 DEF Logout, TypeOK, Issued, Session
  <2> QED
    BY <1>11, <2>1 DEF Logout, TypeOK
<1>12. ASSUME NEW env \in SUBSET EnvKeys, Restart(env)
       PROVE  TypeOK'
  BY <1>12 DEF Restart, Bootstrap, TypeOK, RequestState
<1>13. CASE Tick
  BY <1>13 DEF Tick, TypeOK
<1>14. CASE UNCHANGED vars
  BY <1>14 DEF vars, TypeOK
<1> QED
  BY <1>1, <1>2, <1>3, <1>4, <1>5, <1>6, <1>7, <1>8, <1>9, <1>10, <1>11,
     <1>12, <1>13, <1>14 DEF Next

(* TypeOK is an invariant.                                                 *)
THEOREM TypeCorrect == Spec => []TypeOK
BY InitTypes, NextTypes, PTL DEF Spec

----------------------------------------------------------------------------
(* A request that commits changes its own state only.                      *)
LEMMA Finished ==
  ASSUME TypeOK, NEW r \in Requests, Finish(r), NEW q \in Requests
  PROVE  /\ q # r => req'[q] = req[q]
         /\ req'[q].step = "read" => q # r
         /\ req'[r] = Idle
BY DEF TypeOK, Finish, Idle

(* An update leaves every account but its own as it was, and of its own    *)
(* the columns it does not write.                                          *)
LEMMA UpdateWrites ==
  ASSUME TypeOK, UpdatesAreAsked, NEW r \in Requests, UpdateCommit(r)
  PROVE  /\ req[r].op \in Op /\ req[r].op.user \in Users
         /\ Exists(req[r].op.user)
         /\ req[r].write \in Change
         /\ \A u \in Users : u # req[r].op.user => account'[u] = account[u]
         /\ \A c \in Columns :
              account'[req[r].op.user][c] \in
                {account[req[r].op.user][c], req[r].op.set[c]}
<1> DEFINE o == req[r].op  w == req[r].write
<1>1. o \in Op /\ w \in Change /\ o.user \in Users
  BY RequestTypes DEF UpdateCommit, Op
<1>2. account' = [account EXCEPT ![o.user] =
                    [c \in Columns |-> IF w[c] = "keep" THEN @[c] ELSE w[c]]]
  BY DEF UpdateCommit
<1>3. account'[o.user] = [c \in Columns |-> IF w[c] = "keep"
                                             THEN account[o.user][c] ELSE w[c]]
  BY <1>1, <1>2 DEF TypeOK
<1>4. \A c \in Columns : w[c] \in {"keep", o.set[c]}
  BY DEF UpdatesAreAsked, UpdateCommit
<1>5. Exists(o.user)
  BY DEF UpdatesAreAsked, UpdateCommit
<1>6. \A u \in Users : u # o.user => account'[u] = account[u]
  BY <1>1, <1>2 DEF TypeOK
<1>7. \A c \in Columns : account'[o.user][c] \in {account[o.user][c], o.set[c]}
  BY <1>3, <1>4
<1> QED
  BY <1>1, <1>5, <1>6, <1>7

(* The requests that write accounts, and what every other step leaves.     *)
LEMMA AccountSteps ==
  ASSUME [Next]_vars
  PROVE  \/ account' = account
         \/ \E r \in Requests : SetupCommit(r) \/ CreateCommit(r) \/ UpdateCommit(r)
BY DEF Next, vars, SetupCheck, LoginCheck, AdminBegin, LoginCommit, CreateRead,
       UpdateRead, Abort, Logout, Restart, Tick

(* Accounts stay.                                                          *)
LEMMA AccountsStay ==
  ASSUME TypeOK, UpdatesAreAsked, [Next]_vars, NEW u \in Users, Exists(u)
  PROVE  Exists(u)'
<1>1. ASSUME NEW r \in Requests, SetupCommit(r)
      PROVE  Exists(u)'
  BY <1>1 DEF SetupCommit, Store, Exists, TypeOK
<1>2. ASSUME NEW r \in Requests, CreateCommit(r)
      PROVE  Exists(u)'
  BY <1>2 DEF CreateCommit, Store, Exists, TypeOK
<1>3. ASSUME NEW r \in Requests, UpdateCommit(r)
      PROVE  Exists(u)'
  <2>1. CASE u # req[r].op.user
    BY <1>3, <2>1, UpdateWrites DEF Exists
  <2>2. CASE u = req[r].op.user
    <3>1. account'[u]["status"] \in {account[u]["status"], req[r].op.set["status"]}
      BY <1>3, <2>2, UpdateWrites DEF Columns
    <3>2. req[r].op.set["status"] # "none"
      BY <1>3, UpdateWrites, OpSetsAreChanges DEF Change, Statuses
    <3> QED
      BY <3>1, <3>2 DEF Exists
  <2> QED
    BY <2>1, <2>2
<1>4. CASE account' = account
  BY <1>4 DEF Exists
<1> QED
  BY <1>1, <1>2, <1>3, <1>4, AccountSteps

(* Keys are removed by no step.                                            *)
LEMMA KeysStay ==
  ASSUME [Next]_vars
  PROVE  keys \subseteq keys'
BY DEF Next, vars, SetupCheck, SetupCommit, LoginCheck, LoginCommit, AdminBegin,
       CreateRead, CreateCommit, UpdateRead, UpdateCommit, Abort, Logout,
       Restart, Bootstrap, Tick, Store

LEMMA KeysStep ==
  ASSUME TypeOK, UsersHaveKeys, UpdatesAreAsked, [Next]_vars
  PROVE  UsersHaveKeys'
<1> SUFFICES ASSUME NEW u \in Users, Exists(u)'
             PROVE  u \in keys'
  BY DEF UsersHaveKeys
<1>1. CASE Exists(u)
  BY <1>1, KeysStay DEF UsersHaveKeys
<1>2. CASE ~Exists(u)
  <2>1. ASSUME NEW r \in Requests, SetupCommit(r)
        PROVE  u \in keys'
    BY <1>2, <2>1 DEF SetupCommit, Store, Exists, TypeOK
  <2>2. ASSUME NEW r \in Requests, CreateCommit(r)
        PROVE  u \in keys'
    BY <1>2, <2>2 DEF CreateCommit, Store, Exists, TypeOK
  <2>3. ASSUME NEW r \in Requests, UpdateCommit(r)
        PROVE  u \in keys'
    BY <1>2, <2>3, UpdateWrites DEF Exists
  <2>4. CASE account' = account
    BY <1>2, <2>4 DEF Exists
  <2> QED
    BY <2>1, <2>2, <2>3, <2>4, AccountSteps
<1> QED
  BY <1>1, <1>2

(* A request that has just read its account, or had read it before.        *)
LEMMA ReadingRequests ==
  ASSUME TypeOK, [Next]_vars, NEW r \in Requests,
         req'[r].step = "read", req'[r].op.kind # "create"
  PROVE  \/ /\ UpdateRead(r)
            /\ req'[r].op = req[r].op /\ req[r].op \in Op
            /\ req'[r].write = Dirty(req[r].op)
            /\ req'[r].seen = ActiveAdmins
         \/ req'[r] = req[r]
<1>1. ASSUME NEW q \in Requests,
             \/ SetupCommit(q) \/ LoginCommit(q) \/ CreateCommit(q)
             \/ UpdateCommit(q) \/ Abort(q)
      PROVE  req'[r] = req[r]
  BY <1>1, Finished DEF SetupCommit, LoginCommit, CreateCommit, UpdateCommit, Abort
<1>2. ASSUME NEW q \in Requests, NEW u \in Users, NEW p \in Passwords,
             SetupCheck(q, u, p) \/ LoginCheck(q, u, p)
      PROVE  req'[r] = req[r]
  BY <1>2 DEF SetupCheck, LoginCheck, TypeOK
<1>3. ASSUME NEW q \in Requests, NEW t \in Tokens, NEW o \in Op, AdminBegin(q, t, o)
      PROVE  req'[r] = req[r]
  BY <1>3 DEF AdminBegin, TypeOK
<1>4. ASSUME NEW q \in Requests, CreateRead(q)
      PROVE  req'[r] = req[r]
  BY <1>4 DEF CreateRead, Read, TypeOK
<1>5. ASSUME NEW q \in Requests, UpdateRead(q), q # r
      PROVE  req'[r] = req[r]
  BY <1>5 DEF UpdateRead, Read, TypeOK
<1>6. ASSUME UpdateRead(r)
      PROVE  /\ req'[r].op = req[r].op /\ req[r].op \in Op
             /\ req'[r].write = Dirty(req[r].op)
             /\ req'[r].seen = ActiveAdmins
  BY <1>6, RequestTypes DEF UpdateRead, Read, TypeOK
<1>7. ASSUME NEW env \in SUBSET EnvKeys, Restart(env)
      PROVE  FALSE
  BY <1>7 DEF Restart, Idle
<1>8. ASSUME UNCHANGED req
      PROVE  req'[r] = req[r]
  BY <1>8
<1> QED
  BY <1>1, <1>2, <1>3, <1>4, <1>5, <1>6, <1>7, <1>8 DEF Next, vars, Logout, Tick

LEMMA AskedStep ==
  ASSUME TypeOK, UpdatesAreAsked, [Next]_vars
  PROVE  UpdatesAreAsked'
<1> SUFFICES ASSUME NEW r \in Requests,
                    req'[r].step = "read", req'[r].op.kind # "create"
             PROVE  /\ account'[req'[r].op.user].status # "none"
                    /\ \A c \in Columns :
                         req'[r].write[c] \in {"keep", req'[r].op.set[c]}
  BY DEF UpdatesAreAsked, Exists
<1>1. CASE req'[r] = req[r]
  <2>1. /\ req[r].op.user \in Users
        /\ Exists(req[r].op.user)
        /\ \A c \in Columns : req[r].write[c] \in {"keep", req[r].op.set[c]}
    BY <1>1, RequestTypes DEF UpdatesAreAsked, Op
  <2>2. account'[req[r].op.user].status # "none"
    BY <2>1, AccountsStay DEF Exists
  <2> QED
    BY <1>1, <2>1, <2>2
<1>2. CASE /\ UpdateRead(r)
           /\ req'[r].op = req[r].op /\ req[r].op \in Op
           /\ req'[r].write = Dirty(req[r].op)
  <2>1. account'[req'[r].op.user].status # "none"
    BY <1>2 DEF UpdateRead, Exists
  <2>2. \A c \in Columns : Dirty(req[r].op)[c] \in {"keep", req[r].op.set[c]}
    BY DEF Dirty
  <2> QED
    BY <1>2, <2>1, <2>2
<1> QED
  BY <1>1, <1>2, ReadingRequests

LEMMA OthersStep ==
  ASSUME TypeOK, OthersWereSeen, [Next]_vars
  PROVE  OthersWereSeen'
<1> SUFFICES ASSUME NEW r \in Requests,
                    req'[r].step = "read", req'[r].op.kind # "create",
                    req'[r].op.user \in req'[r].seen,
                    Deactivates(req'[r].op) \/ req'[r].op.set.role = "user"
             PROVE  ~ (Cardinality(req'[r].seen) <= 1)
  BY DEF OthersWereSeen, Deactivates
<1>1. CASE req'[r] = req[r]
  BY <1>1 DEF OthersWereSeen
<1>2. CASE /\ UpdateRead(r)
           /\ req'[r].op = req[r].op
           /\ req'[r].seen = ActiveAdmins
  BY <1>2 DEF UpdateRead, RemovesLastAdmin
<1> QED
  BY <1>1, <1>2, ReadingRequests

(* The steps that write sessions.                                          *)
LEMMA SessionSteps ==
  ASSUME [Next]_vars
  PROVE  \/ session' = session
         \/ \E r \in Requests : SetupCommit(r) \/ LoginCommit(r) \/ UpdateCommit(r)
         \/ \E t \in Tokens : Logout(t)
BY DEF Next, vars, SetupCheck, LoginCheck, AdminBegin, CreateRead, CreateCommit,
       UpdateRead, Abort, Restart, Tick

(* A session that a step leaves unrevoked is new, or was as it is.         *)
LEMMA LiveSession ==
  ASSUME TypeOK, [Next]_vars, NEW t \in Tokens,
         Issued(t), ~session'[t].revoked
  PROVE  session'[t] = session[t]
<1>1. ASSUME NEW r \in Requests, SetupCommit(r)
      PROVE  session'[t] = session[t]
  BY <1>1 DEF SetupCommit, OpenSession, TypeOK, Issued
<1>2. ASSUME NEW r \in Requests, LoginCommit(r)
      PROVE  session'[t] = session[t]
  BY <1>2 DEF LoginCommit, OpenSession, TypeOK, Issued
<1>3. session[t] \in Session
  BY DEF TypeOK, Issued
<1>4. [session[t] EXCEPT !.revoked = TRUE].revoked
  BY <1>3 DEF Session
<1>5. ASSUME NEW r \in Requests, UpdateCommit(r)
      PROVE  session'[t] = session[t]
  BY <1>4, <1>5 DEF UpdateCommit
<1>6. ASSUME NEW s \in Tokens, Logout(s)
      PROVE  session'[t] = session[t]
  BY <1>4, <1>6 DEF Logout, TypeOK
<1> QED
  BY <1>1, <1>2, <1>5, <1>6, SessionSteps

LEMMA SessionsStep ==
  ASSUME TypeOK, UpdatesAreAsked, SessionsAreOfActiveUsers, [Next]_vars
  PROVE  SessionsAreOfActiveUsers'
<1> SUFFICES ASSUME NEW t \in Tokens,
                    Issued(t)', ~session'[t].late, ~session'[t].revoked
             PROVE  account'[session'[t].user].status = "active"
  BY DEF SessionsAreOfActiveUsers
<1> DEFINE v == session'[t].user
<1>1. CASE ~Issued(t)
  <2>1. ASSUME NEW r \in Requests, SetupCommit(r)
        PROVE  account'[v].status = "active"
    <3>1. v = req[r].user /\ v \in Users
      BY <1>1, <2>1, RequestTypes DEF SetupCommit, OpenSession, Issued, TypeOK
    <3> QED
      BY <2>1, <3>1 DEF SetupCommit, Store, TypeOK
  <2>2. ASSUME NEW r \in Requests, LoginCommit(r)
        PROVE  account'[v].status = "active"
    <3>1. /\ v = req[r].user
          /\ session'[t].late = (account[req[r].user].status # "active")
      BY <1>1, <2>2 DEF LoginCommit, OpenSession, Issued, TypeOK
    <3> QED
      BY <2>2, <3>1 DEF LoginCommit
  <2>3. ASSUME NEW r \in Requests, UpdateCommit(r)
        PROVE  FALSE
    BY <1>1, <2>3 DEF UpdateCommit, Issued
  <2>4. ASSUME NEW s \in Tokens, Logout(s)
        PROVE  FALSE
    BY <1>1, <2>4 DEF Logout, Issued, TypeOK
  <2>5. CASE session' = session
    BY <1>1, <2>5 DEF Issued
  <2> QED
    BY <2>1, <2>2, <2>3, <2>4, <2>5, SessionSteps
<1>2. CASE Issued(t)
  <2>1. session'[t] = session[t] /\ session[t] \in Session
    BY <1>2, LiveSession DEF TypeOK, Issued
  <2>2. v \in Users /\ account[v].status = "active"
    BY <1>2, <2>1 DEF SessionsAreOfActiveUsers, Session
  <2>3. ASSUME NEW r \in Requests, SetupCommit(r)
        PROVE  account'[v].status = "active"
    BY <2>2, <2>3 DEF SetupCommit, Store, TypeOK
  <2>4. ASSUME NEW r \in Requests, CreateCommit(r)
        PROVE  account'[v].status = "active"
    BY <2>2, <2>4 DEF CreateCommit, Store, TypeOK
  <2>5. ASSUME NEW r \in Requests, UpdateCommit(r)
        PROVE  account'[v].status = "active"
    <3>1. CASE v # req[r].op.user
      BY <2>2, <2>5, <3>1, UpdateWrites
    <3>2. CASE v = req[r].op.user
      <4>1. ~Deactivates(req[r].op)
        <5>1. [session[t] EXCEPT !.revoked = TRUE].revoked
          BY <2>1 DEF Session
        <5> QED
          BY <1>2, <2>1, <2>5, <3>2, <5>1 DEF UpdateCommit
      <4>2. req[r].op.set["status"] \in {"active", "keep"}
        <5>1. req[r].op.kind # "create"
          BY <2>5 DEF UpdateCommit
        <5>2. req[r].op.set \in Change
          BY <2>5, UpdateWrites, OpSetsAreChanges
        <5> QED
          BY <4>1, <5>1, <5>2 DEF Deactivates, Change, Statuses
      <4>3. account'[v]["status"] \in {"active", req[r].op.set["status"]}
        BY <2>2, <2>5, <3>2, UpdateWrites DEF Columns
      <4>4. account'[v]["status"] # "keep"
        BY <2>2, NextTypes DEF TypeOK, Account, Statuses
      <4> QED
        BY <4>2, <4>3, <4>4
    <3> QED
      BY <3>1, <3>2
  <2>6. CASE account' = account
    BY <2>2, <2>6
  <2> QED
    BY <2>3, <2>4, <2>5, <2>6, AccountSteps
<1> QED
  BY <1>1, <1>2

LEMMA InitInv == Init => AccountsInv
BY InitTypes DEF Init, AccountsInv, UsersHaveKeys, UpdatesAreAsked,
   OthersWereSeen, SessionsAreOfActiveUsers, Exists, NoAccount, Idle, Issued

\* The inductive invariant of the accounts: the keys, requests and sessions of users.
THEOREM AccountsHold == Spec => []AccountsInv
<1>1. AccountsInv /\ [Next]_vars => AccountsInv'
  BY NextTypes, KeysStep, AskedStep, OthersStep, SessionsStep DEF AccountsInv
<1> QED
  BY <1>1, InitInv, PTL DEF Spec

----------------------------------------------------------------------------
(* API keys are imported from the environment before the first account or  *)
(* never: a registry with an account's key is not empty.                   *)
THEOREM NoLateImportHolds == Spec => NoLateImport
<1>1. ASSUME AccountsInv, [Next]_vars, keys' \cap EnvKeys # keys \cap EnvKeys
      PROVE  SetupRequired
  <2>1. PICK env \in SUBSET EnvKeys : Restart(env)
    <3>1. ASSUME NEW r \in Requests,
                 SetupCommit(r) \/ CreateCommit(r) \/ LoginCommit(r) \/ UpdateCommit(r)
          PROVE  \E u \in Users : keys' \in {keys, keys \cup {u}}
      <4>1. CASE SetupCommit(r) \/ LoginCommit(r)
        BY <1>1, <4>1, RequestTypes
           DEF AccountsInv, SetupCommit, LoginCommit, Store
      <4>2. CASE CreateCommit(r)
        BY <1>1, <4>2, RequestTypes DEF AccountsInv, CreateCommit, Store, Op
      <4>3. CASE UpdateCommit(r)
        <5>1. req[r].op.user \in Users
          BY <1>1, <4>3, UpdateWrites DEF AccountsInv
        <5> QED
          BY <4>3, <5>1 DEF UpdateCommit
      <4> QED
        BY <3>1, <4>1, <4>2, <4>3
    <3>2. \A u \in Users : (keys \cup {u}) \cap EnvKeys = keys \cap EnvKeys
      BY AccountsAssumption
    <3>3. CASE keys' = keys
      BY <1>1, <3>3
    <3> QED
      BY <1>1, <3>1, <3>2, <3>3 DEF Next, vars, SetupCheck, LoginCheck, AdminBegin,
         CreateRead, UpdateRead, Abort, Logout, Tick
  <2>2. keys = {}
    BY <1>1, <2>1 DEF Restart, Bootstrap
  <2> QED
    BY <1>1, <2>2 DEF AccountsInv, UsersHaveKeys, SetupRequired
<1>2. AccountsInv /\ [Next]_vars
        => [keys' \cap EnvKeys # keys \cap EnvKeys => SetupRequired]_vars
  BY <1>1
<1> QED
  BY <1>2, AccountsHold, PTL DEF Spec, NoLateImport

(* Overlapping updates of one account do not undo each other's columns.    *)
THEOREM NoLostUpdateHolds == Spec => NoLostUpdate
<1> DEFINE Asked == \A u \in Users, c \in Columns :
              Exists(u) /\ account'[u][c] # account[u][c] =>
                \E r \in Requests : /\ req[r].step = "read" /\ req'[r] = Idle
                                    /\ req[r].op.user = u
                                    /\ req[r].op.set[c] = account'[u][c]
<1>1. ASSUME AccountsInv, [Next]_vars, NEW u \in Users, NEW c \in Columns,
             Exists(u), account'[u][c] # account[u][c]
      PROVE  \E r \in Requests : /\ req[r].step = "read" /\ req'[r] = Idle
                                 /\ req[r].op.user = u
                                 /\ req[r].op.set[c] = account'[u][c]
  <2>1. ASSUME NEW r \in Requests, SetupCommit(r)
        PROVE  FALSE
    BY <1>1, <2>1 DEF SetupCommit, Store, AccountsInv, TypeOK
  <2>2. ASSUME NEW r \in Requests, CreateCommit(r)
        PROVE  FALSE
    BY <1>1, <2>2 DEF CreateCommit, Store, AccountsInv, TypeOK
  <2>3. PICK r \in Requests : UpdateCommit(r)
    BY <1>1, <2>1, <2>2, AccountSteps
  <2>4. req[r].op.user = u
    BY <1>1, <2>3, UpdateWrites DEF AccountsInv
  <2>5. req[r].op.set[c] = account'[u][c]
    BY <1>1, <2>3, <2>4, UpdateWrites DEF AccountsInv
  <2>6. req[r].step = "read" /\ req'[r] = Idle
    BY <1>1, <2>3, Finished DEF UpdateCommit, AccountsInv
  <2> QED
    BY <2>4, <2>5, <2>6
<1>2. AccountsInv /\ [Next]_vars => [Asked]_vars
  BY <1>1
<1> QED
  BY <1>2, AccountsHold, PTL DEF Spec, NoLostUpdate

(* A session that is refused is refused for ever.                          *)
THEOREM RefusedStaysRefusedHolds == Spec => RefusedStaysRefused
<1> DEFINE Refused == \A t \in Tokens :
              Issued(t) /\ ~session[t].late /\ ~Accepted(t) => ~Accepted(t)'
<1>1. ASSUME AccountsInv, [Next]_vars, NEW t \in Tokens,
             Issued(t), ~session[t].late, Accepted(t)'
      PROVE  Accepted(t)
  <2>1. session'[t] = session[t]
    BY <1>1, LiveSession DEF Accepted, AccountsInv
  <2>2. now' = now \/ now' = now + 1
    <3>1. ASSUME NEW r \in Requests,
                 \/ SetupCommit(r) \/ LoginCommit(r) \/ CreateRead(r)
                 \/ CreateCommit(r) \/ UpdateRead(r) \/ Abort(r)
          PROVE  now' = now
      BY <3>1 DEF SetupCommit, LoginCommit, CreateRead, CreateCommit, UpdateRead, Abort
    <3>2. ASSUME NEW r \in Requests, UpdateCommit(r)
          PROVE  now' = now
      BY <3>2, Zenon DEF UpdateCommit
    <3>3. ASSUME NEW s \in Tokens, Logout(s)
          PROVE  now' = now
      BY <3>3, Zenon DEF Logout
    <3>4. ASSUME NEW r \in Requests, NEW u \in Users, NEW p \in Passwords,
                 SetupCheck(r, u, p) \/ LoginCheck(r, u, p)
          PROVE  now' = now
      BY <3>4 DEF SetupCheck, LoginCheck
    <3>5. ASSUME NEW r \in Requests, NEW s \in Tokens, NEW o \in Op,
                 AdminBegin(r, s, o)
          PROVE  now' = now
      BY <3>5 DEF AdminBegin
    <3>6. ASSUME NEW env \in SUBSET EnvKeys, Restart(env)
          PROVE  now' = now
      BY <3>6 DEF Restart
    <3>7. Tick => now' = now + 1
      BY DEF Tick
    <3> QED
      BY <1>1, <3>1, <3>2, <3>3, <3>4, <3>5, <3>6, <3>7, Zenon DEF Next, vars
  <2>3. now \in Nat /\ now' \in Nat
    BY <1>1, NextTypes DEF AccountsInv, TypeOK
  <2>4. session[t].expires \in Nat
    BY <1>1 DEF AccountsInv, TypeOK, Issued, Session
  <2>5. session[t].expires > now
    BY <1>1, <2>1, <2>2, <2>3, <2>4 DEF Accepted
  <2>6. ~session[t].revoked
    BY <1>1, <2>1 DEF Accepted
  <2>7. account[session[t].user].status = "active"
    BY <1>1, <2>6 DEF AccountsInv, SessionsAreOfActiveUsers
  <2> QED
    BY <1>1, <2>5, <2>6, <2>7 DEF Accepted
<1>2. AccountsInv /\ [Next]_vars => [Refused]_vars
  BY <1>1
<1> QED
  BY <1>2, AccountsHold, PTL DEF Spec, RefusedStaysRefused

(* An installation that has lost its last administrator stays without one. *)
THEOREM LockoutIsFinalHolds == Spec => LockoutIsFinal
<1>1. ASSUME AccountsInv, [Next]_vars, LockedOut
      PROVE  LockedOut'
  <2>1. \A r \in Requests : req[r].step \in {"idle", "login"}
    BY <1>1 DEF LockedOut
  <2>2. ASSUME NEW r \in Requests, NEW t \in Tokens, NEW o \in Op, AdminBegin(r, t, o)
        PROVE  FALSE
    <3>1. session[t].user \in Users
      BY <1>1, <2>2 DEF AdminBegin, AdminSession, Accepted, Issued, AccountsInv,
         TypeOK, Session
    <3> QED
      BY <1>1, <2>2, <3>1 DEF AdminBegin, AdminSession, Accepted, LockedOut, ActiveAdmins
  <2>3. account' = account
    BY <1>1, <2>1, AccountSteps DEF SetupCommit, CreateCommit, UpdateCommit
  <2>4. \A r \in Requests : req'[r].step \in {"idle", "login"}
    <3>1. ASSUME NEW r \in Requests, NEW u \in Users, NEW p \in Passwords,
                 LoginCheck(r, u, p)
          PROVE  \A q \in Requests : req'[q].step \in {"idle", "login"}
      BY <1>1, <2>1, <3>1 DEF LoginCheck, AccountsInv, TypeOK
    <3>2. ASSUME NEW r \in Requests, LoginCommit(r) \/ Abort(r)
          PROVE  \A q \in Requests : req'[q].step \in {"idle", "login"}
      BY <1>1, <2>1, <3>2 DEF LoginCommit, Abort, Finish, Idle, AccountsInv, TypeOK
    <3>3. ASSUME NEW env \in SUBSET EnvKeys, Restart(env)
          PROVE  \A q \in Requests : req'[q].step \in {"idle", "login"}
      BY <3>3 DEF Restart, Idle
    <3>4. ASSUME NEW r \in Requests, NEW u \in Users, NEW p \in Passwords,
                 SetupCheck(r, u, p)
          PROVE  FALSE
      BY <1>1, <3>4 DEF SetupCheck, LockedOut
    <3>5. CASE req' = req
      BY <2>1, <3>5
    <3> QED
      BY <1>1, <2>1, <2>2, <3>1, <3>2, <3>3, <3>4, <3>5 DEF Next, vars, SetupCommit,
         CreateRead, CreateCommit, UpdateRead, UpdateCommit, Logout, Tick
  <2> QED
    BY <1>1, <2>3, <2>4 DEF LockedOut, SetupRequired, Exists, ActiveAdmins
<1>2. AccountsInv /\ [Next]_vars => [LockedOut => LockedOut']_vars
  BY <1>1
<1> QED
  BY <1>2, AccountsHold, PTL DEF Spec, LockoutIsFinal

(* The last administrator is lost only to a request that had seen others.  *)
THEOREM LastAdminHolds == Spec => LastAdminLostOnlyToARace
<1> DEFINE Raced == ActiveAdmins # {} /\ ActiveAdmins' = {} =>
              \E r \in Requests : /\ req[r].step = "read" /\ req'[r] = Idle
                                  /\ req[r].seen # ActiveAdmins
<1>1. ASSUME AccountsInv, [Next]_vars, ActiveAdmins # {}, ActiveAdmins' = {}
      PROVE  \E r \in Requests : /\ req[r].step = "read" /\ req'[r] = Idle
                                 /\ req[r].seen # ActiveAdmins
  <2>1. ASSUME NEW r \in Requests, SetupCommit(r)
        PROVE  FALSE
    <3>1. req[r].user \in Users
      BY <1>1, <2>1, RequestTypes DEF AccountsInv, SetupCommit
    <3>2. req[r].user \in ActiveAdmins'
      BY <1>1, <2>1, <3>1 DEF AccountsInv, TypeOK, SetupCommit, Store, ActiveAdmins
    <3> QED
      BY <1>1, <3>2
  <2>2. ASSUME NEW r \in Requests, CreateCommit(r)
        PROVE  FALSE
    <3>1. PICK a \in ActiveAdmins : TRUE
      BY <1>1
    <3>2. a \in ActiveAdmins'
      BY <1>1, <2>2, <3>1
         DEF AccountsInv, TypeOK, CreateCommit, Store, ActiveAdmins, Exists
    <3> QED
      BY <1>1, <3>2
  <2>3. PICK r \in Requests : UpdateCommit(r)
    BY <1>1, <2>1, <2>2, AccountSteps DEF ActiveAdmins
  <2>4. req[r].step = "read" /\ req'[r] = Idle /\ req[r].op.kind # "create"
    BY <1>1, <2>3, Finished DEF UpdateCommit, AccountsInv
  <2>5. ASSUME req[r].seen = ActiveAdmins
        PROVE  FALSE
    <3> DEFINE u == req[r].op.user
    <3>1. ActiveAdmins \subseteq {u}
      BY <1>1, <2>3, UpdateWrites DEF AccountsInv, ActiveAdmins
    <3>2. ActiveAdmins = {u} /\ u \in Users
      BY <1>1, <3>1 DEF ActiveAdmins
    <3>3. Cardinality(ActiveAdmins) = 1
      BY <3>2, FS_Singleton
    <3>4. ~Deactivates(req[r].op) /\ req[r].op.set.role # "user"
      <4>1. Cardinality(req[r].seen) <= 1
        BY <2>5, <3>3
      <4>2. req[r].op.user \in req[r].seen
        BY <2>5, <3>2
      <4> QED
        BY <1>1, <2>4, <4>1, <4>2 DEF AccountsInv, OthersWereSeen
    <3>5. req[r].op.set \in Change
      BY <1>1, <2>3, UpdateWrites, OpSetsAreChanges DEF AccountsInv
    <3>6. /\ req[r].op.set["status"] \in {"active", "keep"}
          /\ req[r].op.set["role"] \in {"admin", "keep"}
      BY <2>4, <3>4, <3>5 DEF Deactivates, Change, Statuses, Roles
    <3>7. account[u].status = "active" /\ account[u].role = "admin"
      BY <3>2 DEF ActiveAdmins
    <3>8. /\ account'[u]["status"] \in {"active", req[r].op.set["status"]}
          /\ account'[u]["role"] \in {"admin", req[r].op.set["role"]}
      BY <1>1, <2>3, <3>7, UpdateWrites DEF AccountsInv, Columns
    <3>9. /\ account'[u]["status"] # "keep"
          /\ account'[u]["role"] # "keep"
      BY <1>1, <3>2, NextTypes DEF AccountsInv, TypeOK, Account, Statuses, Roles
    <3>10. u \in ActiveAdmins'
      BY <3>2, <3>6, <3>8, <3>9 DEF ActiveAdmins
    <3> QED
      BY <1>1, <3>10
  <2> QED
    BY <2>4, <2>5
<1>2. AccountsInv /\ [Next]_vars => [Raced]_vars
  BY <1>1
<1> QED
  BY <1>2, AccountsHold, PTL DEF Spec, LastAdminLostOnlyToARace
=============================================================================
