----------------------------- MODULE RateLimit -----------------------------
(***************************************************************************)
(* The sliding-window rate limiter (app/core/rate_limit.py): one bucket,   *)
(* the Redis sorted set of one authenticated name.                         *)
(*                                                                         *)
(* enforce_rate_limit runs in the thread pool of any API process.  A       *)
(* request reads the clock, removes and counts in one Redis transaction,   *)
(* then records itself in another one: others come between these steps.    *)
(* Time is in ticks, Second of them to a second, so that the rounding of   *)
(* Retry-After to whole seconds shows.                                     *)
(***************************************************************************)
EXTENDS Naturals, Integers, FiniteSets

CONSTANTS
  Requests,   \* concurrent requests of one client
  Limit,      \* RATE_LIMIT_PER_MINUTE
  WindowS,    \* RATE_LIMIT_WINDOW_SECONDS
  Second,     \* ticks in a second
  MaxDelay,   \* ticks a request may take from reading the clock to its record
  MaxTime     \* bound: the clock stops there

ASSUME RateLimitAssumption ==
  /\ IsFiniteSet(Requests)
  /\ Limit \in Nat \ {0} /\ WindowS \in Nat \ {0} /\ Second \in Nat \ {0}
  /\ MaxDelay \in Nat /\ MaxTime \in Nat

VARIABLES
  now,       \* the clock, shared by the API and Redis
  hits,      \* the members of the sorted set
  expires,   \* when Redis drops the key
  req,       \* the requests in progress
  admitted   \* history: every member ever added

vars == <<now, hits, expires, req, admitted>>

Window == WindowS * Second
Times == 0 .. MaxTime

(* A score, and the token that tells the members of one score apart.       *)
Member == [at : Times, token : Nat \ {0}]

Idle == [step |-> "idle"]
TypeOK ==
  /\ now \in Times
  /\ hits \subseteq admitted
  /\ expires \in Nat
  /\ req \in [Requests -> {Idle} \cup [step : {"called", "counted", "full"},
                                       at : Times]
                          \cup [step : {"refused"}, at : Times, retry : Nat]]
  /\ admitted \subseteq Member /\ IsFiniteSet(admitted)

Since(members, from) == {m \in members : m.at > from}

(* The first of the sorted set.                                            *)
Oldest == CHOOSE m \in hits : \A other \in hits : m.at <= other.at

MutantRetryAfter(at) ==
  IF hits = {} THEN WindowS
  ELSE LET wait == (Oldest.at + Window - at) \div Second IN
       IF wait < 1 THEN 1 ELSE wait

(* Rounded down, then one second more, and at least one.  The set may be   *)
(* empty by now.                                                           *)
RetryAfter(at) ==
  IF hits = {} THEN WindowS
  ELSE LET wait == (Oldest.at + Window - at) \div Second + 1 IN
       IF wait < 1 THEN 1 ELSE wait

----------------------------------------------------------------------------
Init ==
  /\ now = 0
  /\ hits = {}
  /\ expires = 0
  /\ req = [r \in Requests |-> Idle]
  /\ admitted = {}

(* time.time().                                                            *)
Call(r) ==
  /\ req[r] = Idle
  /\ req' = [req EXCEPT ![r] = [step |-> "called", at |-> now]]
  /\ UNCHANGED <<now, hits, expires, admitted>>

MutantCount(r) ==
  /\ req[r].step = "called"
  /\ hits' = Since(hits, req[r].at - Window)
  /\ req' = [req EXCEPT ![r].step =
               IF Cardinality(hits') > Limit THEN "full" ELSE "counted"]
  /\ UNCHANGED <<now, expires, admitted>>

(* ZREMRANGEBYSCORE and ZCARD, with the cutoff of the clock read before.   *)
Count(r) ==
  /\ req[r].step = "called"
  /\ hits' = Since(hits, req[r].at - Window)
  /\ req' = [req EXCEPT ![r].step =
               IF Cardinality(hits') >= Limit THEN "full" ELSE "counted"]
  /\ UNCHANGED <<now, expires, admitted>>

(* ZRANGE and the answer.                                                  *)
Refuse(r) ==
  /\ req[r].step = "full"
  /\ req' = [req EXCEPT ![r] = [step |-> "refused", at |-> req[r].at,
                                retry |-> RetryAfter(req[r].at)]]
  /\ UNCHANGED <<now, hits, expires, admitted>>

Fresh(t) == [at |-> t, token |-> Cardinality({m \in admitted : m.at = t}) + 1]

MutantRecord(r) ==
  /\ req[r].step = "counted"
  /\ hits' = hits \cup {Fresh(req[r].at)}
  /\ expires' = IF hits = {} THEN now + Window ELSE expires
  /\ admitted' = admitted \cup {Fresh(req[r].at)}
  /\ req' = [req EXCEPT ![r] = Idle]
  /\ UNCHANGED now

(* ZADD and EXPIRE.                                                        *)
Record(r) ==
  /\ req[r].step = "counted"
  /\ hits' = hits \cup {Fresh(req[r].at)}
  /\ expires' = now + Window
  /\ admitted' = admitted \cup {Fresh(req[r].at)}
  /\ req' = [req EXCEPT ![r] = Idle]
  /\ UNCHANGED now

(* The refused client has its answer, or a request dies with its process.  *)
Leave(r) ==
  /\ req[r] # Idle
  /\ req' = [req EXCEPT ![r] = Idle]
  /\ UNCHANGED <<now, hits, expires, admitted>>

(* The clock, and the expiry of the key.  Nothing in the code bounds how   *)
(* long a request may be stalled: MaxDelay is an assumption.               *)
Tick ==
  /\ now < MaxTime
  /\ \A r \in Requests :
       req[r].step \in {"called", "counted"} => now < req[r].at + MaxDelay
  /\ now' = now + 1
  /\ hits' = IF now + 1 >= expires THEN {} ELSE hits
  /\ UNCHANGED <<expires, req, admitted>>

Next ==
  \/ \E r \in Requests :
       Call(r) \/ Count(r) \/ Refuse(r) \/ Record(r) \/ Leave(r)
  \/ Tick

Spec == Init /\ [][Next]_vars

----------------------------------------------------------------------------
(* In any window, as many requests as the limit allows, and one more at    *)
(* most for each other request in progress: the count and the record of    *)
(* _check_and_record are not atomic.  The window is shorter by MaxDelay:   *)
(* the clock of a stalled request is behind the one of the request, or of  *)
(* the expiry, that has removed old members before it counts.              *)
AdmittedInAnyWindow ==
  \A t \in Times :
    Cardinality({m \in admitted : t - Window + MaxDelay < m.at /\ m.at <= t})
      <= Limit + Cardinality(Requests) - 1

(* A client that waits as long as Retry-After says finds the bucket with a *)
(* place free if nobody else has called: the member that blocked it has    *)
(* left the window.  Only a bucket that a race has overfilled may still be *)
(* full, with fewer members.                                               *)
ComesBack(refusal) == refusal.at + refusal.retry * Second
RetryAfterFreesAPlace ==
  [][\A r \in Requests :
       req[r].step # "refused" /\ req'[r].step = "refused" =>
         Cardinality(Since(hits, ComesBack(req'[r]) - Window))
           < IF Cardinality(hits) > Limit THEN Cardinality(hits) ELSE Limit]_vars
=============================================================================
