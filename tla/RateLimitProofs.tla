-------------------------- MODULE RateLimitProofs --------------------------
(***************************************************************************)
(* Proofs about RateLimit: its types, how many requests are admitted in a  *)
(* window, and that waiting for Retry-After frees a place.                 *)
(***************************************************************************)
EXTENDS RateLimit, FiniteSetTheorems, WellFoundedInduction, TLAPS

(* The requests counted and not yet recorded, with a clock in a window.    *)
Admitted(t) == {m \in admitted : t - Window + MaxDelay < m.at /\ m.at <= t}
Counted(t) == {r \in Requests : /\ req[r].step = "counted"
                                /\ t - Window + MaxDelay < req[r].at
                                /\ req[r].at <= t}

ClocksAreBehind ==
  /\ \A m \in admitted : m.at <= now
  /\ \A r \in Requests : req[r] # Idle => req[r].at <= now
  /\ \A r \in Requests :
       req[r].step \in {"called", "counted"} => now <= req[r].at + MaxDelay

(* Tokens number the members of one score.                                 *)
TokensNumber ==
  \A m \in admitted : m.token <= Cardinality({x \in admitted : x.at = m.at})

(* A member leaves the set when it has left the window.                    *)
LeftWhenOld ==
  /\ \A m \in admitted \ hits : m.at + Window <= now
  /\ \A m \in hits : m.at + Window <= expires

(* The limit, and one for each other request.                              *)
Budget ==
  \A t \in Times :
    Cardinality(Admitted(t)) + Cardinality(Counted(t))
      <= Limit + Cardinality(Requests) - 1

Inv ==
  /\ TypeOK
  /\ ClocksAreBehind
  /\ TokensNumber
  /\ LeftWhenOld
  /\ Budget

----------------------------------------------------------------------------
LEMMA WindowType == Window \in Nat
BY RateLimitAssumption DEF Window

(* A set of members that is not empty has a first one.                     *)
LEMMA FirstExists ==
  ASSUME NEW S \in SUBSET Member, S # {}
  PROVE  \E m \in S : \A other \in S : m.at <= other.at
<1> DEFINE T == {m.at : m \in S}
<1>1. \A m \in S : m.at \in Nat
  BY DEF Member, Times
<1>2. T \subseteq Nat /\ T # {}
  BY <1>1
<1> HIDE DEF T
<1>3. PICK x \in T : \A y \in T : <<y, x>> \notin OpToRel(<, Nat)
  BY <1>2, NatLessThanWellFounded, WFMin, Zenon
<1>4. \A y \in T : ~ (y < x)
  BY <1>2, <1>3 DEF OpToRel
<1>5. PICK m \in S : m.at = x
  BY DEF T
<1>6. ASSUME NEW other \in S
      PROVE  m.at <= other.at
  <2>1. other.at \in T
    BY DEF T
  <2> QED
    BY <1>1, <1>4, <1>5, <2>1
<1> QED
  BY <1>6

LEMMA OldestIsFirst ==
  ASSUME TypeOK, hits # {}
  PROVE  Oldest \in hits /\ \A m \in hits : Oldest.at <= m.at
<1>1. hits \in SUBSET Member
  BY DEF TypeOK
<1> QED
  BY <1>1, FirstExists DEF Oldest

(* What the recorded and the waiting requests hold.                        *)
LEMMA ClockTypes ==
  ASSUME TypeOK
  PROVE  /\ now \in Nat
         /\ \A m \in admitted : m.at \in Nat /\ m.at \in Times
         /\ \A r \in Requests : req[r] # Idle => req[r].at \in Nat /\ req[r].at \in Times
         /\ \A r \in Requests :
              req[r].step \in {"called", "counted", "full", "refused"} => req[r] # Idle
BY DEF TypeOK, Member, Times, Idle

LEMMA FiniteSets ==
  ASSUME TypeOK, NEW S, S \subseteq admitted \/ S \subseteq hits \/ S \subseteq Requests
  PROVE  IsFiniteSet(S) /\ Cardinality(S) \in Nat
BY FS_Subset, FS_CardinalityType, RateLimitAssumption DEF TypeOK

LEMMA FreshType ==
  ASSUME TypeOK, NEW t \in Times
  PROVE  Fresh(t) \in Member
<1> DEFINE S == {m \in admitted : m.at = t}
<1>1. Cardinality(S) \in Nat
  BY FiniteSets
<1> HIDE DEF S
<1>2. Cardinality(S) + 1 \in Nat \ {0}
  BY <1>1
<1>3. [at |-> t, token |-> Cardinality(S) + 1] \in Member
  BY <1>2 DEF Member
<1> QED
  BY <1>3 DEF Fresh, S

(* The token is one that no other member of the score has.                 *)
LEMMA FreshIsNew ==
  ASSUME TypeOK, TokensNumber, NEW t \in Times
  PROVE  Fresh(t) \notin admitted /\ Fresh(t).at = t
<1> DEFINE S == {m \in admitted : m.at = t}
<1>1. Cardinality(S) \in Nat
  BY FiniteSets
<1>2. Fresh(t).at = t /\ Fresh(t).token = Cardinality(S) + 1
  BY DEF Fresh
<1>3. ASSUME Fresh(t) \in admitted
      PROVE  FALSE
  <2>1. Fresh(t).token <= Cardinality({x \in admitted : x.at = Fresh(t).at})
    BY <1>3 DEF TokensNumber
  <2>2. Cardinality(S) + 1 <= Cardinality(S)
    BY <1>2, <2>1
  <2> HIDE DEF S
  <2> QED
    BY <1>1, <2>2
<1> QED
  BY <1>2, <1>3

LEMMA RetryType ==
  ASSUME TypeOK, NEW at \in Nat
  PROVE  RetryAfter(at) \in Nat
<1>1. CASE hits = {}
  BY <1>1, RateLimitAssumption DEF RetryAfter
<1>2. CASE hits # {}
  <2>1. Oldest.at \in Nat
    BY <1>2, OldestIsFirst, ClockTypes DEF TypeOK
  <2>2. (Oldest.at + Window - at) \div Second \in Int
    BY <2>1, WindowType, RateLimitAssumption
  <2> QED
    BY <1>2, <2>2 DEF RetryAfter
<1> QED
  BY <1>1, <1>2

----------------------------------------------------------------------------
(* Types.                                                                  *)

LEMMA InitTypes == Init => TypeOK
BY FS_EmptySet, RateLimitAssumption DEF Init, TypeOK, Times

LEMMA NextTypes == TypeOK /\ [Next]_vars => TypeOK'
<1> SUFFICES ASSUME TypeOK, [Next]_vars
             PROVE  TypeOK'
  OBVIOUS
<1> DEFINE State == {Idle} \cup [step : {"called", "counted", "full"}, at : Times]
                           \cup [step : {"refused"}, at : Times, retry : Nat]
<1>1. ASSUME NEW r \in Requests, Call(r)
      PROVE  TypeOK'
  BY <1>1 DEF Call, TypeOK
<1>2. ASSUME NEW r \in Requests, Count(r)
      PROVE  TypeOK'
  <2>1. req[r] \in [step : {"called", "counted", "full"}, at : Times]
    BY <1>2 DEF Count, TypeOK, Idle
  <2>2. \A x \in {"counted", "full"} : [req[r] EXCEPT !.step = x] \in State
    BY <2>1
  <2>3. req' \in [Requests -> State]
    BY <1>2, <2>2 DEF Count, TypeOK
  <2> QED
    BY <1>2, <2>3 DEF Count, TypeOK, Since
<1>3. ASSUME NEW r \in Requests, Refuse(r)
      PROVE  TypeOK'
  <2>1. req[r].at \in Times /\ req[r].at \in Nat
    BY <1>3, ClockTypes DEF Refuse
  <2>2. RetryAfter(req[r].at) \in Nat
    BY <2>1, RetryType
  <2> QED
    BY <1>3, <2>1, <2>2 DEF Refuse, TypeOK
<1>4. ASSUME NEW r \in Requests, Record(r)
      PROVE  TypeOK'
  <2>1. req[r].at \in Times
    BY <1>4, ClockTypes DEF Record
  <2>2. Fresh(req[r].at) \in Member
    BY <2>1, FreshType
  <2>3. IsFiniteSet(admitted \cup {Fresh(req[r].at)})
    BY FS_AddElement DEF TypeOK
  <2>4. now + Window \in Nat
    BY WindowType, ClockTypes
  <2> QED
    BY <1>4, <2>2, <2>3, <2>4 DEF Record, TypeOK
<1>5. ASSUME NEW r \in Requests, Leave(r)
      PROVE  TypeOK'
  BY <1>5 DEF Leave, TypeOK
<1>6. ASSUME Tick
      PROVE  TypeOK'
  <2>1. now + 1 \in Times
    BY <1>6, RateLimitAssumption DEF Tick, TypeOK, Times
  <2> QED
    BY <1>6, <2>1 DEF Tick, TypeOK
<1>7. CASE UNCHANGED vars
  BY <1>7 DEF vars, TypeOK
<1> QED
  BY <1>1, <1>2, <1>3, <1>4, <1>5, <1>6, <1>7 DEF Next

----------------------------------------------------------------------------
(* Clocks, tokens, and what has left the set.                              *)

LEMMA InitInv == Init => Inv
<1> SUFFICES ASSUME Init
             PROVE  Inv
  OBVIOUS
<1>1. TypeOK
  BY InitTypes
<1>2. ClocksAreBehind /\ TokensNumber /\ LeftWhenOld
  BY DEF Init, ClocksAreBehind, TokensNumber, LeftWhenOld, Idle
<1>3. ASSUME NEW t \in Times
      PROVE  Cardinality(Admitted(t)) = 0 /\ Cardinality(Counted(t)) = 0
  <2>1. Admitted(t) = {} /\ Counted(t) = {}
    BY DEF Init, Admitted, Counted, Idle
  <2> QED
    BY <2>1, FS_EmptySet
<1>4. Cardinality(Requests) \in Nat
  BY RateLimitAssumption, FS_CardinalityType
<1>5. Budget
  BY <1>3, <1>4, RateLimitAssumption DEF Budget
<1> QED
  BY <1>1, <1>2, <1>5 DEF Inv

LEMMA ClocksStay ==
  ASSUME TypeOK, ClocksAreBehind, Next
  PROVE  ClocksAreBehind'
<1> USE DEF ClocksAreBehind
<1>1. ASSUME NEW r \in Requests, Call(r)
      PROVE  ClocksAreBehind'
  <2>1. now <= now /\ now <= now + MaxDelay
    BY ClockTypes, RateLimitAssumption
  <2>2. \A q \in Requests :
          req'[q] = IF q = r THEN [step |-> "called", at |-> now] ELSE req[q]
    BY <1>1 DEF Call, TypeOK
  <2>3. UNCHANGED <<now, admitted>>
    BY <1>1 DEF Call
  <2> QED
    BY <2>1, <2>2, <2>3
<1>2. ASSUME NEW r \in Requests, Count(r)
      PROVE  ClocksAreBehind'
  <2>1. /\ req'[r].at = req[r].at /\ req[r].step = "called" /\ req[r] # Idle
        /\ \A q \in Requests : q # r => req'[q] = req[q]
    <3>1. req[r] \in [step : {"called", "counted", "full"}, at : Times]
      BY <1>2 DEF Count, TypeOK, Idle
    <3> QED
      BY <1>2, <3>1 DEF Count, TypeOK, Idle
  <2>2. UNCHANGED <<now, admitted>>
    BY <1>2 DEF Count
  <2> QED
    BY <2>1, <2>2
<1>3. ASSUME NEW r \in Requests, Refuse(r)
      PROVE  ClocksAreBehind'
  <2>1. /\ req'[r].at = req[r].at /\ req'[r].step = "refused" /\ req[r] # Idle
        /\ \A q \in Requests : q # r => req'[q] = req[q]
    BY <1>3, ClockTypes DEF Refuse, TypeOK
  <2>2. UNCHANGED <<now, admitted>>
    BY <1>3 DEF Refuse
  <2> QED
    BY <2>1, <2>2
<1>4. ASSUME NEW r \in Requests, Record(r)
      PROVE  ClocksAreBehind'
  <2>1. req[r].at <= now /\ Fresh(req[r].at).at = req[r].at
    BY <1>4, ClockTypes DEF Record, Fresh
  <2>2. \A q \in Requests : req'[q] = IF q = r THEN Idle ELSE req[q]
    BY <1>4 DEF Record, TypeOK
  <2>3. now' = now /\ admitted' = admitted \cup {Fresh(req[r].at)}
    BY <1>4 DEF Record
  <2> QED
    BY <2>1, <2>2, <2>3 DEF Idle
<1>5. ASSUME NEW r \in Requests, Leave(r)
      PROVE  ClocksAreBehind'
  <2>1. \A q \in Requests : req'[q] = IF q = r THEN Idle ELSE req[q]
    BY <1>5 DEF Leave, TypeOK
  <2>2. UNCHANGED <<now, admitted>>
    BY <1>5 DEF Leave
  <2> QED
    BY <2>1, <2>2 DEF Idle
<1>6. ASSUME Tick
      PROVE  ClocksAreBehind'
  <2>1. /\ now' = now + 1 /\ UNCHANGED <<req, admitted>>
        /\ \A r \in Requests :
             req[r].step \in {"called", "counted"} => now < req[r].at + MaxDelay
    BY <1>6 DEF Tick
  <2>2. \A r \in Requests :
          req[r].step \in {"called", "counted"} => now + 1 <= req[r].at + MaxDelay
    BY <2>1, ClockTypes, RateLimitAssumption
  <2> QED
    BY <2>1, <2>2, ClockTypes
<1> QED
  BY <1>1, <1>2, <1>3, <1>4, <1>5, <1>6 DEF Next

LEMMA TokensStay ==
  ASSUME TypeOK, TypeOK', TokensNumber, Next
  PROVE  TokensNumber'
<1>1. ASSUME NEW r \in Requests, Record(r)
      PROVE  TokensNumber'
  <2> DEFINE f == Fresh(req[r].at)
             Same(t) == {x \in admitted : x.at = t}
  <2>1. req[r].at \in Times /\ admitted' = admitted \cup {f}
    BY <1>1, ClockTypes DEF Record
  <2>2. f.at = req[r].at /\ f.token = Cardinality(Same(req[r].at)) + 1 /\ f \notin admitted
    BY <2>1, FreshIsNew DEF Fresh
  <2> HIDE DEF f
  <2>3. ASSUME NEW m \in admitted'
        PROVE  m.token <= Cardinality({x \in admitted' : x.at = m.at})
    <3>1. IsFiniteSet(Same(m.at)) /\ Cardinality(Same(m.at)) \in Nat
      BY FiniteSets
    <3>2. CASE m.at = f.at
      <4>1. {x \in admitted' : x.at = m.at} = Same(m.at) \cup {f}
        BY <2>1, <3>2
      <4>2. f \notin Same(m.at)
        BY <2>2
      <4>3. Cardinality(Same(m.at) \cup {f}) = Cardinality(Same(m.at)) + 1
        BY <3>1, <4>2, FS_AddElement
      <4>4. Cardinality({x \in admitted' : x.at = m.at}) = Cardinality(Same(m.at)) + 1
        BY <4>1, <4>3
      <4>5. m.token <= Cardinality(Same(m.at)) + 1
        <5>1. CASE m = f
          <6>1. m.token = Cardinality(Same(m.at)) + 1
            BY <2>2, <5>1
          <6> HIDE DEF Same
          <6> QED
            BY <3>1, <6>1
        <5>2. CASE m \in admitted
          <6>1. m.token <= Cardinality(Same(m.at)) /\ m.token \in Nat
            BY <5>2 DEF TokensNumber, TypeOK, Member
          <6> HIDE DEF Same
          <6> QED
            BY <3>1, <6>1
        <5> QED
          BY <2>1, <5>1, <5>2
      <4> HIDE DEF Same
      <4> QED
        BY <4>4, <4>5
    <3>3. CASE m.at # f.at
      <4>1. m \in admitted /\ {x \in admitted' : x.at = m.at} = Same(m.at)
        BY <2>1, <3>3
      <4> QED
        BY <4>1 DEF TokensNumber
    <3> QED
      BY <3>2, <3>3
  <2> QED
    BY <2>3 DEF TokensNumber
<1>2. CASE UNCHANGED admitted
  BY <1>2 DEF TokensNumber
<1> QED
  BY <1>1, <1>2 DEF Next, Call, Count, Refuse, Leave, Tick

LEMMA LeftStays ==
  ASSUME TypeOK, ClocksAreBehind, TokensNumber, LeftWhenOld, Next
  PROVE  LeftWhenOld'
<1> USE DEF LeftWhenOld
<1>1. /\ now \in Nat /\ Window \in Nat /\ expires \in Nat
      /\ \A m \in admitted : m.at \in Nat
      /\ hits \subseteq admitted
  BY ClockTypes, WindowType DEF TypeOK
<1>2. ASSUME NEW r \in Requests, Count(r)
      PROVE  LeftWhenOld'
  <2>1. /\ req[r].at \in Nat /\ req[r].at <= now
        /\ hits' = {m \in hits : m.at > req[r].at - Window}
        /\ UNCHANGED <<now, expires, admitted>>
    BY <1>2, ClockTypes DEF Count, Since, ClocksAreBehind
  <2>2. ASSUME NEW m \in admitted, m \notin hits'
        PROVE  m.at + Window <= now
    <3>1. CASE m \notin hits
      BY <3>1
    <3>2. CASE m \in hits
      <4>1. ~ (m.at > req[r].at - Window)
        BY <2>1, <2>2, <3>2
      <4> QED
        BY <1>1, <2>1, <4>1
    <3> QED
      BY <3>1, <3>2
  <2>3. \A m \in hits' : m \in hits
    BY <2>1
  <2> QED
    BY <2>1, <2>2, <2>3
<1>3. ASSUME NEW r \in Requests, Record(r)
      PROVE  LeftWhenOld'
  <2> DEFINE f == Fresh(req[r].at)
  <2>1. /\ req[r].at \in Times /\ req[r].at \in Nat /\ req[r].at <= now
        /\ hits' = hits \cup {f} /\ admitted' = admitted \cup {f}
        /\ now' = now /\ expires' = now + Window
    BY <1>3, ClockTypes DEF Record, ClocksAreBehind
  <2>2. f.at = req[r].at
    BY <2>1, FreshIsNew
  <2> HIDE DEF f
  <2>3. ASSUME NEW m \in hits'
        PROVE  m.at + Window <= expires'
    <3>1. m.at <= now /\ m.at \in Nat
      BY <1>1, <2>1, <2>2 DEF ClocksAreBehind
    <3> QED
      BY <1>1, <2>1, <3>1
  <2>4. \A m \in admitted' \ hits' : m \in admitted \ hits
    BY <2>1
  <2> QED
    BY <2>1, <2>3, <2>4
<1>4. ASSUME Tick
      PROVE  LeftWhenOld'
  <2>1. /\ now' = now + 1 /\ hits' = IF now + 1 >= expires THEN {} ELSE hits
        /\ UNCHANGED <<expires, admitted>>
    BY <1>4 DEF Tick
  <2>2. ASSUME NEW m \in admitted, m \notin hits'
        PROVE  m.at + Window <= now + 1
    <3>1. CASE m \notin hits
      BY <1>1, <3>1
    <3>2. CASE m \in hits
      <4>1. now + 1 >= expires /\ m.at + Window <= expires
        BY <2>1, <2>2, <3>2
      <4> QED
        BY <1>1, <4>1
    <3> QED
      BY <3>1, <3>2
  <2>3. \A m \in hits' : m \in hits
    BY <2>1
  <2> QED
    BY <2>1, <2>2, <2>3
<1>5. CASE UNCHANGED <<now, hits, expires, admitted>>
  BY <1>5
<1> QED
  BY <1>2, <1>3, <1>4, <1>5 DEF Next, Call, Refuse, Leave

----------------------------------------------------------------------------
(* The budget.                                                             *)

LEMMA WindowCounts ==
  ASSUME TypeOK, NEW t \in Times
  PROVE  /\ IsFiniteSet(Admitted(t)) /\ Cardinality(Admitted(t)) \in Nat
         /\ IsFiniteSet(Counted(t)) /\ Cardinality(Counted(t)) \in Nat
         /\ Cardinality(Counted(t)) <= Cardinality(Requests)
         /\ Cardinality(Requests) \in Nat
<1>1. Admitted(t) \subseteq admitted /\ Counted(t) \subseteq Requests
  BY DEF Admitted, Counted
<1> QED
  BY <1>1, FiniteSets, FS_Subset, RateLimitAssumption

(* A request that finds room has counted every member that could share a   *)
(* window with it.                                                         *)
LEMMA CountSeesTheWindow ==
  ASSUME TypeOK, ClocksAreBehind, LeftWhenOld, NEW r \in Requests, Count(r),
         NEW t \in Times, t - Window + MaxDelay < req[r].at, req[r].at <= t
  PROVE  Admitted(t) \subseteq hits'
<1>1. /\ now \in Nat /\ Window \in Nat /\ MaxDelay \in Nat /\ t \in Nat
      /\ req[r].at \in Nat /\ now <= req[r].at + MaxDelay
      /\ hits' = {m \in hits : m.at > req[r].at - Window}
  BY ClockTypes, WindowType, RateLimitAssumption
     DEF Count, Since, Times, ClocksAreBehind
<1>2. ASSUME NEW m \in Admitted(t)
      PROVE  m \in hits'
  <2>1. /\ m \in admitted /\ m.at \in Nat
        /\ t - Window + MaxDelay < m.at
    BY <1>2, ClockTypes DEF Admitted
  <2>2. ASSUME m \notin hits
        PROVE  FALSE
    <3>1. m.at + Window <= now
      BY <2>1, <2>2 DEF LeftWhenOld
    <3> QED
      BY <1>1, <2>1, <3>1
  <2>3. m.at > req[r].at - Window
    BY <1>1, <2>1
  <2> QED
    BY <1>1, <2>2, <2>3
<1> QED
  BY <1>2

(* Without a new member and a new count, the budget holds on.              *)
LEMMA FewerKeepBudget ==
  ASSUME TypeOK, TypeOK', Budget, admitted' = admitted, NEW t \in Times,
         Counted(t)' \subseteq Counted(t)
  PROVE  Cardinality(Admitted(t)') + Cardinality(Counted(t)')
           <= Limit + Cardinality(Requests) - 1
<1>1. Admitted(t)' = Admitted(t)
  BY DEF Admitted
<1>2. Cardinality(Counted(t)') <= Cardinality(Counted(t))
  BY WindowCounts, FS_Subset
<1>3. Cardinality(Counted(t)') \in Nat
  BY WindowCounts, FS_Subset, FS_CardinalityType
<1>4. Cardinality(Admitted(t)) + Cardinality(Counted(t))
        <= Limit + Cardinality(Requests) - 1
  BY DEF Budget
<1> QED
  BY <1>1, <1>2, <1>3, <1>4, WindowCounts, RateLimitAssumption

LEMMA CountKeepsBudget ==
  ASSUME TypeOK, TypeOK', ClocksAreBehind, LeftWhenOld, Budget,
         NEW r \in Requests, Count(r), NEW t \in Times
  PROVE  Cardinality(Admitted(t)') + Cardinality(Counted(t)')
           <= Limit + Cardinality(Requests) - 1
<1>1. /\ req[r].step = "called" /\ admitted' = admitted
      /\ req'[r].at = req[r].at
      /\ req'[r].step = IF Cardinality(hits') >= Limit THEN "full" ELSE "counted"
      /\ \A q \in Requests : q # r => req'[q] = req[q]
  <2>1. req[r] \in [step : {"called", "counted", "full"}, at : Times]
    BY DEF Count, TypeOK, Idle
  <2> QED
    BY <2>1 DEF Count, TypeOK
<1>2. CASE r \in Counted(t)'
  <2>1. /\ Cardinality(hits') < Limit
        /\ t - Window + MaxDelay < req[r].at /\ req[r].at <= t
    <3>1. Cardinality(hits') \in Nat
      BY FS_Subset, FS_CardinalityType DEF TypeOK
    <3>2. ~ (Cardinality(hits') >= Limit)
      BY <1>1, <1>2 DEF Counted
    <3> QED
      BY <1>1, <1>2, <3>1, <3>2, RateLimitAssumption DEF Counted
  <2>2. Admitted(t) \subseteq hits' /\ Admitted(t)' = Admitted(t)
    BY <1>1, <2>1, CountSeesTheWindow DEF Admitted
  <2>3. /\ IsFiniteSet(hits') /\ Cardinality(hits') \in Nat
        /\ Cardinality(Admitted(t)) <= Cardinality(hits')
    BY <2>2, FS_Subset, FS_CardinalityType DEF TypeOK
  <2>4. /\ Counted(t)' \subseteq Requests
        /\ Cardinality(Counted(t)') <= Cardinality(Requests)
        /\ Cardinality(Counted(t)') \in Nat
    BY FS_Subset, FS_CardinalityType, RateLimitAssumption DEF Counted
  <2> QED
    BY <2>1, <2>2, <2>3, <2>4, WindowCounts, RateLimitAssumption
<1>3. CASE r \notin Counted(t)'
  <2>1. Counted(t)' \subseteq Counted(t)
    BY <1>1, <1>3 DEF Counted
  <2> QED
    BY <1>1, <2>1, FewerKeepBudget
<1> QED
  BY <1>2, <1>3

LEMMA RecordKeepsBudget ==
  ASSUME TypeOK, TypeOK', TokensNumber, Budget,
         NEW r \in Requests, Record(r), NEW t \in Times
  PROVE  Cardinality(Admitted(t)') + Cardinality(Counted(t)')
           <= Limit + Cardinality(Requests) - 1
<1> DEFINE f == Fresh(req[r].at)
<1>1. /\ req[r].step = "counted" /\ req[r].at \in Times
      /\ admitted' = admitted \cup {f}
      /\ \A q \in Requests : req'[q] = IF q = r THEN Idle ELSE req[q]
  BY ClockTypes DEF Record, TypeOK
<1>2. f \notin admitted /\ f.at = req[r].at
  BY <1>1, FreshIsNew
<1> HIDE DEF f
<1>3. Counted(t)' = Counted(t) \ {r}
  BY <1>1 DEF Counted, Idle
<1>4. Cardinality(Admitted(t)) + Cardinality(Counted(t))
        <= Limit + Cardinality(Requests) - 1
  BY DEF Budget
<1>5. CASE r \in Counted(t)
  <2>1. Admitted(t)' = Admitted(t) \cup {f} /\ f \notin Admitted(t)
    BY <1>1, <1>2, <1>5 DEF Admitted, Counted
  <2>2. Cardinality(Admitted(t)') = Cardinality(Admitted(t)) + 1
    BY <2>1, WindowCounts, FS_AddElement
  <2>3. Cardinality(Counted(t)') = Cardinality(Counted(t)) - 1
    BY <1>3, <1>5, WindowCounts, FS_RemoveElement
  <2> QED
    BY <1>4, <2>2, <2>3, WindowCounts
<1>6. CASE r \notin Counted(t)
  <2>1. Admitted(t)' = Admitted(t) /\ Counted(t)' = Counted(t)
    BY <1>1, <1>2, <1>3, <1>6 DEF Admitted, Counted
  <2> QED
    BY <1>4, <2>1
<1> QED
  BY <1>5, <1>6

LEMMA BudgetStays ==
  ASSUME Inv, TypeOK', Next
  PROVE  Budget'
<1> SUFFICES ASSUME NEW t \in Times
             PROVE  Cardinality(Admitted(t)') + Cardinality(Counted(t)')
                      <= Limit + Cardinality(Requests) - 1
  BY DEF Budget
<1>1. ASSUME NEW r \in Requests, Call(r) \/ Refuse(r) \/ Leave(r)
      PROVE  admitted' = admitted /\ Counted(t)' \subseteq Counted(t)
  <2>1. /\ admitted' = admitted /\ req'[r].step # "counted"
        /\ \A q \in Requests : q # r => req'[q] = req[q]
    BY <1>1 DEF Call, Refuse, Leave, Inv, TypeOK, Idle
  <2> QED
    BY <2>1 DEF Counted
<1>2. ASSUME Tick
      PROVE  admitted' = admitted /\ Counted(t)' \subseteq Counted(t)
  BY <1>2 DEF Tick, Counted
<1> QED
  BY <1>1, <1>2, FewerKeepBudget, CountKeepsBudget, RecordKeepsBudget DEF Next, Inv

LEMMA NextKeepsInv == Inv /\ [Next]_vars => Inv'
<1> SUFFICES ASSUME Inv, [Next]_vars
             PROVE  Inv'
  OBVIOUS
<1>1. TypeOK'
  BY NextTypes DEF Inv
<1>2. CASE Next
  BY <1>1, <1>2, ClocksStay, TokensStay, LeftStays, BudgetStays DEF Inv
<1>3. CASE UNCHANGED vars
  <2>1. ClocksAreBehind' /\ TokensNumber' /\ LeftWhenOld'
    BY <1>3 DEF vars, Inv, ClocksAreBehind, TokensNumber, LeftWhenOld
  <2>2. \A t \in Times : Admitted(t)' = Admitted(t) /\ Counted(t)' = Counted(t)
    BY <1>3 DEF vars, Admitted, Counted
  <2> QED
    BY <1>1, <2>1, <2>2 DEF Inv, Budget
<1> QED
  BY <1>2, <1>3

----------------------------------------------------------------------------
(* Every variable keeps its type.                                          *)
THEOREM TypeCorrect == Spec => []TypeOK
BY InitTypes, NextTypes, PTL DEF Spec

(* The inductive invariant: clocks lag by no more than a request may be    *)
(* stalled, a member leaves the set only when it has left the window, and  *)
(* the requests that have counted and not recorded are within the budget.  *)
THEOREM InvHolds == Spec => []Inv
BY InitInv, NextKeepsInv, PTL DEF Spec

(* For any limit, window and number of concurrent requests, a window never *)
(* admits more than the limit and one more for each other request.         *)
THEOREM WindowIsLimited == Spec => []AdmittedInAnyWindow
<1>1. ASSUME Inv
      PROVE  AdmittedInAnyWindow
  <2> SUFFICES ASSUME NEW t \in Times
               PROVE  Cardinality(Admitted(t)) <= Limit + Cardinality(Requests) - 1
    BY DEF AdmittedInAnyWindow, Admitted
  <2>1. Cardinality(Admitted(t)) + Cardinality(Counted(t))
          <= Limit + Cardinality(Requests) - 1
    BY <1>1 DEF Inv, Budget
  <2> QED
    BY <1>1, <2>1, WindowCounts, RateLimitAssumption DEF Inv
<1> QED
  BY <1>1, InvHolds, PTL

----------------------------------------------------------------------------
(* Rounding down and adding one is rounding up.                            *)
LEMMA RoundedUp ==
  ASSUME NEW x \in Int, NEW d \in Nat \ {0}
  PROVE  /\ x \div d \in Int
         /\ (x \div d + 1) * d > x
OBVIOUS

(* The oldest member is out of the window when the client comes back.      *)
LEMMA OldestHasLeft ==
  ASSUME TypeOK, hits # {}, NEW at \in Nat
  PROVE  Oldest.at <= at + RetryAfter(at) * Second - Window
<1> DEFINE x == Oldest.at + Window - at
           wait == x \div Second + 1
<1>1. Oldest.at \in Nat /\ Window \in Nat /\ Second \in Nat \ {0}
  BY OldestIsFirst, ClockTypes, WindowType, RateLimitAssumption DEF TypeOK
<1>2. x \in Int
  BY <1>1
<1> HIDE DEF x
<1>3. wait \in Int /\ wait * Second > x
  BY <1>1, <1>2, RoundedUp
<1>4. RetryAfter(at) = IF wait < 1 THEN 1 ELSE wait
  BY DEF RetryAfter, x
<1> HIDE DEF wait
<1>5. RetryAfter(at) \in Int /\ RetryAfter(at) >= wait
  BY <1>3, <1>4
<1>6. RetryAfter(at) * Second >= wait * Second
  BY <1>1, <1>3, <1>5
<1>7. RetryAfter(at) * Second > x
  BY <1>1, <1>2, <1>3, <1>5, <1>6
<1> QED
  BY <1>1, <1>5, <1>7 DEF x

(* A client that waits as long as it was told finds fewer members than     *)
(* blocked it, and a free place unless a race had overfilled the set.      *)
THEOREM WaitingFreesAPlace == Spec => RetryAfterFreesAPlace
<1> DEFINE Freed ==
      \A r \in Requests :
        req[r].step # "refused" /\ req'[r].step = "refused" =>
          Cardinality(Since(hits, ComesBack(req'[r]) - Window))
            < IF Cardinality(hits) > Limit THEN Cardinality(hits) ELSE Limit
<1>1. ASSUME TypeOK, [Next]_vars
      PROVE  [Freed]_vars
  <2> SUFFICES ASSUME Next
               PROVE  Freed
    BY <1>1
  <2> SUFFICES ASSUME NEW r \in Requests,
                      req[r].step # "refused", req'[r].step = "refused"
               PROVE  Cardinality(Since(hits, ComesBack(req'[r]) - Window))
                        < IF Cardinality(hits) > Limit THEN Cardinality(hits) ELSE Limit
    OBVIOUS
  <2>1. Refuse(r)
    BY <1>1 DEF Next, Call, Count, Refuse, Record, Leave, Tick, TypeOK, Idle
  <2> DEFINE at == req[r].at
             from == at + RetryAfter(at) * Second - Window
  <2>2. /\ at \in Nat /\ req'[r].at = at /\ req'[r].retry = RetryAfter(at)
    BY <1>1, <2>1, ClockTypes DEF Refuse, TypeOK
  <2>3. /\ IsFiniteSet(hits) /\ Cardinality(hits) \in Nat
        /\ Limit \in Nat \ {0}
    BY <1>1, FiniteSets, RateLimitAssumption
  <2>4. Since(hits, from) \subseteq hits
    BY DEF Since
  <2>5. ASSUME hits = {}
        PROVE  Cardinality(Since(hits, from))
                 < IF Cardinality(hits) > Limit THEN Cardinality(hits) ELSE Limit
    <3>1. Since(hits, from) = {}
      BY <2>4, <2>5
    <3> HIDE DEF from
    <3>2. Cardinality(Since(hits, from)) = 0
      BY <3>1, FS_EmptySet
    <3> QED
      BY <2>3, <3>2
  <2>6. ASSUME hits # {}
        PROVE  Cardinality(Since(hits, from))
                 < IF Cardinality(hits) > Limit THEN Cardinality(hits) ELSE Limit
    <3>1. Oldest \in hits /\ Oldest.at \in Nat /\ Oldest.at <= from
      BY <1>1, <2>2, <2>6, OldestIsFirst, OldestHasLeft, ClockTypes DEF TypeOK
    <3>2. from \in Int
      BY <1>1, <2>2, RetryType, WindowType, RateLimitAssumption
    <3> HIDE DEF from
    <3>3. Oldest \notin Since(hits, from)
      BY <3>1, <3>2 DEF Since
    <3>4. /\ Cardinality(Since(hits, from)) \in Nat
          /\ Cardinality(Since(hits, from)) < Cardinality(hits)
      BY <2>3, <2>4, <3>1, <3>3, FS_Subset, FS_CardinalityType
    <3> QED
      BY <2>3, <3>4
  <2>7. ComesBack(req'[r]) - Window = from
    <3>1. ComesBack(req'[r]) = at + RetryAfter(at) * Second
      BY <2>2 DEF ComesBack
    <3>2. RetryAfter(at) \in Int /\ Second \in Int /\ Window \in Int
      BY <1>1, <2>2, RetryType, WindowType, RateLimitAssumption
    <3> QED
      BY <2>2, <3>1, <3>2
  <2>8. Cardinality(Since(hits, from))
          < IF Cardinality(hits) > Limit THEN Cardinality(hits) ELSE Limit
    BY <2>5, <2>6
  <2> HIDE DEF from
  <2> QED
    BY <2>7, <2>8
<1> QED
  BY <1>1, TypeCorrect, PTL DEF Spec, RetryAfterFreesAPlace
=============================================================================
