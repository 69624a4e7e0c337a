-------------------------- MODULE AlgorithmsProofs --------------------------
(***************************************************************************)
(* Proofs about the algorithms of Algorithms, for inputs of any size.  The *)
(* functions they recur through are reasoned about with a least            *)
(* counterexample, as the natural numbers are well founded.                *)
(***************************************************************************)
EXTENDS Algorithms, NaturalsInduction, SequenceTheorems, FiniteSetTheorems,
        WellFoundedInduction, TLAPS

----------------------------------------------------------------------------
(* Recursion over the natural numbers.                                     *)

\* What holds of 0, and of the next of each number it holds of, holds of all.
LEMMA Induct ==
  ASSUME NEW T \in SUBSET Nat, 0 \in T, \A n \in T : n + 1 \in T
  PROVE  T = Nat
<1> SUFFICES ASSUME NEW n \in Nat \ T PROVE FALSE
  OBVIOUS
<1> DEFINE U == Nat \ T
<1>1. U \subseteq Nat /\ U # {}
  OBVIOUS
<1> HIDE DEF U
<1>2. PICK x \in U : \A y \in U : <<y, x>> \notin OpToRel(<, Nat)
  BY <1>1, NatLessThanWellFounded, WFMin, Zenon
<1>3. \A y \in U : ~ (y < x)
  BY <1>1, <1>2 DEF OpToRel
<1> QED BY <1>1, <1>3 DEF U

\* What a function of the numbers up to n obeys when each value is a step from
\* the one before: there is one.
Unfolds(f, n, first, step) ==
  f[0] = first /\ \A i \in 1 .. n : f[i] = step[<<f[i - 1], i>>]

\* A function that unfolds so, to any number.
LEMMA Recursion ==
  ASSUME NEW S, NEW n \in Nat, NEW first \in S, NEW step \in [S \X Nat -> S]
  PROVE  \E f \in [0 .. n -> S] : Unfolds(f, n, first, step)
<1> DEFINE T == {k \in Nat : \E f \in [0 .. k -> S] : Unfolds(f, k, first, step)}
<1>1. 0 \in T
  <2>1. [i \in 0 .. 0 |-> first] \in [0 .. 0 -> S]
    OBVIOUS
  <2>2. Unfolds([i \in 0 .. 0 |-> first], 0, first, step)
    BY DEF Unfolds
  <2> QED BY <2>1, <2>2
<1>2. ASSUME NEW k \in T PROVE k + 1 \in T
  <2>1. PICK f \in [0 .. k -> S] : Unfolds(f, k, first, step)
    OBVIOUS
  <2> DEFINE g == [i \in 0 .. k + 1 |-> IF i = k + 1 THEN step[<<f[k], i>>] ELSE f[i]]
  <2>2. g \in [0 .. k + 1 -> S]
    OBVIOUS
  <2>3. g[0] = first
    BY <2>1 DEF Unfolds
  <2>4. ASSUME NEW i \in 1 .. k + 1 PROVE g[i] = step[<<g[i - 1], i>>]
    <3>1. g[i - 1] = f[i - 1]
      OBVIOUS
    <3>2. CASE i = k + 1
      BY <3>1, <3>2
    <3>3. CASE i # k + 1
      BY <2>1, <3>1, <3>3 DEF Unfolds
    <3> QED BY <3>2, <3>3
  <2> HIDE DEF g
  <2>5. Unfolds(g, k + 1, first, step)
    BY <2>3, <2>4 DEF Unfolds
  <2> QED BY <2>2, <2>5
<1>3. T \in SUBSET Nat
  OBVIOUS
<1> HIDE DEF T
<1>4. T = Nat
  BY <1>1, <1>2, <1>3, Induct
<1> QED BY <1>4 DEF T

\* A function of 1 .. n is a sequence.
LEMMA FunctionIsSeq ==
  ASSUME NEW S, NEW n \in Nat, NEW f \in [1 .. n -> S]
  PROVE  f \in Seq(S) /\ Len(f) = n
<1>1. f \in Seq(S)
  BY SeqDef
<1> QED BY <1>1, LenProperties

\* FlattenSeq from the left, a sequence at a time.
LEMMA FlattenSeqDef ==
  ASSUME NEW S, NEW seqs \in Seq(Seq(S)), seqs # <<>>
  PROVE  \E f \in [1 .. Len(seqs) -> Seq(S)] :
            /\ FlattenSeq(seqs) = f[Len(seqs)]
            /\ f[1] = seqs[1]
            /\ \A i \in 2 .. Len(seqs) : f[i] = f[i - 1] \o seqs[i]
<1> DEFINE n == Len(seqs)
           D(f) == [i \in 1 .. n |-> IF i = 1 THEN seqs[i] ELSE f[i - 1] \o seqs[i]]
           f == CHOOSE g : g = D(g)
<1>1. FlattenSeq(seqs) = f[n]
  BY DEF FlattenSeq
<1>2. n \in Nat /\ n > 0 /\ \A i \in 1 .. n : seqs[i] \in Seq(S)
  OBVIOUS
<1> HIDE DEF n
<1> DEFINE step == [x \in Seq(S) \X Nat |->
                      IF x[2] \in 1 .. n THEN x[1] \o seqs[x[2]] ELSE x[1]]
<1>3. PICK g \in [0 .. n -> Seq(S)] : Unfolds(g, n, <<>>, step)
  <2>1. step \in [Seq(S) \X Nat -> Seq(S)]
    <3> SUFFICES ASSUME NEW x \in Seq(S) \X Nat
                 PROVE  (IF x[2] \in 1 .. n THEN x[1] \o seqs[x[2]] ELSE x[1]) \in Seq(S)
      OBVIOUS
    <3> QED BY <1>2, ConcatProperties
  <2> HIDE DEF step
  <2>2. <<>> \in Seq(S)
    OBVIOUS
  <2> QED BY <1>2, <2>1, <2>2, Recursion
<1>4. \A i \in 1 .. n : g[i] = g[i - 1] \o seqs[i]
  <2> SUFFICES ASSUME NEW i \in 1 .. n PROVE g[i] = g[i - 1] \o seqs[i]
    OBVIOUS
  <2>1. g[i - 1] \in Seq(S) /\ i \in Nat
    BY <1>2, <1>3
  <2> QED BY <1>3, <2>1 DEF Unfolds
<1> DEFINE h == [i \in 1 .. n |-> g[i]]
<1>5. h \in [1 .. n -> Seq(S)]
  BY <1>3
<1>6. h[1] = seqs[1]
  <2>1. 1 \in 1 .. n /\ 1 - 1 = 0
    BY <1>2
  <2>2. g[1] = g[0] \o seqs[1]
    BY <1>4, <2>1, Zenon
  <2>3. g[0] = <<>> /\ seqs[1] \in Seq(S) /\ h[1] = g[1]
    BY <1>2, <1>3, <2>1 DEF Unfolds
  <2>4. <<>> \o seqs[1] = seqs[1]
    BY <2>3, ConcatEmptySeq
  <2> QED BY <2>2, <2>3, <2>4, Zenon
<1>7. ASSUME NEW i \in 2 .. n PROVE h[i] = h[i - 1] \o seqs[i]
  <2>1. i \in 1 .. n /\ h[i] = g[i] /\ h[i - 1] = g[i - 1]
    BY <1>2
  <2> QED BY <1>4, <2>1, Zenon
<1>8. h = D(h)
  <2>1. ASSUME NEW i \in 1 .. n
        PROVE  h[i] = IF i = 1 THEN seqs[i] ELSE h[i - 1] \o seqs[i]
    <3>1. CASE i = 1
      BY <1>6, <3>1, Zenon
    <3>2. CASE i # 1
      <4>1. i \in 2 .. n
        BY <1>2, <3>2
      <4> HIDE DEF h
      <4> QED BY <1>7, <3>2, <4>1, Zenon
    <3> QED BY <3>1, <3>2
  <2> HIDE DEF h
  <2>2. h = [i \in 1 .. n |-> h[i]]
    BY <1>5
  <2> QED BY <2>1, <2>2, Zenon
<1>9. f = D(f)
  <2> HIDE DEF h, D
  <2> QED BY <1>8, Zenon
<1> HIDE DEF f, h
<1>10. \A i \in 1 .. n : f[i] = IF i = 1 THEN seqs[i] ELSE f[i - 1] \o seqs[i]
  BY <1>9, Zenon
<1> DEFINE U == {k \in Nat : k + 1 <= n => f[k + 1] = h[k + 1]}
<1>11. U = Nat
  <2>1. 0 \in U
    <3>1. 1 \in 1 .. n
      BY <1>2
    <3>2. f[1] = h[1]
      BY <1>6, <1>10, <3>1, Zenon
    <3> QED BY <3>2
  <2>2. ASSUME NEW k \in U PROVE k + 1 \in U
    <3> SUFFICES ASSUME k + 2 <= n PROVE f[k + 2] = h[k + 2]
      OBVIOUS
    <3> DEFINE i == k + 2
    <3>1. i \in 2 .. n /\ i \in 1 .. n /\ i # 1 /\ i - 1 = k + 1 /\ k + 1 <= n
      BY <1>2
    <3>2. f[k + 1] = h[k + 1]
      BY <3>1
    <3> HIDE DEF i
    <3>3. f[i] = f[i - 1] \o seqs[i] /\ h[i] = h[i - 1] \o seqs[i]
      BY <1>7, <1>10, <3>1, Zenon
    <3>4. f[i] = h[i]
      BY <3>1, <3>2, <3>3, Zenon
    <3> QED BY <3>4 DEF i
  <2>3. U \in SUBSET Nat
    OBVIOUS
  <2> HIDE DEF U
  <2> QED BY <2>1, <2>2, <2>3, Induct
<1>12. \A i \in 1 .. n : f[i] = h[i]
  <2> SUFFICES ASSUME NEW i \in 1 .. n PROVE f[i] = h[i]
    OBVIOUS
  <2>1. i - 1 \in Nat /\ (i - 1) + 1 = i /\ i <= n
    BY <1>2
  <2>2. i - 1 \in U
    BY <1>11, <2>1
  <2> QED BY <2>1, <2>2
<1>13. f = h
  <2>1. f = [i \in 1 .. n |-> f[i]]
    <3> HIDE DEF h
    <3> QED BY <1>9, Zenon
  <2>2. h = [i \in 1 .. n |-> h[i]]
    BY <1>5
  <2> HIDE DEF h
  <2> QED BY <1>12, <2>1, <2>2, Zenon
<1> QED BY <1>1, <1>5, <1>6, <1>7, <1>13 DEF n

----------------------------------------------------------------------------
(* The bytes of a range.                                                   *)

\* Bytes from first on, a block after the other, up to the byte before last.
Contiguous(blocks, first, last) ==
  /\ blocks \in Seq(Nat \X (Nat \ {0}))
  /\ blocks = <<>> => first = last
  /\ blocks # <<>> =>
       /\ blocks[1][1] = first
       /\ blocks[Len(blocks)][1] + blocks[Len(blocks)][2] = last
       /\ \A i \in 2 .. Len(blocks) : blocks[i][1] = blocks[i - 1][1] + blocks[i - 1][2]

Consecutive(first, last) == [i \in 1 .. last - first |-> first + i - 1]

BytesOf(blocks) ==
  FlattenSeq([i \in DOMAIN blocks |-> [j \in 1 .. blocks[i][2] |-> blocks[i][1] + j - 1]])

\* Consecutive bytes after consecutive bytes are consecutive.
LEMMA ConsecutiveCat ==
  ASSUME NEW a \in Nat, NEW b \in Nat, NEW c \in Nat, a <= b, b <= c
  PROVE  Consecutive(a, b) \o Consecutive(b, c) = Consecutive(a, c)
<1> DEFINE s == Consecutive(a, b)
           t == Consecutive(b, c)
           u == Consecutive(a, c)
<1>1. /\ s \in Seq(Nat) /\ t \in Seq(Nat) /\ u \in Seq(Nat)
      /\ Len(s) = b - a /\ Len(t) = c - b /\ Len(u) = c - a
      /\ \A i \in 1 .. b - a : s[i] = a + i - 1
      /\ \A i \in 1 .. c - b : t[i] = b + i - 1
      /\ \A i \in 1 .. c - a : u[i] = a + i - 1
  BY DEF Consecutive
<1> HIDE DEF s, t, u
<1>2. /\ s \o t \in Seq(Nat) /\ Len(s \o t) = c - a
      /\ \A i \in 1 .. c - a : (s \o t)[i] = IF i <= b - a THEN s[i] ELSE t[i - (b - a)]
  <2>1. /\ s \o t \in Seq(Nat)
        /\ Len(s \o t) = Len(s) + Len(t)
        /\ \A i \in 1 .. Len(s) + Len(t) :
             (s \o t)[i] = IF i <= Len(s) THEN s[i] ELSE t[i - Len(s)]
    BY <1>1, ConcatProperties, Zenon
  <2>2. Len(s) + Len(t) = c - a
    BY <1>1
  <2> QED BY <1>1, <2>1, <2>2, Zenon
<1>3. ASSUME NEW i \in 1 .. c - a PROVE (s \o t)[i] = u[i]
  <2>1. CASE i <= b - a
    <3>1. i \in 1 .. b - a
      BY <2>1
    <3> QED BY <1>1, <1>2, <2>1, <3>1
  <2>2. CASE ~ (i <= b - a)
    <3>1. i - (b - a) \in 1 .. c - b /\ b + (i - (b - a)) - 1 = a + i - 1
      BY <2>2
    <3>2. (s \o t)[i] = t[i - (b - a)]
      BY <1>2, <2>2, Zenon
    <3> QED BY <1>1, <3>1, <3>2
  <2> QED BY <2>1, <2>2
<1>4. s \o t = u
  BY <1>1, <1>2, <1>3, SeqEqual
<1> QED BY <1>4 DEF s, t, u

\* What contiguous blocks hold is consecutive.
LEMMA BlocksHold ==
  ASSUME NEW blocks, NEW first \in Nat, NEW last, Contiguous(blocks, first, last)
  PROVE  BytesOf(blocks) = Consecutive(first, last)
<1> DEFINE seqs == [i \in DOMAIN blocks |-> [j \in 1 .. blocks[i][2] |-> blocks[i][1] + j - 1]]
           n == Len(blocks)
<1>1. blocks \in Seq(Nat \X (Nat \ {0})) /\ n \in Nat
  BY DEF Contiguous
<1>2. ASSUME NEW i \in 1 .. n
      PROVE  /\ blocks[i][1] \in Nat /\ blocks[i][2] \in Nat \ {0}
             /\ seqs[i] = Consecutive(blocks[i][1], blocks[i][1] + blocks[i][2])
             /\ seqs[i] \in Seq(Nat)
  <2>1. blocks[i] \in Nat \X (Nat \ {0}) /\ i \in DOMAIN blocks
    BY <1>1
  <2>2. blocks[i][1] \in Nat /\ blocks[i][2] \in Nat \ {0}
    BY <2>1
  <2>3. seqs[i] = [j \in 1 .. blocks[i][2] |-> blocks[i][1] + j - 1]
    BY <2>1
  <2> HIDE DEF seqs
  <2> DEFINE a == blocks[i][1]
             b == blocks[i][2]
  <2>4. seqs[i] = [j \in 1 .. b |-> a + j - 1] /\ a \in Nat /\ b \in Nat \ {0}
    BY <2>2, <2>3
  <2> HIDE DEF a, b
  <2>5. (a + b) - a = b
    BY <2>4
  <2>6. seqs[i] = Consecutive(a, a + b)
    BY <2>4, <2>5 DEF Consecutive
  <2>7. seqs[i] \in Seq(Nat)
    BY <2>4
  <2> QED BY <2>2, <2>6, <2>7 DEF a, b
<1>3. seqs \in Seq(Seq(Nat)) /\ Len(seqs) = n
  <2>1. DOMAIN blocks = 1 .. n /\ seqs = [i \in 1 .. n |-> seqs[i]]
    BY <1>1
  <2> HIDE DEF seqs, n
  <2>2. seqs \in [1 .. n -> Seq(Nat)]
    BY <1>2, <2>1
  <2> QED BY <1>1, <2>2, FunctionIsSeq
<1>4. CASE blocks = <<>>
  <2>1. seqs = <<>> /\ Len(seqs) = 0
    BY <1>4
  <2>2. first = last
    BY <1>4 DEF Contiguous
  <2>3. BytesOf(blocks) = seqs
    <3> HIDE DEF seqs
    <3>1. FlattenSeq(seqs) = seqs
      BY <2>1 DEF FlattenSeq
    <3> QED BY <3>1 DEF BytesOf, seqs
  <2>4. Consecutive(first, last) = <<>>
    BY <2>2 DEF Consecutive
  <2> QED BY <2>1, <2>3, <2>4
<1>5. CASE blocks # <<>>
  <2>0. n > 0 /\ seqs # <<>>
    BY <1>1, <1>3, <1>5
  <2> DEFINE ends(i) == blocks[i][1] + blocks[i][2]
  <2> HIDE DEF seqs, n
  <2>1. PICK f \in [1 .. n -> Seq(Nat)] :
          /\ FlattenSeq(seqs) = f[n]
          /\ f[1] = seqs[1]
          /\ \A i \in 2 .. n : f[i] = f[i - 1] \o seqs[i]
    BY <1>3, <2>0, FlattenSeqDef, Zenon
  <2>2. /\ blocks[1][1] = first /\ ends(n) = last
        /\ \A i \in 2 .. n : blocks[i][1] = ends(i - 1)
    BY <1>5 DEF Contiguous, n
  <2> DEFINE U == {k \in Nat : k + 1 <= n =>
                     f[k + 1] = Consecutive(first, ends(k + 1)) /\ first <= ends(k + 1)}
  <2>3. 0 \in U
    <3>1. 1 \in 1 .. n /\ 0 + 1 = 1
      BY <1>1, <2>0
    <3>2. f[1] = Consecutive(first, ends(1)) /\ first <= ends(1)
      BY <1>2, <2>1, <2>2, <3>1
    <3> QED BY <3>1, <3>2
  <2>4. ASSUME NEW k \in U PROVE k + 1 \in U
    <3> SUFFICES ASSUME k + 2 <= n
                 PROVE  /\ f[k + 2] = Consecutive(first, ends(k + 2))
                        /\ first <= ends(k + 2)
      OBVIOUS
    <3> DEFINE i == k + 2
    <3>1. i \in 2 .. n /\ i \in 1 .. n /\ i - 1 \in 1 .. n /\ i - 1 = k + 1
      BY <1>1
    <3>2. f[i - 1] = Consecutive(first, ends(i - 1)) /\ first <= ends(i - 1)
      BY <1>1
    <3> HIDE DEF i
    <3>3. /\ blocks[i][1] = ends(i - 1) /\ blocks[i][1] \in Nat /\ blocks[i][2] \in Nat \ {0}
          /\ seqs[i] = Consecutive(ends(i - 1), ends(i))
      BY <1>2, <2>2, <3>1
    <3>4. f[i] = Consecutive(first, ends(i - 1)) \o Consecutive(ends(i - 1), ends(i))
      BY <2>1, <3>1, <3>2, <3>3, Zenon
    <3>5. /\ ends(i - 1) \in Nat /\ ends(i) \in Nat /\ ends(i - 1) <= ends(i)
          /\ first <= ends(i)
      BY <3>2, <3>3
    <3> HIDE DEF ends
    <3>6. f[i] = Consecutive(first, ends(i))
      BY <3>2, <3>4, <3>5, ConsecutiveCat
    <3> QED BY <3>5, <3>6 DEF i
  <2>5. U \in SUBSET Nat
    OBVIOUS
  <2> HIDE DEF U
  <2>6. U = Nat
    BY <2>3, <2>4, <2>5, Induct
  <2>7. n - 1 \in U /\ (n - 1) + 1 = n
    BY <1>1, <2>0, <2>6
  <2>8. f[n] = Consecutive(first, last)
    BY <2>2, <2>7 DEF U
  <2> QED BY <2>1, <2>8 DEF BytesOf, seqs
<1> QED BY <1>4, <1>5

\* A function of the numbers up to n whose values are steps from a value further on.
Jumps(f, n, jump, last, step) ==
  \A s \in 0 .. n : f[s] = IF jump[s] = 0 THEN last ELSE step[<<f[s + jump[s]], s>>]

\* There is a function that jumps forward at each step, as Stream does.
LEMMA JumpsExist ==
  ASSUME NEW S, NEW n \in Nat, NEW jump \in [0 .. n -> Nat],
         \A s \in 0 .. n : s + jump[s] <= n,
         NEW last \in S, NEW step \in [S \X Nat -> S]
  PROVE  \E f \in [0 .. n -> S] : Jumps(f, n, jump, last, step)
<1> DEFINE From(f, m) ==
             \A s \in m .. n : f[s] = IF jump[s] = 0 THEN last ELSE step[<<f[s + jump[s]], s>>]
           P(k) == k <= n => \E f \in [n - k .. n -> S] : From(f, n - k)
<1>1. P(0)
  <2> DEFINE f == [s \in n - 0 .. n |-> last]
  <2>1. f \in [n - 0 .. n -> S] /\ \A s \in n - 0 .. n : jump[s] = 0 /\ f[s] = last
    OBVIOUS
  <2> HIDE DEF f
  <2>2. From(f, n - 0)
    BY <2>1
  <2> QED BY <2>1, <2>2
<1>2. ASSUME NEW k \in Nat, P(k) PROVE P(k + 1)
  <2> SUFFICES ASSUME k + 1 <= n
               PROVE  \E g \in [n - (k + 1) .. n -> S] : From(g, n - (k + 1))
    OBVIOUS
  <2>1. PICK f \in [n - k .. n -> S] : From(f, n - k)
    <3>1. k <= n
      OBVIOUS
    <3> QED BY <1>2, <3>1, Zenon
  <2> DEFINE m == n - (k + 1)
             x == IF jump[m] = 0 THEN last ELSE step[<<f[m + jump[m]], m>>]
             g == [s \in m .. n |-> IF s = m THEN x ELSE f[s]]
  <2>2. m \in 0 .. n /\ m \in Nat /\ n - k = m + 1
    OBVIOUS
  <2> HIDE DEF m
  <2>3. x \in S
    <3>1. jump[m] # 0 => m + jump[m] \in n - k .. n
      <4>1. jump[m] \in Nat /\ m + jump[m] <= n
        BY <2>2
      <4>2. jump[m] # 0 => m + jump[m] >= m + 1
        BY <2>2, <4>1
      <4> QED BY <2>2, <4>1, <4>2
    <3>2. jump[m] # 0 => <<f[m + jump[m]], m>> \in S \X Nat
      BY <2>1, <2>2, <3>1
    <3> QED BY <3>2
  <2> HIDE DEF x
  <2>4. /\ g \in [m .. n -> S]
        /\ g[m] = x
        /\ \A s \in m + 1 .. n : g[s] = f[s]
    BY <2>2, <2>3
  <2> HIDE DEF g
  <2>5. ASSUME NEW s \in m .. n
        PROVE  g[s] = IF jump[s] = 0 THEN last ELSE step[<<g[s + jump[s]], s>>]
    <3>1. s \in 0 .. n /\ jump[s] \in Nat /\ s + jump[s] <= n
      BY <2>2
    <3>2. jump[s] # 0 => g[s + jump[s]] = f[s + jump[s]]
      <4> DEFINE t == s + jump[s]
      <4>1. t \in Int /\ t <= n /\ (jump[s] # 0 => t >= m + 1)
        <5>1. ASSUME NEW j \in Nat, s + j <= n
              PROVE  s + j \in Int /\ s + j <= n /\ (j # 0 => s + j >= m + 1)
          BY <2>2, <5>1
        <5> QED BY <3>1, <5>1
      <4> HIDE DEF t
      <4>2. jump[s] # 0 => t \in m + 1 .. n
        BY <2>2, <4>1
      <4>3. jump[s] # 0 => g[t] = f[t]
        BY <2>4, <4>2, Zenon
      <4> QED BY <4>3 DEF t
    <3>3. CASE s = m
      BY <2>4, <3>2, <3>3 DEF x
    <3>4. CASE s # m
      <4>1. s \in n - k .. n
        BY <2>2, <3>4
      <4>2. g[s] = f[s]
        BY <2>2, <2>4, <4>1
      <4> QED BY <2>1, <3>2, <4>1, <4>2
    <3> QED BY <3>3, <3>4
  <2> QED BY <2>4, <2>5 DEF m
<1>3. P(n)
  <2> DEFINE T == {k \in Nat : P(k)}
  <2> HIDE DEF P
  <2>1. T \in SUBSET Nat /\ 0 \in T /\ \A k \in T : k + 1 \in T
    BY <1>1, <1>2
  <2>2. n \in T
    <3> HIDE DEF T
    <3> QED BY <2>1, Induct
  <2> QED BY <2>2
<1>4. n <= n /\ n - n = 0
  OBVIOUS
<1>5. PICK f \in [0 .. n -> S] : From(f, 0)
  BY <1>3, <1>4, Zenon
<1> QED BY <1>5 DEF Jumps

\* What a function that jumps makes true of the values before n, if the last is
\* so and every step keeps it so.
LEMMA JumpsInduct ==
  ASSUME NEW n \in Nat, NEW jump \in [0 .. n -> Nat],
         \A s \in 0 .. n : s + jump[s] <= n,
         NEW G \in SUBSET Nat,
         \A s \in 0 .. n : jump[s] = 0 \/ s + jump[s] \in G => s \in G
  PROVE  0 .. n \subseteq G
<1> DEFINE T == {k \in Nat : \A s \in 0 .. n : n - s <= k => s \in G}
<1>1. 0 \in T
  <2> SUFFICES ASSUME NEW s \in 0 .. n, n - s <= 0 PROVE s \in G
    OBVIOUS
  <2>1. jump[s] = 0
    OBVIOUS
  <2> QED BY <2>1
<1>2. ASSUME NEW k \in T PROVE k + 1 \in T
  <2> SUFFICES ASSUME NEW s \in 0 .. n, n - s <= k + 1 PROVE s \in G
    OBVIOUS
  <2>1. jump[s] = 0 \/ (s + jump[s] \in 0 .. n /\ n - (s + jump[s]) <= k)
    OBVIOUS
  <2> QED BY <2>1
<1>3. T \in SUBSET Nat
  OBVIOUS
<1> HIDE DEF T
<1>4. n \in T
  BY <1>1, <1>2, <1>3, Induct
<1> QED BY <1>4 DEF T

\* A block in front of blocks that go on where it ends.
LEMMA ContiguousCons ==
  ASSUME NEW a \in Nat, NEW r \in Nat \ {0}, NEW last, NEW rest, Contiguous(rest, a + r, last)
  PROVE  Contiguous(<<<<a, r>>>> \o rest, a, last)
<1> DEFINE B == Nat \X (Nat \ {0})
           one == <<<<a, r>>>>
           s == one \o rest
           m == Len(rest)
<1>1. one \in Seq(B) /\ Len(one) = 1 /\ one[1] = <<a, r>>
  OBVIOUS
<1>2. rest \in Seq(B) /\ m \in Nat
  BY DEF Contiguous
<1> HIDE DEF one, B
<1>3. /\ s \in Seq(B)
      /\ Len(s) = Len(one) + Len(rest)
      /\ \A i \in 1 .. Len(one) + Len(rest) :
           s[i] = IF i <= Len(one) THEN one[i] ELSE rest[i - Len(one)]
  BY <1>1, <1>2, ConcatProperties, Zenon
<1> HIDE DEF s
<1>4. Len(s) = m + 1 /\ s # <<>>
  <2>1. Len(s) = m + 1
    BY <1>1, <1>3
  <2> QED BY <1>2, <2>1
<1>5. s[1] = <<a, r>>
  BY <1>1, <1>2, <1>3
<1>6. ASSUME NEW i \in 2 .. m + 1 PROVE s[i] = rest[i - 1]
  BY <1>1, <1>2, <1>3
<1>7. CASE rest = <<>>
  <2>1. a + r = last /\ m = 0
    BY <1>7 DEF Contiguous
  <2> QED BY <1>3, <1>4, <1>5, <2>1 DEF Contiguous, s, B, one
<1>8. CASE rest # <<>>
  <2>1. /\ m > 0
        /\ rest[1][1] = a + r
        /\ rest[m][1] + rest[m][2] = last
        /\ \A i \in 2 .. m : rest[i][1] = rest[i - 1][1] + rest[i - 1][2]
    BY <1>2, <1>8 DEF Contiguous
  <2>2. s[m + 1] = rest[m]
    BY <1>2, <1>6, <2>1
  <2>3. ASSUME NEW i \in 2 .. m + 1 PROVE s[i][1] = s[i - 1][1] + s[i - 1][2]
    <3>1. s[i] = rest[i - 1]
      BY <1>6
    <3>2. CASE i = 2
      BY <1>5, <2>1, <3>1, <3>2
    <3>3. CASE i # 2
      <4>1. i - 1 \in 2 .. m /\ i - 1 \in 2 .. m + 1
        BY <1>2, <3>3
      <4>2. s[i - 1] = rest[(i - 1) - 1]
        BY <1>6, <4>1
      <4> QED BY <2>1, <3>1, <4>1, <4>2
    <3> QED BY <3>2, <3>3
  <2>4. Contiguous(s, a, last)
    <3>1. s[1][1] = a /\ s[Len(s)][1] + s[Len(s)][2] = last
      BY <1>4, <1>5, <2>1, <2>2
    <3> QED BY <1>3, <1>4, <2>3, <3>1 DEF Contiguous, B
  <2> QED BY <2>4 DEF s, one
<1> QED BY <1>7, <1>8

\* What is left of the file from start on, of a range of length bytes.
Streamed(start, length, actual) ==
  Audio!Least(length, IF actual > start THEN actual - start ELSE 0)

\* The blocks follow each other from the start of the range to its end, or to
\* the end of a file that has become shorter.
LEMMA StreamIsContiguous ==
  ASSUME NEW start \in Nat, NEW length \in Nat, NEW block \in Nat \ {0}, NEW actual \in Nat
  PROVE  Contiguous(Audio!Stream(start, length, block, actual),
                    start, start + Streamed(start, length, actual))
<1> DEFINE B == Nat \X (Nat \ {0})
           Read(s) == Audio!Least(Audio!Least(length - s, block),
                                  IF actual > start + s THEN actual - (start + s) ELSE 0)
           jump == [s \in 0 .. length |-> Read(s)]
           count == Streamed(start, length, actual)
           D(f) == [s \in 0 .. length |->
                      IF Read(s) = 0 THEN <<>>
                      ELSE <<<<start + s, Read(s)>>>> \o f[s + Read(s)]]
           F == CHOOSE f : f = D(f)
           step == [x \in Seq(B) \X Nat |->
                      IF x[2] \in 0 .. length /\ jump[x[2]] # 0
                      THEN <<<<start + x[2], jump[x[2]]>>>> \o x[1] ELSE <<>>]
<1>1. Audio!Stream(start, length, block, actual) = F[0]
  BY DEF Audio!Stream
<1>2. count \in Nat /\ count <= length
  BY DEF Streamed, Audio!Least
<1>3. ASSUME NEW s \in 0 .. length
      PROVE  /\ Read(s) \in Nat
             /\ s + Read(s) <= length
             /\ s <= count => s + Read(s) <= count
             /\ s <= count => (Read(s) = 0 <=> s = count)
  BY DEF Streamed, Audio!Least
<1> HIDE DEF Read, count, F
<1>4. /\ jump \in [0 .. length -> Nat]
      /\ \A s \in 0 .. length : jump[s] = Read(s) /\ s + jump[s] <= length
  BY <1>3
<1> HIDE DEF jump
<1>5. \E f : f = D(f)
  <2>1. <<>> \in Seq(B)
    OBVIOUS
  <2>2. step \in [Seq(B) \X Nat -> Seq(B)]
    <3> SUFFICES ASSUME NEW x \in Seq(B) \X Nat, x[2] \in 0 .. length, jump[x[2]] # 0
                 PROVE  <<<<start + x[2], jump[x[2]]>>>> \o x[1] \in Seq(B)
      OBVIOUS
    <3>1. jump[x[2]] \in Nat \ {0} /\ start + x[2] \in Nat
      BY <1>4
    <3>2. <<<<start + x[2], jump[x[2]]>>>> \in Seq(B)
      BY <3>1
    <3>3. x[1] \in Seq(B)
      OBVIOUS
    <3> HIDE DEF B
    <3> QED BY <3>2, <3>3, ConcatProperties, Zenon
  <2> HIDE DEF step, B
  <2>3. PICK f \in [0 .. length -> Seq(B)] : Jumps(f, length, jump, <<>>, step)
    BY <1>4, <2>1, <2>2, JumpsExist
  <2>4. ASSUME NEW s \in 0 .. length
        PROVE  f[s] = IF Read(s) = 0 THEN <<>>
                      ELSE <<<<start + s, Read(s)>>>> \o f[s + Read(s)]
    <3>1. f[s] = IF Read(s) = 0 THEN <<>> ELSE step[<<f[s + Read(s)], s>>]
      BY <1>4, <2>3, Zenon DEF Jumps
    <3>2. ASSUME Read(s) # 0
          PROVE  step[<<f[s + Read(s)], s>>] = <<<<start + s, Read(s)>>>> \o f[s + Read(s)]
      <4>1. s + Read(s) \in 0 .. length /\ s \in Nat
        BY <1>3
      <4>2. f[s + Read(s)] \in Seq(B)
        BY <4>1
      <4> DEFINE t == f[s + Read(s)]
      <4> HIDE DEF t
      <4>3. <<t, s>> \in Seq(B) \X Nat /\ <<t, s>>[1] = t /\ <<t, s>>[2] = s
        BY <4>1, <4>2 DEF t
      <4>4. step[<<t, s>>] = <<<<start + s, jump[s]>>>> \o t
        BY <1>4, <3>2, <4>3, Zenon DEF step
      <4> QED BY <1>4, <4>4, Zenon DEF t
    <3> QED BY <3>1, <3>2, Zenon
  <2>5. f = [s \in 0 .. length |-> f[s]]
    BY <2>3
  <2>6. f = D(f)
    BY <2>4, <2>5, Zenon
  <2> QED BY <2>6
<1>6. F = D(F)
  BY <1>5, Zenon DEF F
<1>7. ASSUME NEW s \in 0 .. length
      PROVE  F[s] = IF Read(s) = 0 THEN <<>>
                    ELSE <<<<start + s, Read(s)>>>> \o F[s + Read(s)]
  BY <1>6, Zenon
<1> DEFINE G == {s \in Nat : s <= count => Contiguous(F[s], start + s, start + count)}
<1>8. ASSUME NEW s \in 0 .. length, jump[s] = 0 \/ s + jump[s] \in G
      PROVE  s \in G
  <2> SUFFICES ASSUME s <= count PROVE Contiguous(F[s], start + s, start + count)
    OBVIOUS
  <2>1. jump[s] = Read(s) /\ Read(s) \in Nat
    BY <1>3, <1>4
  <2>2. CASE Read(s) = 0
    <3>1. F[s] = <<>> /\ start + s = start + count
      BY <1>3, <1>7, <2>2
    <3> QED BY <3>1 DEF Contiguous
  <2>3. CASE Read(s) # 0
    <3>1. Contiguous(F[s + Read(s)], start + (s + Read(s)), start + count)
      BY <1>3, <1>8, <2>1, <2>3
    <3>2. F[s] = <<<<start + s, Read(s)>>>> \o F[s + Read(s)]
      BY <1>7, <2>3, Zenon
    <3>3. /\ start + (s + Read(s)) = (start + s) + Read(s)
          /\ start + s \in Nat /\ Read(s) \in Nat \ {0}
      BY <2>1, <2>3
    <3>4. Contiguous(F[s + Read(s)], (start + s) + Read(s), start + count)
      BY <3>1, <3>3, Zenon
    <3>5. Contiguous(<<<<start + s, Read(s)>>>> \o F[s + Read(s)], start + s, start + count)
      BY <3>3, <3>4, ContiguousCons, Zenon
    <3> QED BY <3>2, <3>5, Zenon
  <2> QED BY <2>2, <2>3
<1>9. G \in SUBSET Nat
  OBVIOUS
<1> HIDE DEF G
<1>10. 0 .. length \subseteq G
  BY <1>4, <1>8, <1>9, JumpsInduct
<1>11. 0 \in G /\ 0 <= count /\ start + 0 = start
  BY <1>2, <1>10
<1>12. Contiguous(F[0], start, start + count)
  BY <1>11 DEF G
<1> QED BY <1>1, <1>12 DEF count

Header == [start : {Empty} \cup Nat, end : {Empty} \cup Int]

\* _parse_range_header accepts a header that asks for a byte of the file, and
\* its answer is from the first to the last byte asked.
LEMMA RangeIsParsed ==
  ASSUME NEW h \in Header, h # Absent, h # Malformed, NEW size \in Nat
  PROVE  LET range == Audio!ParseRange(h, size) IN
         \/ Asked(h, size) = {} /\ range.status = 416
         \/ /\ range.status = 206
            /\ range.start \in Nat /\ range.end \in Nat /\ range.start <= range.end
            /\ Asked(h, size) = range.start .. range.end
<1> DEFINE range == Audio!ParseRange(h, size)
           a == h.start
           z == h.end
           asked == Asked(h, size)
<1>1. a \in {Empty} \cup Nat /\ z \in {Empty} \cup Int
  BY DEF Header
<1>2. CASE size = 0
  <2>1. range.status = 416
    BY <1>2 DEF Audio!ParseRange, Audio!Refused
  <2>2. asked = {}
    BY <1>2 DEF Asked
  <2> QED BY <2>1, <2>2
<1>3. CASE size # 0 /\ a = Empty /\ z = Empty
  <2>1. range.status = 416
    BY <1>3 DEF Audio!ParseRange, Audio!Refused
  <2> QED BY <1>3, <2>1 DEF Asked
<1>4. CASE size # 0 /\ a = Empty /\ z # Empty
  <2>1. asked = {b \in 0 .. size - 1 : b >= size - z} /\ z \in Int
    BY <1>1, <1>4 DEF Asked
  <2>2. CASE z <= 0
    <3>1. range.status = 416
      BY <1>4, <2>2 DEF Audio!ParseRange, Audio!Refused
    <3>2. asked = {}
      BY <2>1, <2>2
    <3> QED BY <3>1, <3>2
  <2>3. CASE z > 0
    <3> DEFINE s == IF size > z THEN size - z ELSE 0
    <3>1. range = Audio!Partial(s, size - 1)
      BY <1>4, <2>1, <2>3 DEF Audio!ParseRange, Audio!Least
    <3>2. asked = s .. size - 1 /\ s \in Nat /\ s <= size - 1 /\ size - 1 \in Nat
      BY <1>4, <2>1, <2>3
    <3> HIDE DEF s
    <3>3. range.status = 206 /\ range.start = s /\ range.end = size - 1
      BY <3>1 DEF Audio!Partial
    <3> QED BY <3>2, <3>3
  <2> QED BY <2>1, <2>2, <2>3
<1>5. CASE size # 0 /\ a # Empty
  <2> DEFINE e == IF z = Empty THEN size - 1 ELSE z
             l == Audio!Least(e, size - 1)
  <2>1. asked = {b \in 0 .. size - 1 : b >= a /\ b <= e} /\ a \in Nat /\ e \in Int
    BY <1>1, <1>5 DEF Asked
  <2>2. l \in Int /\ (l = e \/ l = size - 1) /\ l <= e /\ l <= size - 1
    BY <2>1 DEF Audio!Least
  <2>3. range = IF a >= size \/ e < a THEN Audio!Refused ELSE Audio!Partial(a, l)
    BY <1>5, <2>1 DEF Audio!ParseRange
  <2> HIDE DEF e, l
  <2>4. CASE a >= size \/ e < a
    <3>1. range.status = 416
      BY <2>3, <2>4 DEF Audio!Refused
    <3>2. asked = {}
      BY <2>1, <2>4
    <3> QED BY <3>1, <3>2
  <2>5. CASE ~ (a >= size \/ e < a)
    <3>1. range.status = 206 /\ range.start = a /\ range.end = l
      BY <2>3, <2>5 DEF Audio!Partial
    <3>2. a <= l /\ l \in Nat
      BY <2>1, <2>2, <2>5
    <3>3. asked = a .. l
      BY <2>1, <2>2, <2>5
    <3> QED BY <2>1, <3>1, <3>2, <3>3
  <2> QED BY <2>4, <2>5
<1> QED BY <1>2, <1>3, <1>4, <1>5

\* An interval begins with its least member.
LEMMA MinOfInterval ==
  ASSUME NEW a \in Int, NEW b \in Int, a <= b
  PROVE  Min(a .. b) = a
<1>1. a \in a .. b /\ \A y \in a .. b : a =< y
  OBVIOUS
<1> DEFINE m == CHOOSE x \in a .. b : \A y \in a .. b : x =< y
<1>2. m \in a .. b /\ \A y \in a .. b : m =< y
  BY <1>1, Zenon
<1> HIDE DEF m
<1>3. m = a
  BY <1>1, <1>2
<1> QED BY <1>3 DEF Min, m

\* The bytes that are asked and that the file still has, and what a reader of
\* consecutive bytes gets of them.
ServedOf(t) == {b \in Asked(t.header, t.size) : b < t.actual}
BytesFrom(S) == [i \in 1 .. Cardinality(S) |-> Min(S) + i - 1]

\* The bytes of an interval are consecutive.
LEMMA IntervalBytes ==
  ASSUME NEW a \in Nat, NEW n \in Nat
  PROVE  BytesFrom(a .. a + n - 1) = Consecutive(a, a + n)
<1> DEFINE S == a .. a + n - 1
<1>1. Cardinality(S) = n
  <2>1. Cardinality(S) = IF a > a + n - 1 THEN 0 ELSE (a + n - 1) - a + 1
    BY FS_Interval
  <2> HIDE DEF S
  <2> QED BY <2>1
<1>2. ASSUME NEW i \in 1 .. n PROVE Min(S) = a
  <2>1. a <= a + n - 1 /\ a + n - 1 \in Int
    OBVIOUS
  <2> QED BY <2>1, MinOfInterval
<1> HIDE DEF S
<1>3. BytesFrom(S) = [i \in 1 .. n |-> a + i - 1]
  BY <1>1, <1>2 DEF BytesFrom
<1>4. (a + n) - a = n
  OBVIOUS
<1>5. Consecutive(a, a + n) = [i \in 1 .. n |-> a + i - 1]
  BY <1>4 DEF Consecutive
<1> QED BY <1>3, <1>5 DEF S

\* No block, no byte.
LEMMA NothingServed == BytesOf(<<>>) = BytesFrom({})
<1>1. Contiguous(<<>>, 0, 0)
  BY DEF Contiguous
<1>2. BytesOf(<<>>) = Consecutive(0, 0)
  BY <1>1, BlocksHold
<1>3. 0 .. 0 + 0 - 1 = {} /\ 0 + 0 = 0
  OBVIOUS
<1> QED BY <1>2, <1>3, IntervalBytes

\* Whatever the size of the file, its size when it is read, the header and the
\* size of a block: the bytes streamed are those asked that are still there.
LEMMA RangeServes ==
  ASSUME NEW t, t.header \in Header, t.header # Absent, t.header # Malformed,
         t.size \in Nat, t.actual \in Nat, t.block \in Nat \ {0}
  PROVE  /\ Answer(t).range.status = IF Asked(t.header, t.size) = {} THEN 416 ELSE 206
         /\ BytesOf(Answer(t).blocks) = BytesFrom(ServedOf(t))
<1> DEFINE range == Audio!ParseRange(t.header, t.size)
           asked == Asked(t.header, t.size)
<1>1. /\ Answer(t).range = range
      /\ Answer(t).blocks = IF range.status # 206 THEN <<>>
                            ELSE Audio!Stream(range.start, range.end - range.start + 1,
                                              t.block, t.actual)
  BY DEF Answer
<1>2. \/ asked = {} /\ range.status = 416
      \/ /\ range.status = 206
         /\ range.start \in Nat /\ range.end \in Nat /\ range.start <= range.end
         /\ asked = range.start .. range.end
  BY RangeIsParsed
<1>3. ServedOf(t) = {b \in asked : b < t.actual}
  BY DEF ServedOf
<1> SUFFICES /\ range.status = IF asked = {} THEN 416 ELSE 206
             /\ BytesOf(Answer(t).blocks) = BytesFrom(ServedOf(t))
  BY <1>1
<1> HIDE DEF range, asked
<1>4. CASE asked = {} /\ range.status = 416
  <2>1. ServedOf(t) = {} /\ Answer(t).blocks = <<>>
    BY <1>1, <1>3, <1>4
  <2> QED BY <1>4, <2>1, NothingServed
<1>5. CASE /\ range.status = 206
           /\ range.start \in Nat /\ range.end \in Nat /\ range.start <= range.end
           /\ asked = range.start .. range.end
  <2> DEFINE a == range.start
             z == range.end
             count == Streamed(a, z - a + 1, t.actual)
  <2>1. a \in Nat /\ z \in Nat /\ a <= z /\ asked = a .. z /\ z - a + 1 \in Nat
    BY <1>5
  <2>2. Contiguous(Answer(t).blocks, a, a + count)
    <3>1. Answer(t).blocks = Audio!Stream(a, z - a + 1, t.block, t.actual)
      BY <1>1, <1>5
    <3> QED BY <2>1, <3>1, StreamIsContiguous
  <2> HIDE DEF a, z
  <2>3. count \in Nat /\ ServedOf(t) = a .. a + count - 1
    BY <1>3, <2>1 DEF Streamed, Audio!Least
  <2> HIDE DEF count
  <2>4. BytesOf(Answer(t).blocks) = Consecutive(a, a + count)
    BY <2>1, <2>2, <2>3, BlocksHold
  <2>5. BytesFrom(a .. a + count - 1) = Consecutive(a, a + count)
    BY <2>1, <2>3, IntervalBytes
  <2>6. asked # {}
    BY <2>1
  <2> QED BY <1>5, <2>3, <2>4, <2>5, <2>6
<1> QED BY <1>2, <1>4, <1>5

----------------------------------------------------------------------------
(* Stitching the parts of the audio.                                       *)

\* What the concatenation of the first sequences keeps, all of it has: G[i] are
\* the sequences that are fit after i of them.
LEMMA FlattenInduct ==
  ASSUME NEW S, NEW seqs \in Seq(Seq(S)), NEW G, <<>> \in G[0],
         \A i \in 1 .. Len(seqs) :
           \A s \in Seq(S) : s \in G[i - 1] => s \o seqs[i] \in G[i]
  PROVE  FlattenSeq(seqs) \in Seq(S) /\ FlattenSeq(seqs) \in G[Len(seqs)]
<1> DEFINE n == Len(seqs)
<1>1. n \in Nat /\ \A i \in 1 .. n : seqs[i] \in Seq(S)
  OBVIOUS
<1>2. CASE n = 0
  <2>1. seqs = <<>>
    BY <1>2
  <2>2. FlattenSeq(seqs) = seqs
    BY <1>2 DEF FlattenSeq
  <2>3. seqs \in Seq(S)
    BY <2>1
  <2>4. seqs \in G[n]
    BY <1>2, <2>1, Zenon
  <2> QED BY <2>2, <2>3, <2>4, Zenon
<1>3. CASE n # 0
  <2>1. seqs # <<>>
    BY <1>3
  <2>2. PICK f \in [1 .. n -> Seq(S)] :
          /\ FlattenSeq(seqs) = f[n]
          /\ f[1] = seqs[1]
          /\ \A i \in 2 .. n : f[i] = f[i - 1] \o seqs[i]
    BY <2>1, FlattenSeqDef, Zenon
  <2>3. /\ <<>> \in G[0]
        /\ \A i \in 1 .. n :
             \A s \in Seq(S) : s \in G[i - 1] => s \o seqs[i] \in G[i]
    OBVIOUS
  <2> HIDE DEF n
  <2> DEFINE T == {k \in Nat : k + 1 <= n => f[k + 1] \in G[k + 1]}
  <2>4. 0 \in T
    <3>1. 1 \in 1 .. n /\ 1 - 1 = 0 /\ 0 + 1 = 1
      BY <1>1, <1>3
    <3>2. <<>> \o seqs[1] = seqs[1] /\ <<>> \in Seq(S)
      BY <1>1, <3>1
    <3>3. <<>> \o seqs[1] \in G[1]
      BY <2>3, <3>1, <3>2, Zenon
    <3>4. f[1] \in G[1]
      BY <2>2, <3>2, <3>3, Zenon
    <3> QED BY <3>1, <3>4
  <2>5. ASSUME NEW k \in T PROVE k + 1 \in T
    <3> SUFFICES ASSUME k + 2 <= n PROVE f[k + 2] \in G[k + 2]
      OBVIOUS
    <3> DEFINE i == k + 2
    <3>1. /\ i \in 2 .. n /\ i \in 1 .. n /\ i - 1 \in 1 .. n
          /\ i - 1 = k + 1 /\ f[k + 1] \in G[k + 1]
      BY <1>1
    <3> HIDE DEF i
    <3>2. f[i - 1] \in Seq(S) /\ f[i - 1] \in G[i - 1]
      BY <2>2, <3>1
    <3>3. f[i] \in G[i]
      BY <2>2, <2>3, <3>1, <3>2, Zenon
    <3> QED BY <3>3 DEF i
  <2>6. T \in SUBSET Nat
    OBVIOUS
  <2> HIDE DEF T
  <2>7. T = Nat
    BY <2>4, <2>5, <2>6, Induct
  <2>8. n - 1 \in T /\ (n - 1) + 1 = n /\ n \in 1 .. n
    BY <1>1, <1>3, <2>7
  <2>9. f[n] \in Seq(S) /\ f[n] \in G[n]
    BY <2>2, <2>8 DEF T
  <2> QED BY <2>2, <2>9, Zenon DEF n
<1> QED BY <1>2, <1>3

StitchSegments == [speaker : {"unknown"}, start : Int, end : Int, text : Seq(Nat)]

\* In order, and each in the stretch of its part, as far as part n.
InStretches(s, n, d) ==
  /\ \A i \in 1 .. Len(s) - 1 : s[i].end <= s[i + 1].start
  /\ \A i \in 1 .. Len(s) :
       /\ (s[i].text[1] - 1) * d <= s[i].start
       /\ s[i].start <= s[i].end
       /\ s[i].end <= s[i].text[1] * d
       /\ s[i].end <= n * d

\* A part that begins where the ones before it end.
LEMMA StretchAdded ==
  ASSUME NEW s \in Seq(StitchSegments), NEW n \in Nat, NEW d \in Nat,
         InStretches(s, n, d),
         NEW p \in Seq(StitchSegments),
         \A j \in 1 .. Len(p) : /\ p[j].text[1] = n + 1
                                /\ n * d <= p[j].start
                                /\ p[j].start <= p[j].end
                                /\ p[j].end <= (n + 1) * d,
         \A j \in 1 .. Len(p) - 1 : p[j].end <= p[j + 1].start
  PROVE  InStretches(s \o p, n + 1, d)
<1> DEFINE c == s \o p
           a == Len(s)
           b == Len(p)
           x == n * d
           y == (n + 1) * d
<1>1. /\ a \in Nat /\ b \in Nat /\ Len(c) = a + b
      /\ \A i \in 1 .. a + b : c[i] = IF i <= a THEN s[i] ELSE p[i - a]
  <2>1. /\ Len(c) = Len(s) + Len(p)
        /\ \A i \in 1 .. Len(s) + Len(p) : c[i] = IF i <= Len(s) THEN s[i] ELSE p[i - Len(s)]
    BY ConcatProperties, Zenon
  <2> QED BY <2>1
<1>2. x \in Nat /\ y \in Nat /\ x <= y /\ ((n + 1) - 1) * d = x
  <2>1. n * d \in Nat /\ (n + 1) * d = n * d + d
    OBVIOUS
  <2>2. (n + 1) - 1 = n
    OBVIOUS
  <2> QED BY <2>1, <2>2
<1>3. ASSUME NEW i \in 1 .. a
      PROVE  /\ (s[i].text[1] - 1) * d <= s[i].start /\ s[i].start <= s[i].end
             /\ s[i].end <= s[i].text[1] * d /\ s[i].end <= x
             /\ s[i].start \in Int /\ s[i].end \in Int
  <2>1. s[i] \in StitchSegments
    OBVIOUS
  <2> QED BY <2>1 DEF InStretches, StitchSegments
<1>4. ASSUME NEW j \in 1 .. b
      PROVE  /\ p[j].text[1] = n + 1 /\ x <= p[j].start /\ p[j].start <= p[j].end
             /\ p[j].end <= y
             /\ p[j].start \in Int /\ p[j].end \in Int
  <2>1. p[j] \in StitchSegments
    OBVIOUS
  <2> QED BY <2>1 DEF StitchSegments
<1>5. \A i \in 1 .. a - 1 : s[i].end <= s[i + 1].start
  BY DEF InStretches
<1>6. \A j \in 1 .. b - 1 : p[j].end <= p[j + 1].start
  OBVIOUS
<1> HIDE DEF a, b, c, x, y
<1>7. ASSUME NEW i \in 1 .. a + b - 1 PROVE c[i].end <= c[i + 1].start
  <2>0. i \in 1 .. a + b /\ i + 1 \in 1 .. a + b
    BY <1>1
  <2>1. CASE i < a
    <3>1. c[i] = s[i] /\ c[i + 1] = s[i + 1] /\ i \in 1 .. a - 1
      BY <1>1, <2>0, <2>1
    <3> QED BY <1>5, <3>1
  <2>2. CASE i = a
    <3>1. i \in 1 .. a /\ 1 \in 1 .. b /\ c[i] = s[i] /\ c[i + 1] = p[1]
      <4>1. (i + 1) - a = 1 /\ ~ (i + 1 <= a) /\ i <= a /\ i \in 1 .. a /\ 1 \in 1 .. b
        BY <1>1, <2>2
      <4> QED BY <1>1, <2>0, <4>1, Zenon
    <3>2. s[i].end <= x /\ s[i].end \in Int /\ x <= p[1].start /\ p[1].start \in Int
      BY <1>3, <1>4, <3>1
    <3> QED BY <1>2, <3>1, <3>2
  <2>3. CASE i > a
    <3> DEFINE j == i - a
    <3>1. j \in 1 .. b - 1 /\ ~ (i <= a) /\ ~ (i + 1 <= a) /\ (i + 1) - a = j + 1
      BY <1>1, <2>3
    <3>2. c[i] = p[j] /\ c[i + 1] = p[(i + 1) - a]
      BY <1>1, <2>0, <3>1, Zenon
    <3> HIDE DEF j
    <3> QED BY <1>6, <3>1, <3>2
  <2> QED BY <1>1, <2>1, <2>2, <2>3
<1>8. ASSUME NEW i \in 1 .. a + b
      PROVE  /\ (c[i].text[1] - 1) * d <= c[i].start /\ c[i].start <= c[i].end
             /\ c[i].end <= c[i].text[1] * d /\ c[i].end <= y
  <2>1. CASE i <= a
    <3>1. i \in 1 .. a /\ c[i] = s[i]
      BY <1>1, <2>1
    <3>2. s[i].end <= y
      BY <1>2, <1>3, <3>1
    <3> QED BY <1>3, <3>1, <3>2
  <2>2. CASE ~ (i <= a)
    <3> DEFINE j == i - a
    <3>1. j \in 1 .. b /\ c[i] = p[j]
      BY <1>1, <2>2
    <3> HIDE DEF j
    <3>2. p[j].text[1] = n + 1 /\ (p[j].text[1] - 1) * d = x /\ p[j].text[1] * d = y
      BY <1>2, <1>4, <3>1 DEF y
    <3> QED BY <1>4, <3>1, <3>2
  <2> QED BY <1>1, <2>1, <2>2
<1> QED BY <1>1, <1>7, <1>8 DEF InStretches, c, y

\* Parts of the audio, their segments within the length of a part and in order,
\* stitch to segments in order.
FitParts(parts, d) ==
  /\ parts \in Seq(Seq(Nat \X Nat))
  /\ \A i \in 1 .. Len(parts) :
       /\ \A j \in 1 .. Len(parts[i]) :
            parts[i][j][1] <= parts[i][j][2] /\ parts[i][j][2] <= d
       /\ \A j \in 1 .. Len(parts[i]) - 1 : parts[i][j][2] <= parts[i][j + 1][1]

\* The modules flatten alike.
LEMMA SpeechFlattens == ASSUME NEW s PROVE Speech!FlattenSeq(s) = FlattenSeq(s)
BY DEF Speech!FlattenSeq, FlattenSeq

\* _transcribe_with_optional_chunking: the segments of the parts, stitched, stay in their stretches.
LEMMA StitchKeepsOrder ==
  ASSUME NEW t, NEW d \in Nat, FitParts(t.parts, d)
  PROVE  /\ Speech!Stitch(PartsOf(t), d) \in Seq(StitchSegments)
         /\ InStretches(Speech!Stitch(PartsOf(t), d), Len(t.parts), d)
<1> DEFINE parts == t.parts
           n == Len(parts)
           seg(i, j) == [speaker |-> "unknown",
                         start |-> parts[i][j][1] + (i - 1) * d,
                         end |-> parts[i][j][2] + (i - 1) * d,
                         text |-> <<i, j>>]
           part(i) == [j \in DOMAIN parts[i] |-> seg(i, j)]
           seqs == [i \in DOMAIN parts |-> part(i)]
<1>1. /\ n \in Nat /\ DOMAIN parts = 1 .. n
      /\ \A i \in 1 .. n : parts[i] \in Seq(Nat \X Nat) /\ DOMAIN parts[i] = 1 .. Len(parts[i])
  BY DEF FitParts
<1>2. Speech!Stitch(PartsOf(t), d) = FlattenSeq(seqs)
  <2>1. DOMAIN PartsOf(t) = DOMAIN parts
    BY DEF PartsOf
  <2>2. ASSUME NEW i \in DOMAIN parts
        PROVE  /\ DOMAIN PartsOf(t)[i] = DOMAIN parts[i]
               /\ \A j \in DOMAIN parts[i] :
                    PartsOf(t)[i][j] = Segment("unknown", parts[i][j], <<i, j>>)
    BY DEF PartsOf
  <2>3. ASSUME NEW i \in DOMAIN parts, NEW j \in DOMAIN parts[i]
        PROVE  [PartsOf(t)[i][j] EXCEPT !.start = @ + (i - 1) * d,
                                        !.end = @ + (i - 1) * d] = seg(i, j)
    <3> DEFINE z == PartsOf(t)[i][j]
               span == parts[i][j]
               text == <<i, j>>
               o == (i - 1) * d
               x == span[1] + o
               y == span[2] + o
    <3>1. z = [speaker |-> "unknown", start |-> span[1], end |-> span[2], text |-> text]
      BY <2>2 DEF Segment
    <3>2. z.start + o = x /\ z.end + o = y
      BY <3>1
    <3> HIDE DEF z, span, text, x, y
    <3>3. [z EXCEPT !.start = x, !.end = y]
            = [speaker |-> "unknown", start |-> x, end |-> y, text |-> text]
      <4>1. [z EXCEPT !.start = x, !.end = y] = [[z EXCEPT !.start = x] EXCEPT !.end = y]
        OBVIOUS
      <4>2. [z EXCEPT !.start = x]
              = [speaker |-> "unknown", start |-> x, end |-> span[2], text |-> text]
        BY <3>1
      <4>3. [[speaker |-> "unknown", start |-> x, end |-> span[2], text |-> text]
               EXCEPT !.end = y]
              = [speaker |-> "unknown", start |-> x, end |-> y, text |-> text]
        OBVIOUS
      <4> QED BY <4>1, <4>2, <4>3, Zenon
    <3>4. [z EXCEPT !.start = @ + o, !.end = @ + o] = [z EXCEPT !.start = x, !.end = y]
      BY <3>2, Zenon
    <3> QED BY <3>3, <3>4, Zenon DEF z, span, text, x, y
  <2>4. [i \in DOMAIN PartsOf(t) |->
           [j \in DOMAIN PartsOf(t)[i] |->
              [PartsOf(t)[i][j] EXCEPT !.start = @ + (i - 1) * d,
                                       !.end = @ + (i - 1) * d]]] = seqs
    <3> HIDE DEF seg, n
    <3> QED BY <2>1, <2>2, <2>3, Zenon
  <2> HIDE DEF seqs
  <2> QED BY <2>4, SpeechFlattens DEF Speech!Stitch
<1>3. ASSUME NEW i \in 1 .. n
      PROVE  /\ part(i) \in Seq(StitchSegments) /\ Len(part(i)) = Len(parts[i])
             /\ \A j \in 1 .. Len(parts[i]) : part(i)[j] = seg(i, j)
  <2> DEFINE m == Len(parts[i])
  <2>1. m \in Nat /\ DOMAIN parts[i] = 1 .. m /\ i \in Nat
        /\ \A j \in 1 .. m : parts[i][j] \in Nat \X Nat
    BY <1>1
  <2>2. ASSUME NEW j \in 1 .. m PROVE seg(i, j) \in StitchSegments
    <3>1. parts[i][j][1] \in Nat /\ parts[i][j][2] \in Nat /\ (i - 1) * d \in Int
      BY <2>1
    <3>2. <<i, j>> \in Seq(Nat)
      BY <2>1
    <3> QED BY <3>1, <3>2 DEF StitchSegments
  <2> HIDE DEF m, seg, n
  <2>3. part(i) \in [1 .. m -> StitchSegments]
    BY <2>1, <2>2
  <2>4. part(i) \in Seq(StitchSegments) /\ Len(part(i)) = m
    <3> HIDE DEF part
    <3> QED BY <2>1, <2>3, FunctionIsSeq
  <2>5. \A j \in 1 .. m : part(i)[j] = seg(i, j)
    BY <2>1
  <2> QED BY <2>4, <2>5 DEF m
<1>4. /\ seqs \in Seq(Seq(StitchSegments)) /\ Len(seqs) = n
      /\ \A i \in 1 .. n : seqs[i] = part(i)
  <2> HIDE DEF part, n
  <2>1. seqs \in [1 .. n -> Seq(StitchSegments)] /\ \A i \in 1 .. n : seqs[i] = part(i)
    BY <1>1, <1>3
  <2> HIDE DEF seqs
  <2> QED BY <1>1, <2>1, FunctionIsSeq
<1> DEFINE G == [i \in 0 .. n |-> {s \in Seq(StitchSegments) : InStretches(s, i, d)}]
<1>5. <<>> \in G[0]
  <2>1. InStretches(<<>>, 0, d)
    BY DEF InStretches
  <2> QED BY <1>1, <2>1
<1>6. ASSUME NEW i \in 1 .. n, NEW s \in Seq(StitchSegments), s \in G[i - 1]
      PROVE  s \o seqs[i] \in G[i]
  <2> DEFINE p == part(i)
             k == i - 1
             m == Len(parts[i])
  <2>1. /\ k \in Nat /\ k + 1 = i /\ k \in 0 .. n /\ i \in 0 .. n
        /\ p \in Seq(StitchSegments) /\ Len(p) = m /\ m \in Nat
        /\ \A j \in 1 .. m : p[j] = seg(i, j)
    BY <1>1, <1>3
  <2>2. InStretches(s, k, d)
    BY <1>6, <2>1
  <2>3. ASSUME NEW j \in 1 .. m
        PROVE  /\ p[j].text[1] = k + 1 /\ k * d <= p[j].start /\ p[j].start <= p[j].end
               /\ p[j].end <= (k + 1) * d
               /\ p[j].start = parts[i][j][1] + k * d /\ p[j].end = parts[i][j][2] + k * d
    <3>1. /\ parts[i][j][1] \in Nat /\ parts[i][j][2] \in Nat
          /\ parts[i][j][1] <= parts[i][j][2] /\ parts[i][j][2] <= d
      <4>1. parts[i][j] \in Nat \X Nat
        BY <1>1
      <4> QED BY <4>1 DEF FitParts
    <3> DEFINE o == k * d
               q == (k + 1) * d
               x == parts[i][j][1]
               y == parts[i][j][2]
    <3>2. o \in Nat /\ q = o + d /\ (i - 1) * d = o
      BY <2>1
    <3>3. /\ p[j].start = x + (i - 1) * d
          /\ p[j].end = y + (i - 1) * d
          /\ p[j].text = <<i, j>>
      BY <2>1
    <3>4. p[j].text[1] = k + 1
      <4>1. p[j].text[1] = i
        <5> HIDE DEF p
        <5> QED BY <3>3
      <4> QED BY <2>1, <4>1, Zenon
    <3> HIDE DEF o, p, k, n, m, parts, q, x, y
    <3>5. o <= p[j].start /\ p[j].start <= p[j].end /\ p[j].end <= q
          /\ p[j].start = x + o /\ p[j].end = y + o
      <4>1. x \in Nat /\ y \in Nat /\ x <= y /\ y <= d
        BY <3>1 DEF x, y
      <4>2. p[j].start = x + o /\ p[j].end = y + o
        BY <3>2, <3>3
      <4> QED BY <3>2, <4>1, <4>2
    <3> QED BY <3>4, <3>5 DEF o, q, x, y
  <2>4. ASSUME NEW j \in 1 .. m - 1 PROVE p[j].end <= p[j + 1].start
    <3>1. j \in 1 .. m /\ j + 1 \in 1 .. m
      BY <2>1
    <3>2. /\ parts[i][j][2] <= parts[i][j + 1][1]
          /\ parts[i][j][2] \in Nat /\ parts[i][j + 1][1] \in Nat
      <4>0. \A l \in 1 .. m : parts[i][l] \in Nat \X Nat
        BY <1>1
      <4>1. parts[i][j] \in Nat \X Nat /\ parts[i][j + 1] \in Nat \X Nat
        <5> HIDE DEF m, parts
        <5> QED BY <3>1, <4>0
      <4>2. parts[i][j][2] <= parts[i][j + 1][1]
        BY DEF FitParts
      <4> QED BY <4>1, <4>2
    <3> DEFINE o == k * d
    <3>3. o \in Nat
      BY <2>1
    <3>4. p[j].end = parts[i][j][2] + o /\ p[j + 1].start = parts[i][j + 1][1] + o
      BY <2>3, <3>1
    <3> DEFINE y == parts[i][j][2]
               x == parts[i][j + 1][1]
    <3>5. y \in Nat /\ x \in Nat /\ y <= x
      BY <3>2
    <3>6. p[j].end = y + o /\ p[j + 1].start = x + o
      BY <3>4
    <3> HIDE DEF o, p, x, y
    <3> QED BY <3>3, <3>5, <3>6
  <2> HIDE DEF p, k
  <2>5. InStretches(s \o p, k + 1, d)
    BY <2>1, <2>2, <2>3, <2>4, StretchAdded
  <2>6. s \o p \in Seq(StitchSegments)
    BY <2>1, ConcatProperties
  <2>7. s \o p \in G[i]
    <3> HIDE DEF n
    <3> QED BY <2>1, <2>5, <2>6
  <2>8. seqs[i] = p
    BY <1>4 DEF p
  <2> QED BY <2>7, <2>8, Zenon
<1> HIDE DEF seqs, G
<1>7. FlattenSeq(seqs) \in Seq(StitchSegments) /\ FlattenSeq(seqs) \in G[n]
  <2>1. /\ seqs \in Seq(Seq(StitchSegments)) /\ <<>> \in G[0]
        /\ \A i \in 1 .. Len(seqs) :
             \A s \in Seq(StitchSegments) : s \in G[i - 1] => s \o seqs[i] \in G[i]
    BY <1>4, <1>5, <1>6
  <2>2. Len(seqs) = n
    BY <1>4
  <2> QED BY <2>1, <2>2, FlattenInduct, Zenon
<1>8. InStretches(FlattenSeq(seqs), n, d)
  <2>1. n \in 0 .. n
    BY <1>1
  <2> QED BY <1>7, <2>1 DEF G
<1> QED BY <1>2, <1>7, <1>8

----------------------------------------------------------------------------
(* Grouping the segments of the export.                                    *)

\* A finite set of numbers has a last one.
LEMMA LastExists ==
  ASSUME NEW k \in Nat, NEW s \in SUBSET (1 .. k), s # {}
  PROVE  \E l \in s : \A y \in s : l >= y
<1> DEFINE T == {i \in Nat : \A r \in SUBSET (1 .. i) :
                               r # {} => \E l \in r : \A y \in r : l >= y}
<1>1. 0 \in T
  <2>1. \A r \in SUBSET (1 .. 0) : r = {}
    OBVIOUS
  <2> QED BY <2>1
<1>2. ASSUME NEW i \in T PROVE i + 1 \in T
  <2> SUFFICES ASSUME NEW r \in SUBSET (1 .. i + 1), r # {}
               PROVE  \E l \in r : \A y \in r : l >= y
    OBVIOUS
  <2>1. CASE i + 1 \in r
    <3>1. \A y \in r : i + 1 >= y
      OBVIOUS
    <3> QED BY <2>1, <3>1
  <2>2. CASE i + 1 \notin r
    <3>1. r \in SUBSET (1 .. i)
      BY <2>2
    <3> QED BY <3>1
  <2> QED BY <2>1, <2>2
<1>3. T \in SUBSET Nat
  OBVIOUS
<1> HIDE DEF T
<1>4. k \in T
  BY <1>1, <1>2, <1>3, Induct
<1> QED BY <1>4 DEF T

\* The last of a set of numbers.
LEMMA SpeechMax ==
  ASSUME NEW k \in Nat, NEW s \in SUBSET (1 .. k), k \in s
  PROVE  Speech!Max(s) = k
<1>1. k \in s /\ \A y \in s : k >= y
  OBVIOUS
<1> DEFINE m == CHOOSE x \in s : \A y \in s : x >= y
<1>2. m \in s /\ \A y \in s : m >= y
  BY <1>1, Zenon
<1> HIDE DEF m
<1>3. m = k
  BY <1>1, <1>2
<1> QED BY <1>3, Zenon DEF Speech!Max, m

LEMMA NoNumbers == 1 .. 0 = {}
OBVIOUS

\* A fold over 1 .. n that takes the last number first, as a function of the sets
\* of numbers.
FoldOf(f, n, base, step) ==
  /\ f[{}] = base
  /\ \A s \in SUBSET (1 .. n) : \A l \in s :
       (\A y \in s : l >= y) => f[s] = step[<<f[s \ {l}], l>>]

\* There is a function that obeys the definition of a fold.
LEMMA FoldExists ==
  ASSUME NEW V, NEW n \in Nat, NEW base \in V, NEW step \in [V \X (1 .. n) -> V]
  PROVE  \E f \in [SUBSET (1 .. n) -> V] : FoldOf(f, n, base, step)
<1> DEFINE P(k) == \E f \in [SUBSET (1 .. k) -> V] : FoldOf(f, k, base, step)
           T == {k \in Nat : k <= n => P(k)}
<1>1. 0 \in T
  <2> DEFINE f == [s \in SUBSET (1 .. 0) |-> base]
  <2>1. \A s \in SUBSET (1 .. 0) : s = {}
    BY NoNumbers, Zenon
  <2>2. f \in [SUBSET (1 .. 0) -> V] /\ f[{}] = base
    OBVIOUS
  <2> HIDE DEF f
  <2>3. FoldOf(f, 0, base, step)
    BY <2>1, <2>2 DEF FoldOf
  <2>4. P(0)
    BY <2>2, <2>3
  <2> HIDE DEF P
  <2> QED BY <2>4
<1>2. ASSUME NEW k \in T PROVE k + 1 \in T
  <2> DEFINE m == k + 1
  <2> HIDE DEF P
  <2> SUFFICES ASSUME m <= n PROVE P(m)
    OBVIOUS
  <2>1. /\ k \in Nat /\ m \in Nat /\ k < m /\ k <= n /\ m \in 1 .. n /\ m \notin 1 .. k
        /\ P(k)
    OBVIOUS
  <2>2. PICK f \in [SUBSET (1 .. k) -> V] : FoldOf(f, k, base, step)
    BY <2>1 DEF P
  <2> DEFINE h == [s \in SUBSET (1 .. m) |->
                     IF m \in s THEN step[<<f[s \ {m}], m>>] ELSE f[s]]
  <2>3. ASSUME NEW s \in SUBSET (1 .. m)
        PROVE  /\ s \ {m} \in SUBSET (1 .. k)
               /\ m \notin s => s \in SUBSET (1 .. k)
    OBVIOUS
  <2> HIDE DEF m
  <2>4. h \in [SUBSET (1 .. m) -> V]
    <3>1. ASSUME NEW s \in SUBSET (1 .. m)
          PROVE  (IF m \in s THEN step[<<f[s \ {m}], m>>] ELSE f[s]) \in V
      <4>1. CASE m \in s
        <5>1. f[s \ {m}] \in V
          BY <2>2, <2>3
        <5>2. <<f[s \ {m}], m>> \in V \X (1 .. n)
          BY <2>1, <5>1
        <5> QED BY <4>1, <5>2
      <4>2. CASE m \notin s
        BY <2>2, <2>3, <4>2
      <4> QED BY <4>1, <4>2
    <3> QED BY <3>1
  <2>5. ASSUME NEW s \in SUBSET (1 .. k) PROVE h[s] = f[s]
    <3>1. s \in SUBSET (1 .. m) /\ m \notin s
      BY <2>1
    <3> QED BY <3>1, Zenon
  <2>6. ASSUME NEW s \in SUBSET (1 .. m), m \in s
        PROVE  h[s] = step[<<f[s \ {m}], m>>]
    BY <2>6, Zenon
  <2> HIDE DEF h
  <2>7. h[{}] = base
    <3>1. {} \in SUBSET (1 .. k)
      OBVIOUS
    <3> QED BY <2>2, <2>5, <3>1, Zenon DEF FoldOf
  <2>8. ASSUME NEW s \in SUBSET (1 .. m), NEW l \in s, \A y \in s : l >= y
        PROVE  h[s] = step[<<h[s \ {l}], l>>]
    <3>1. CASE m \in s
      <4>1. l = m
        BY <2>1, <2>8, <3>1
      <4>2. h[s \ {m}] = f[s \ {m}]
        BY <2>3, <2>5
      <4> QED BY <2>6, <3>1, <4>1, <4>2, Zenon
    <3>2. CASE m \notin s
      <4>1. s \in SUBSET (1 .. k) /\ s \ {l} \in SUBSET (1 .. k)
        BY <2>3, <3>2
      <4>2. f[s] = step[<<f[s \ {l}], l>>]
        BY <2>2, <2>8, <4>1, Zenon DEF FoldOf
      <4> QED BY <2>5, <4>1, <4>2, Zenon
    <3> QED BY <3>1, <3>2
  <2>9. FoldOf(h, m, base, step)
    BY <2>7, <2>8, Zenon DEF FoldOf
  <2> QED BY <2>4, <2>9 DEF P
<1>3. T \in SUBSET Nat
  OBVIOUS
<1> HIDE DEF T, P
<1>4. n \in T
  BY <1>1, <1>2, <1>3, Induct
<1>5. P(n)
  BY <1>4 DEF T
<1> QED BY <1>5 DEF P

\* A sequence with another last element.
LEMMA LastReplaced ==
  ASSUME NEW S, NEW s \in Seq(S), s # <<>>, NEW x \in S
  PROVE  /\ Speech!Front(s) \o <<x>> \in Seq(S)
         /\ Len(Speech!Front(s) \o <<x>>) = Len(s)
         /\ \A i \in 1 .. Len(s) :
              (Speech!Front(s) \o <<x>>)[i] = IF i = Len(s) THEN x ELSE s[i]
<1> DEFINE n == Len(s)
           f == Speech!Front(s)
           c == f \o <<x>>
<1>1. n \in Nat /\ n > 0 /\ \A i \in 1 .. n : s[i] \in S
  OBVIOUS
<1>2. f \in Seq(S) /\ Len(f) = n - 1 /\ \A i \in 1 .. n - 1 : f[i] = s[i]
  <2>1. f = SubSeq(s, 1, n - 1)
    BY DEF Speech!Front
  <2> HIDE DEF f, n
  <2>2. /\ 1 \in Int /\ n - 1 \in Int /\ \A i \in 1 .. n - 1 : s[i] \in S
    BY <1>1
  <2>3. /\ f \in Seq(S)
        /\ Len(f) = IF 1 <= n - 1 THEN (n - 1) - 1 + 1 ELSE 0
        /\ \A i \in 1 .. (n - 1) - 1 + 1 : f[i] = s[1 + i - 1]
    BY <2>1, <2>2, SubSeqProperties
  <2> QED BY <1>1, <2>3
<1>3. <<x>> \in Seq(S) /\ Len(<<x>>) = 1 /\ <<x>>[1] = x
  OBVIOUS
<1> HIDE DEF f, n
<1>4. /\ c \in Seq(S) /\ Len(c) = n
      /\ \A i \in 1 .. n : c[i] = IF i <= n - 1 THEN f[i] ELSE <<x>>[i - (n - 1)]
  <2>1. /\ c \in Seq(S)
        /\ Len(c) = Len(f) + Len(<<x>>)
        /\ \A i \in 1 .. Len(f) + Len(<<x>>) :
             c[i] = IF i <= Len(f) THEN f[i] ELSE <<x>>[i - Len(f)]
    BY <1>2, <1>3, ConcatProperties
  <2>2. Len(f) + Len(<<x>>) = n
    BY <1>1, <1>2, <1>3
  <2> HIDE DEF c
  <2> QED BY <1>2, <2>1, <2>2, Zenon
<1> HIDE DEF c
<1>5. ASSUME NEW i \in 1 .. n PROVE c[i] = IF i = n THEN x ELSE s[i]
  <2>1. CASE i = n
    <3>1. i - (n - 1) = 1 /\ ~ (i <= n - 1)
      BY <1>1, <2>1
    <3> QED BY <1>3, <1>4, <2>1, <3>1, Zenon
  <2>2. CASE i # n
    <3>1. i <= n - 1 /\ i \in 1 .. n - 1
      BY <1>1, <2>2
    <3> QED BY <1>2, <1>4, <2>2, <3>1, Zenon
  <2> QED BY <2>1, <2>2
<1> QED BY <1>4, <1>5 DEF c, f, n

Turn == [speaker : Speakers, start : Int, end : Int, text : Seq(Nat)]

\* Two segments that follow each other in one paragraph.
Joined(turns, gap, i) ==
  /\ turns[i].speaker = turns[i + 1].speaker
  /\ turns[i + 1].start - turns[i].end < gap

FirstOf(p) == p.text[1]
NextOf(p) == p.text[1] + Len(p.text)

\* A paragraph of the segments from its first one to before the next.
Paragraph(p, turns, gap) ==
  /\ FirstOf(p) \in Nat \ {0} /\ NextOf(p) \in Nat /\ FirstOf(p) < NextOf(p)
  /\ p.text = Consecutive(FirstOf(p), NextOf(p))
  /\ p.speaker = turns[NextOf(p) - 1].speaker
  /\ p.start = turns[FirstOf(p)].start
  /\ p.end = turns[NextOf(p) - 1].end
  /\ \A i \in FirstOf(p) .. NextOf(p) - 2 : Joined(turns, gap, i)

\* The first k segments in paragraphs that could not be longer.
Paragraphs(out, turns, gap, k) ==
  /\ out \in Seq(Turn)
  /\ k = 0 => out = <<>>
  /\ k # 0 => out # <<>> /\ FirstOf(out[1]) = 1 /\ NextOf(out[Len(out)]) = k + 1
  /\ \A i \in 1 .. Len(out) : Paragraph(out[i], turns, gap)
  /\ \A i \in 2 .. Len(out) :
       /\ FirstOf(out[i]) = NextOf(out[i - 1])
       /\ ~Joined(turns, gap, NextOf(out[i - 1]) - 1)

\* A segment alone.
LEMMA OneSegment ==
  ASSUME NEW turns, NEW gap, NEW k \in Nat, turns[k + 1] \in Turn,
         turns[k + 1].text = <<k + 1>>
  PROVE  /\ Paragraph(turns[k + 1], turns, gap)
         /\ FirstOf(turns[k + 1]) = k + 1 /\ NextOf(turns[k + 1]) = k + 2
<1> DEFINE p == turns[k + 1]
<1>1. FirstOf(p) = k + 1 /\ NextOf(p) = k + 2
  BY DEF FirstOf, NextOf
<1>2. Consecutive(k + 1, k + 2) = <<k + 1>>
  <2>1. (k + 2) - (k + 1) = 1
    OBVIOUS
  <2>2. Consecutive(k + 1, k + 2) = [i \in 1 .. 1 |-> (k + 1) + i - 1]
    BY <2>1 DEF Consecutive
  <2>3. [i \in 1 .. 1 |-> (k + 1) + i - 1] = <<k + 1>>
    OBVIOUS
  <2> QED BY <2>2, <2>3
<1>3. (k + 2) - 1 = k + 1 /\ (k + 1) .. (k + 2) - 2 = {} /\ k + 1 < k + 2
      /\ k + 1 \in Nat \ {0} /\ k + 2 \in Nat
  OBVIOUS
<1> QED BY <1>1, <1>2, <1>3 DEF Paragraph

\* The next segment begins a paragraph, or goes on with the last one.
LEMMA SegmentMerged ==
  ASSUME NEW out, NEW turns, NEW gap, NEW k \in Nat, Paragraphs(out, turns, gap, k),
         k # 0 => turns[k] \in Turn,
         turns[k + 1] \in Turn, turns[k + 1].text = <<k + 1>>
  PROVE  Paragraphs(Speech!Merge(out, turns[k + 1], gap), turns, gap, k + 1)
<1> DEFINE seg == turns[k + 1]
           n == Len(out)
           last == out[n]
           q == [last EXCEPT !.end = seg.end, !.text = @ \o seg.text]
           c == Speech!Merge(out, seg, gap)
<1>1. /\ out \in Seq(Turn) /\ n \in Nat
      /\ k = 0 => out = <<>>
      /\ k # 0 => out # <<>> /\ FirstOf(out[1]) = 1 /\ NextOf(last) = k + 1
      /\ \A i \in 1 .. n : out[i] \in Turn /\ Paragraph(out[i], turns, gap)
      /\ \A i \in 2 .. n : /\ FirstOf(out[i]) = NextOf(out[i - 1])
                           /\ ~Joined(turns, gap, NextOf(out[i - 1]) - 1)
  BY DEF Paragraphs
<1>2. /\ Paragraph(seg, turns, gap) /\ FirstOf(seg) = k + 1 /\ NextOf(seg) = k + 2
      /\ seg \in Turn
  BY OneSegment
<1>3. c = IF out # <<>> /\ last.speaker = seg.speaker /\ seg.start - last.end < gap
          THEN Speech!Front(out) \o <<q>> ELSE Append(out, seg)
  BY DEF Speech!Merge
<1>4. out # <<>> => n \in 1 .. n /\ n > 0 /\ k # 0
  BY <1>1
<1>5. out # <<>> =>
        ((last.speaker = seg.speaker /\ seg.start - last.end < gap) <=> Joined(turns, gap, k))
  <2> SUFFICES ASSUME out # <<>>
               PROVE  (last.speaker = seg.speaker /\ seg.start - last.end < gap)
                        <=> Joined(turns, gap, k)
    OBVIOUS
  <2>1. Paragraph(last, turns, gap) /\ NextOf(last) - 1 = k
    BY <1>1, <1>4
  <2>2. last.speaker = turns[k].speaker /\ last.end = turns[k].end
    BY <2>1 DEF Paragraph
  <2> QED BY <2>2 DEF Joined
<1> HIDE DEF seg, n, last, q, c
<1>6. CASE out # <<>> /\ Joined(turns, gap, k)
  <2>1. c = Speech!Front(out) \o <<q>>
    BY <1>3, <1>5, <1>6, Zenon
  <2> DEFINE a == FirstOf(last)
  <2>2. /\ last \in Turn /\ a \in Nat \ {0} /\ NextOf(last) = k + 1 /\ a < k + 1
        /\ last.text = Consecutive(a, k + 1) /\ last.start = turns[a].start
        /\ \A i \in a .. (k + 1) - 2 : Joined(turns, gap, i)
        /\ last.speaker = turns[k].speaker
    <3>1. last \in Turn /\ Paragraph(last, turns, gap) /\ NextOf(last) = k + 1
      BY <1>1, <1>4, <1>6 DEF last
    <3>2. (k + 1) - 1 = k
      OBVIOUS
    <3> QED BY <3>1, <3>2 DEF Paragraph
  <2>3. seg.text = Consecutive(k + 1, k + 2)
    BY <1>2 DEF Paragraph
  <2> HIDE DEF a
  <2>4. last.text \o seg.text = Consecutive(a, k + 2)
    <3>1. k + 1 \in Nat /\ k + 2 \in Nat /\ a \in Nat /\ a <= k + 1 /\ k + 1 <= k + 2
      BY <2>2
    <3>2. Consecutive(a, k + 1) \o Consecutive(k + 1, k + 2) = Consecutive(a, k + 2)
      BY <3>1, ConsecutiveCat
    <3> QED BY <2>2, <2>3, <3>2, Zenon
  <2>5. /\ q \in Turn /\ q.speaker = last.speaker /\ q.start = last.start
        /\ q.end = seg.end /\ q.text = Consecutive(a, k + 2)
    <3> DEFINE e == seg.end
               t == last.text \o seg.text
    <3>1. e \in Int /\ t \in Seq(Nat)
      <4>1. last.text \in Seq(Nat) /\ seg.text \in Seq(Nat) /\ seg.end \in Int
        BY <1>2, <2>2 DEF Turn
      <4> QED BY <4>1, ConcatProperties
    <3>2. q = [last EXCEPT !.end = e, !.text = t]
      BY DEF q
    <3> HIDE DEF e, t
    <3>3. /\ q \in Turn /\ q.speaker = last.speaker /\ q.start = last.start
          /\ q.end = e /\ q.text = t
      BY <2>2, <3>1, <3>2 DEF Turn
    <3> QED BY <2>4, <3>3, Zenon DEF e, t
  <2>6. FirstOf(q) = a /\ NextOf(q) = k + 2
    <3>1. /\ Consecutive(a, k + 2) = [i \in 1 .. (k + 2) - a |-> a + i - 1]
          /\ (k + 2) - a \in Nat /\ (k + 2) - a >= 1
      BY <2>2 DEF Consecutive
    <3>2. Consecutive(a, k + 2)[1] = a /\ Len(Consecutive(a, k + 2)) = (k + 2) - a
      <4> DEFINE m == (k + 2) - a
      <4> HIDE DEF m
      <4>1. 1 \in 1 .. m /\ a + 1 - 1 = a /\ [i \in 1 .. m |-> a + i - 1] \in [1 .. m -> Int]
        BY <2>2, <3>1 DEF m
      <4>2. Len([i \in 1 .. m |-> a + i - 1]) = m
        BY <3>1, <4>1, FunctionIsSeq DEF m
      <4> QED BY <3>1, <4>1, <4>2 DEF m
    <3> QED BY <2>2, <2>5, <3>2 DEF FirstOf, NextOf
  <2>7. Paragraph(q, turns, gap)
    <3>1. /\ a \in Nat \ {0} /\ k + 2 \in Nat /\ a < k + 2 /\ (k + 2) - 1 = k + 1
          /\ a .. (k + 2) - 2 = (a .. (k + 1) - 2) \cup {k}
      BY <2>2
    <3>2. q.speaker = turns[k + 1].speaker
      BY <1>6, <2>2, <2>5 DEF Joined
    <3>3. q.end = turns[k + 1].end
      BY <2>5 DEF seg
    <3>4. \A i \in a .. (k + 2) - 2 : Joined(turns, gap, i)
      BY <1>6, <2>2, <3>1
    <3> QED BY <2>2, <2>5, <2>6, <3>1, <3>2, <3>3, <3>4, Zenon DEF Paragraph
  <2>8. /\ c \in Seq(Turn) /\ Len(c) = n
        /\ \A i \in 1 .. n : c[i] = IF i = n THEN q ELSE out[i]
    BY <1>1, <1>6, <2>1, <2>5, LastReplaced DEF n
  <2>9. /\ n \in Nat /\ n > 0 /\ n \in 1 .. n /\ 1 \in 1 .. n
    BY <1>1, <1>4, <1>6
  <2> HIDE DEF c
  <2>10. \A i \in 1 .. n : FirstOf(c[i]) = FirstOf(out[i]) /\ (i # n => NextOf(c[i]) = NextOf(out[i]))
    <3> SUFFICES ASSUME NEW i \in 1 .. n
                 PROVE  FirstOf(c[i]) = FirstOf(out[i]) /\ (i # n => NextOf(c[i]) = NextOf(out[i]))
      OBVIOUS
    <3>1. CASE i = n
      BY <2>6, <2>8, <3>1 DEF a, last
    <3>2. CASE i # n
      BY <2>8, <3>2
    <3> QED BY <3>1, <3>2
  <2>11. ASSUME NEW i \in 1 .. n PROVE Paragraph(c[i], turns, gap)
    BY <1>1, <2>7, <2>8
  <2>12. ASSUME NEW i \in 2 .. n
         PROVE  /\ FirstOf(c[i]) = NextOf(c[i - 1])
                /\ ~Joined(turns, gap, NextOf(c[i - 1]) - 1)
    <3>1. i \in 1 .. n /\ i - 1 \in 1 .. n /\ i - 1 # n
      BY <2>9
    <3>2. FirstOf(c[i]) = FirstOf(out[i]) /\ NextOf(c[i - 1]) = NextOf(out[i - 1])
      BY <2>10, <3>1
    <3> QED BY <1>1, <3>2, Zenon
  <2>13. FirstOf(c[1]) = 1 /\ NextOf(c[Len(c)]) = (k + 1) + 1
    <3>1. FirstOf(out[1]) = 1
      BY <1>1, <1>4, <1>6
    <3>2. FirstOf(c[1]) = FirstOf(out[1])
      BY <2>9, <2>10
    <3>3. c[Len(c)] = q /\ k + 2 = (k + 1) + 1
      BY <2>8, <2>9
    <3> QED BY <2>6, <3>1, <3>2, <3>3
  <2>14. c # <<>> /\ k + 1 # 0
    BY <2>8, <2>9
  <2> QED BY <2>8, <2>11, <2>12, <2>13, <2>14 DEF Paragraphs, c, seg
<1>7. CASE ~ (out # <<>> /\ Joined(turns, gap, k))
  <2>1. c = Append(out, seg)
    BY <1>3, <1>5, <1>7, Zenon
  <2>2. /\ c \in Seq(Turn) /\ c # <<>> /\ Len(c) = n + 1
        /\ \A i \in 1 .. n + 1 : c[i] = IF i = n + 1 THEN seg ELSE out[i]
    BY <1>1, <1>2, <2>1, AppendProperties DEF n
  <2> HIDE DEF c
  <2>3. ASSUME NEW i \in 1 .. n + 1 PROVE Paragraph(c[i], turns, gap)
    BY <1>1, <1>2, <2>2
  <2>4. ASSUME NEW i \in 2 .. n + 1
        PROVE  /\ FirstOf(c[i]) = NextOf(c[i - 1])
               /\ ~Joined(turns, gap, NextOf(c[i - 1]) - 1)
    <3>1. CASE i = n + 1
      <4>1. n \in 1 .. n + 1 /\ n # n + 1 /\ i - 1 = n /\ i \in 1 .. n + 1
        BY <1>1, <3>1
      <4>2. out # <<>>
        BY <1>1, <4>1 DEF n
      <4>3. c[i] = seg /\ c[i - 1] = last
        BY <2>2, <3>1, <4>1 DEF last
      <4>4. NextOf(last) = k + 1 /\ (k + 1) - 1 = k
        BY <1>1, <1>4, <4>2
      <4> QED BY <1>2, <1>7, <4>2, <4>3, <4>4
    <3>2. CASE i # n + 1
      <4>1. i \in 2 .. n /\ i \in 1 .. n + 1 /\ i - 1 \in 1 .. n + 1 /\ i - 1 # n + 1
        BY <1>1, <3>2
      <4>2. c[i] = out[i] /\ c[i - 1] = out[i - 1]
        BY <2>2, <3>2, <4>1
      <4> QED BY <1>1, <4>1, <4>2
    <3> QED BY <3>1, <3>2
  <2>5. FirstOf(c[1]) = 1
    <3>1. CASE out = <<>>
      <4>1. k = 0 /\ n = 0
        BY <1>1, <3>1 DEF n
      <4>2. c[1] = seg
        BY <2>2, <4>1
      <4> QED BY <1>2, <4>1, <4>2
    <3>2. CASE out # <<>>
      <4>1. 1 \in 1 .. n + 1 /\ 1 # n + 1 /\ FirstOf(out[1]) = 1
        BY <1>1, <1>4, <3>2
      <4> QED BY <2>2, <4>1
    <3> QED BY <3>1, <3>2
  <2>6. NextOf(c[Len(c)]) = (k + 1) + 1
    <3>1. c[Len(c)] = seg /\ k + 2 = (k + 1) + 1
      BY <1>1, <2>2
    <3> QED BY <1>2, <3>1
  <2>7. k + 1 # 0
    OBVIOUS
  <2> QED BY <2>2, <2>3, <2>4, <2>5, <2>6, <2>7 DEF Paragraphs, c, seg
<1> QED BY <1>6, <1>7

\* The fold of the export takes the segments one by one, from the first.
Merges(g, turns, n, gap) ==
  g[0] = <<>> /\ \A i \in 1 .. n : g[i] = Speech!Merge(g[i - 1], turns[i], gap)

\* Merged segments are segments.
LEMMA MergeType ==
  ASSUME NEW out \in Seq(Turn), NEW seg \in Turn, NEW gap
  PROVE  Speech!Merge(out, seg, gap) \in Seq(Turn)
<1> DEFINE last == out[Len(out)]
           e == seg.end
           t == last.text \o seg.text
           q == [last EXCEPT !.end = e, !.text = t]
<1>1. Append(out, seg) \in Seq(Turn)
  OBVIOUS
<1>2. CASE out # <<>>
  <2>1. last \in Turn /\ e \in Int /\ t \in Seq(Nat)
    <3>1. last \in Turn
      BY <1>2
    <3>2. last.text \in Seq(Nat) /\ seg.text \in Seq(Nat) /\ seg.end \in Int
      BY <3>1 DEF Turn
    <3> QED BY <3>1, <3>2, ConcatProperties
  <2> HIDE DEF last, e, t
  <2>2. q \in Turn
    BY <2>1 DEF Turn
  <2> HIDE DEF q
  <2>3. Speech!Front(out) \o <<q>> \in Seq(Turn)
    BY <1>2, <2>2, LastReplaced
  <2>4. \/ Speech!Merge(out, seg, gap) = Speech!Front(out) \o <<q>>
        \/ Speech!Merge(out, seg, gap) = Append(out, seg)
    BY DEF Speech!Merge, q, last, e, t
  <2> QED BY <1>1, <2>3, <2>4
<1>3. CASE out = <<>>
  <2>1. Speech!Merge(out, seg, gap) = Append(out, seg)
    BY <1>3 DEF Speech!Merge
  <2> QED BY <1>1, <2>1
<1> QED BY <1>2, <1>3

LEMMA GroupUnfolds ==
  ASSUME NEW turns \in Seq(Turn), NEW gap
  PROVE  \E g : /\ Merges(g, turns, Len(turns), gap)
                /\ Speech!GroupSegments(turns, gap) = g[Len(turns)]
<1> DEFINE n == Len(turns)
           V == Seq(Turn)
           val(f, s) == IF s = {} THEN <<>>
                        ELSE Speech!Merge(f[s \ {Speech!Max(s)}], turns[Speech!Max(s)], gap)
           D(f) == [s \in SUBSET (1 .. n) |-> val(f, s)]
           iter == CHOOSE f : f = D(f)
           step == [x \in V \X (1 .. n) |-> Speech!Merge(x[1], turns[x[2]], gap)]
<1>1. n \in Nat /\ DOMAIN turns = 1 .. n /\ \A i \in 1 .. n : turns[i] \in Turn
  OBVIOUS
<1>2. Speech!GroupSegments(turns, gap) = iter[1 .. n]
  BY <1>1 DEF Speech!GroupSegments, Speech!FoldLeft, Speech!MapThenFoldSet
<1>3. <<>> \in V /\ step \in [V \X (1 .. n) -> V]
  <2>1. ASSUME NEW x \in V \X (1 .. n) PROVE Speech!Merge(x[1], turns[x[2]], gap) \in V
    <3>1. x[1] \in Seq(Turn) /\ turns[x[2]] \in Turn
      BY <1>1
    <3> QED BY <3>1, MergeType
  <2> QED BY <2>1
<1>4. \A v \in V : \A i \in 1 .. n : step[<<v, i>>] = Speech!Merge(v, turns[i], gap)
  OBVIOUS
<1> HIDE DEF n, V, step
<1>5. PICK f \in [SUBSET (1 .. n) -> V] : FoldOf(f, n, <<>>, step)
  BY <1>1, <1>3, FoldExists
<1>6. ASSUME NEW s \in SUBSET (1 .. n) PROVE f[s] = val(f, s)
  <2>1. CASE s = {}
    BY <1>5, <2>1 DEF FoldOf
  <2>2. CASE s # {}
    <3>1. PICK l \in s : \A y \in s : l >= y
      BY <1>1, <2>2, LastExists
    <3>2. l \in Nat /\ l \in 1 .. n /\ s \in SUBSET (1 .. l) /\ s \ {l} \in SUBSET (1 .. n)
      BY <1>1, <3>1
    <3>3. Speech!Max(s) = l
      BY <3>1, <3>2, SpeechMax
    <3>4. f[s] = step[<<f[s \ {l}], l>>] /\ f[s \ {l}] \in V
      BY <1>5, <3>1, <3>2 DEF FoldOf
    <3>5. f[s] = Speech!Merge(f[s \ {l}], turns[l], gap)
      BY <1>4, <3>2, <3>4
    <3> QED BY <2>2, <3>3, <3>5, Zenon
  <2> QED BY <2>1, <2>2
<1>7. f = D(f)
  <2>1. f = [s \in SUBSET (1 .. n) |-> f[s]]
    BY <1>5, Zenon
  <2> HIDE DEF val
  <2> QED BY <1>6, <2>1, Zenon
<1>8. iter = D(iter)
  <2> HIDE DEF D
  <2> QED BY <1>7, Zenon
<1> HIDE DEF iter
<1>9. \A s \in SUBSET (1 .. n) : iter[s] = val(iter, s)
  <2> HIDE DEF val
  <2> QED BY <1>8, Zenon
<1> DEFINE g == [i \in 0 .. n |-> iter[1 .. i]]
<1>10. g[0] = <<>>
  <2>1. 1 .. 0 = {} /\ 0 \in 0 .. n /\ {} \in SUBSET (1 .. n)
    BY <1>1
  <2>2. iter[{}] = <<>>
    BY <1>9, <2>1, Zenon
  <2> QED BY <2>1, <2>2, Zenon
<1>11. ASSUME NEW i \in 1 .. n PROVE g[i] = Speech!Merge(g[i - 1], turns[i], gap)
  <2>1. i \in 0 .. n /\ i - 1 \in 0 .. n /\ 1 .. i # {} /\ 1 .. i \in SUBSET (1 .. n)
    <3>1. i \in 0 .. n /\ i - 1 \in 0 .. n /\ i \in 1 .. i
      BY <1>1
    <3>2. 1 .. i \in SUBSET (1 .. n)
      BY <1>1
    <3> QED BY <3>1, <3>2, Zenon
  <2>2. Speech!Max(1 .. i) = i
    <3>1. i \in Nat /\ 1 .. i \in SUBSET (1 .. i) /\ i \in 1 .. i
      BY <1>1
    <3> QED BY <3>1, SpeechMax
  <2>3. (1 .. i) \ {i} = 1 .. (i - 1)
    BY <1>1
  <2>4. iter[1 .. i] = Speech!Merge(iter[1 .. (i - 1)], turns[i], gap)
    BY <1>9, <2>1, <2>2, <2>3, Zenon
  <2> QED BY <2>1, <2>4, Zenon
<1>12. g[n] = iter[1 .. n]
  <2>1. n \in 0 .. n
    BY <1>1
  <2> QED BY <2>1, Zenon
<1> HIDE DEF g
<1>13. Merges(g, turns, n, gap)
  BY <1>10, <1>11 DEF Merges
<1> QED BY <1>2, <1>12, <1>13, Zenon DEF n

\* All segments are grouped.
LEMMA SegmentsGrouped ==
  ASSUME NEW turns \in Seq(Turn), NEW gap, \A i \in 1 .. Len(turns) : turns[i].text = <<i>>
  PROVE  Paragraphs(Speech!GroupSegments(turns, gap), turns, gap, Len(turns))
<1> DEFINE n == Len(turns)
<1>1. n \in Nat /\ DOMAIN turns = 1 .. n /\ \A i \in 1 .. n : turns[i] \in Turn
  OBVIOUS
<1>2. PICK g : Merges(g, turns, n, gap) /\ Speech!GroupSegments(turns, gap) = g[n]
  BY GroupUnfolds
<1>3. \A i \in 1 .. n : turns[i].text = <<i>>
  OBVIOUS
<1> HIDE DEF n
<1> DEFINE T == {k \in Nat : k <= n => Paragraphs(g[k], turns, gap, k)}
<1>4. 0 \in T
  <2>1. g[0] = <<>>
    BY <1>2 DEF Merges
  <2>2. Paragraphs(<<>>, turns, gap, 0)
    BY DEF Paragraphs
  <2> QED BY <2>1, <2>2
<1>5. ASSUME NEW k \in T PROVE k + 1 \in T
  <2> SUFFICES ASSUME k + 1 <= n PROVE Paragraphs(g[k + 1], turns, gap, k + 1)
    OBVIOUS
  <2>1. k \in Nat /\ k + 1 \in 1 .. n /\ (k + 1) - 1 = k /\ Paragraphs(g[k], turns, gap, k)
        /\ (k # 0 => k \in 1 .. n)
    BY <1>1
  <2>2. g[k + 1] = Speech!Merge(g[k], turns[k + 1], gap)
    BY <1>2, <2>1 DEF Merges
  <2>3. turns[k + 1] \in Turn /\ turns[k + 1].text = <<k + 1>> /\ (k # 0 => turns[k] \in Turn)
    BY <1>1, <1>3, <2>1
  <2> QED BY <2>1, <2>2, <2>3, SegmentMerged
<1>6. T \in SUBSET Nat
  OBVIOUS
<1> HIDE DEF T
<1>7. n \in T
  BY <1>1, <1>4, <1>5, <1>6, Induct
<1> QED BY <1>1, <1>2, <1>7 DEF T, n

\* The texts of the paragraphs, one after the other, are those of the segments.
LEMMA TextsInOrder ==
  ASSUME NEW out, NEW turns, NEW gap, NEW k \in Nat, Paragraphs(out, turns, gap, k)
  PROVE  FlattenSeq([i \in DOMAIN out |-> out[i].text]) = [i \in 1 .. k |-> i]
<1> DEFINE n == Len(out)
           blocks == [i \in DOMAIN out |-> <<FirstOf(out[i]), Len(out[i].text)>>]
<1>1. /\ n \in Nat /\ DOMAIN out = 1 .. n
      /\ k = 0 => out = <<>>
      /\ k # 0 => out # <<>> /\ FirstOf(out[1]) = 1 /\ NextOf(out[n]) = k + 1
      /\ \A i \in 1 .. n : out[i] \in Turn /\ Paragraph(out[i], turns, gap)
      /\ \A i \in 2 .. n : FirstOf(out[i]) = NextOf(out[i - 1])
  BY DEF Paragraphs
<1>2. ASSUME NEW i \in 1 .. n
      PROVE  /\ FirstOf(out[i]) \in Nat /\ Len(out[i].text) \in Nat \ {0}
             /\ NextOf(out[i]) = FirstOf(out[i]) + Len(out[i].text)
             /\ out[i].text = [j \in 1 .. Len(out[i].text) |-> FirstOf(out[i]) + j - 1]
  <2> DEFINE p == out[i]
             a == FirstOf(p)
             b == NextOf(p)
             m == Len(p.text)
  <2>1. p \in Turn /\ a \in Nat \ {0} /\ b \in Nat /\ a < b /\ p.text = Consecutive(a, b)
    BY <1>1 DEF Paragraph
  <2>2. p.text \in Seq(Nat) /\ b = a + m
    BY <2>1 DEF Turn, FirstOf, NextOf
  <2>3. m \in Nat
    BY <2>2
  <2> HIDE DEF a, b, m, p
  <2>4. m \in Nat \ {0} /\ b - a = m
    BY <2>1, <2>2, <2>3
  <2> QED BY <2>1, <2>2, <2>4 DEF Consecutive, a, b, m, p
<1>3. blocks = [i \in 1 .. n |-> blocks[i]] /\ DOMAIN blocks = 1 .. n
      /\ \A i \in 1 .. n : blocks[i][1] = FirstOf(out[i]) /\ blocks[i][2] = Len(out[i].text)
                           /\ blocks[i] \in Nat \X (Nat \ {0})
  BY <1>1, <1>2
<1> HIDE DEF blocks, n
<1>4. blocks \in Seq(Nat \X (Nat \ {0})) /\ Len(blocks) = n
  <2>1. blocks \in [1 .. n -> Nat \X (Nat \ {0})]
    BY <1>3
  <2> QED BY <1>1, <2>1, FunctionIsSeq
<1>5. Contiguous(blocks, 1, k + 1)
  <2>1. CASE k = 0
    <3>1. n = 0
      BY <1>1, <2>1 DEF n
    <3>2. blocks = <<>>
      BY <1>4, <3>1
    <3> QED BY <1>4, <2>1, <3>2 DEF Contiguous
  <2>2. CASE k # 0
    <3>1. n > 0 /\ 1 \in 1 .. n /\ n \in 1 .. n
      BY <1>1, <2>2 DEF n
    <3>2. blocks # <<>>
      BY <1>4, <3>1
    <3>3. blocks[1][1] = 1 /\ blocks[n][1] + blocks[n][2] = k + 1
      BY <1>1, <1>2, <1>3, <2>2, <3>1
    <3>4. ASSUME NEW i \in 2 .. n
          PROVE  blocks[i][1] = blocks[i - 1][1] + blocks[i - 1][2]
      <4>1. i \in 1 .. n /\ i - 1 \in 1 .. n
        BY <1>1
      <4> QED BY <1>1, <1>2, <1>3, <4>1
    <3> QED BY <1>4, <3>2, <3>3, <3>4 DEF Contiguous
  <2> QED BY <2>1, <2>2
<1>6. BytesOf(blocks) = Consecutive(1, k + 1)
  <2>1. 1 \in Nat
    OBVIOUS
  <2> QED BY <1>5, <2>1, BlocksHold
<1>7. [i \in DOMAIN blocks |-> [j \in 1 .. blocks[i][2] |-> blocks[i][1] + j - 1]]
        = [i \in DOMAIN out |-> out[i].text]
  BY <1>1, <1>2, <1>3
<1>8. Consecutive(1, k + 1) = [i \in 1 .. k |-> i]
  <2>1. (k + 1) - 1 = k /\ \A i \in 1 .. k : 1 + i - 1 = i
    OBVIOUS
  <2> QED BY <2>1 DEF Consecutive
<1> QED BY <1>6, <1>7, <1>8 DEF BytesOf

----------------------------------------------------------------------------
(* One run on an input.                                                    *)

Tasks == ChunkTasks \cup RangeTasks \cup StitchTasks \cup GroupTasks
         \cup ReplyTasks \cup CardTasks

RunInv == task \in Tasks /\ (result = NotRun \/ result = Run(task))

\* The result is that of the run on the input.
LEMMA RunHolds == Spec => []RunInv
<1>1. Init => RunInv
  BY DEF Init, RunInv, Tasks
<1>2. RunInv /\ [Next]_vars => RunInv'
  <2> SUFFICES ASSUME RunInv, [Next]_vars PROVE RunInv'
    OBVIOUS
  <2>1. task' = task /\ (result' = result \/ result' = Run(task))
    BY DEF Next, vars
  <2>2. Run(task') = Run(task)
    BY <2>1
  <2> QED BY <2>1, <2>2 DEF RunInv
<1> QED BY <1>1, <1>2, PTL DEF Spec

\* GET .../audio with a Range header: the bytes asked, as many as the file has.
THEOREM RangesAreServed == Spec => []RangeServesWhatWasAsked
<1>1. RunInv => RangeServesWhatWasAsked
  <2> SUFFICES ASSUME RunInv, Done("range") PROVE RangeServesWhatWasAsked
    BY DEF RangeServesWhatWasAsked
  <2>1. task \in RangeTasks
    BY DEF RunInv, Done, Tasks, ChunkTasks, StitchTasks, GroupTasks, ReplyTasks, CardTasks
  <2>2. result = Answer(task)
    BY DEF RunInv, Done, Run
  <2>3. /\ task.header = Absent \/ task.header = Malformed \/ task.header \in Header
        /\ task.size \in Nat /\ task.actual \in Nat /\ task.block \in Nat \ {0}
    BY <2>1, AlgorithmsAssumption DEF RangeTasks, Headers, Header, Numbers
  <2>4. CASE task.header = Absent
    <3>1. result.range.status = 200
      BY <2>2, <2>4 DEF Answer, Audio!ParseRange, Audio!Whole
    <3>2. task.header # Malformed
      BY <2>4, AlgorithmsAssumption
    <3> QED BY <2>4, <3>1, <3>2, Zenon DEF RangeServesWhatWasAsked
  <2>5. CASE task.header = Malformed
    <3>1. result.range.status = 416
      BY <2>2, <2>5, AlgorithmsAssumption
      DEF Answer, Audio!ParseRange, Audio!Refused
    <3>2. task.header # Absent
      BY <2>5, AlgorithmsAssumption
    <3> QED BY <2>5, <3>1, <3>2, Zenon DEF RangeServesWhatWasAsked
  <2>6. CASE task.header # Absent /\ task.header # Malformed
    <3>1. /\ result.range.status = IF Asked(task.header, task.size) = {} THEN 416 ELSE 206
          /\ BytesOf(result.blocks) = BytesFrom(ServedOf(task))
      BY <2>2, <2>3, <2>6, RangeServes
    <3> QED BY <2>6, <3>1, Zenon
        DEF RangeServesWhatWasAsked, BytesOf, BytesFrom, ServedOf
  <2> QED BY <2>4, <2>5, <2>6
<1> QED BY <1>1, RunHolds, PTL


\* The segments of the parts, stitched, are in order and in their stretch.
LEMMA StitchedKeepTheirPlace == RunInv /\ Done("stitch") => StitchedInOrder
<1> SUFFICES ASSUME RunInv, Done("stitch") PROVE StitchedInOrder
  OBVIOUS
<1>1. task \in StitchTasks
  BY DEF RunInv, Done, Tasks, ChunkTasks, RangeTasks, GroupTasks, ReplyTasks, CardTasks
<1>2. result = Speech!Stitch(PartsOf(task), Duration)
  BY DEF RunInv, Done, Run
<1>3. Duration \in Nat
  BY AlgorithmsAssumption DEF Duration
<1> DEFINE parts == task.parts
<1>4. FitParts(parts, Duration)
  <2>1. PICK n \in 0 .. MaxPieces : parts \in [1 .. n -> Parts]
    BY <1>1 DEF StitchTasks, SeqsUpTo
  <2>2. parts \in Seq(Parts) /\ Len(parts) = n
    BY <2>1, AlgorithmsAssumption, FunctionIsSeq
  <2>3. ASSUME NEW p \in Parts
        PROVE  /\ p \in Seq(Nat \X Nat)
               /\ \A j \in 1 .. Len(p) : p[j][1] <= p[j][2] /\ p[j][2] <= Duration
               /\ \A j \in 1 .. Len(p) - 1 : p[j][2] <= p[j + 1][1]
    <3>1. PICK m \in 0 .. MaxPieces : p \in [1 .. m -> Spans]
      BY DEF Parts, SeqsUpTo
    <3>2. p \in Seq(Spans) /\ Len(p) = m
      BY <3>1, AlgorithmsAssumption, FunctionIsSeq
    <3>3. ASSUME NEW s \in Spans
          PROVE  s \in Nat \X Nat /\ s[1] <= s[2] /\ s[2] <= Duration
      BY <1>3 DEF Spans, Numbers, Duration
    <3>4. \A j \in 1 .. Len(p) - 1 : p[j][2] <= p[j + 1][1]
      BY DEF Parts
    <3>5. p \in Seq(Nat \X Nat)
      <4>1. Spans \subseteq Nat \X Nat
        BY <3>3
      <4> QED BY <3>2, <4>1, SeqMonotonic
    <3>6. \A j \in 1 .. Len(p) : p[j] \in Spans
      BY <3>2
    <3> QED BY <3>3, <3>4, <3>5, <3>6
  <2>4. \A i \in 1 .. Len(parts) : parts[i] \in Parts
    BY <2>2
  <2>5. parts \in Seq(Seq(Nat \X Nat))
    <3>1. Parts \subseteq Seq(Nat \X Nat)
      BY <2>3
    <3> QED BY <2>2, <3>1, SeqMonotonic
  <2> HIDE DEF parts
  <2> QED BY <2>3, <2>4, <2>5 DEF FitParts
<1>5. result \in Seq(StitchSegments) /\ InStretches(result, Len(parts), Duration)
  BY <1>2, <1>3, <1>4, StitchKeepsOrder
<1>6. DOMAIN result = 1 .. Len(result)
  BY <1>5
<1> QED BY <1>5, <1>6 DEF StitchedInOrder, InStretches

\* The paragraphs of the export are as long as can be, and keep every segment.
LEMMA SegmentsInParagraphs == RunInv /\ Done("group") => ParagraphsAreMaximal
<1> SUFFICES ASSUME RunInv, Done("group") PROVE ParagraphsAreMaximal
  OBVIOUS
<1>1. task \in GroupTasks
  BY DEF RunInv, Done, Tasks, ChunkTasks, RangeTasks, StitchTasks, ReplyTasks, CardTasks
<1>2. result = Speech!GroupSegments(TurnsOf(task), task.gap)
  BY DEF RunInv, Done, Run
<1> DEFINE turns == TurnsOf(task)
           gap == task.gap
           n == Len(turns)
<1>3. /\ turns \in Seq(Turn)
      /\ \A i \in 1 .. n : turns[i].text = <<i>>
  <2>1. PICK m \in 0 .. MaxPieces + 1 : task.turns \in [1 .. m -> Speakers \X Spans]
    BY <1>1 DEF GroupTasks, SeqsUpTo
  <2>2. m \in Nat /\ DOMAIN task.turns = 1 .. m
        /\ \A i \in 1 .. m : task.turns[i] \in Speakers \X Spans
    BY <2>1, AlgorithmsAssumption
  <2>3. turns = [i \in 1 .. m |-> Segment(task.turns[i][1], task.turns[i][2], <<i>>)]
    BY <2>2 DEF TurnsOf
  <2>4. ASSUME NEW i \in 1 .. m
        PROVE  /\ Segment(task.turns[i][1], task.turns[i][2], <<i>>) \in Turn
               /\ Segment(task.turns[i][1], task.turns[i][2], <<i>>).text = <<i>>
    <3>1. task.turns[i][1] \in Speakers /\ task.turns[i][2] \in Spans
      BY <2>2
    <3>2. task.turns[i][2][1] \in Int /\ task.turns[i][2][2] \in Int
      BY <3>1, AlgorithmsAssumption DEF Spans, Numbers
    <3>3. <<i>> \in Seq(Nat)
      BY <2>2
    <3> QED BY <3>1, <3>2, <3>3 DEF Segment, Turn
  <2> HIDE DEF turns
  <2>5. turns \in [1 .. m -> Turn]
    BY <2>3, <2>4
  <2>6. turns \in Seq(Turn) /\ n = m
    BY <2>2, <2>5, FunctionIsSeq
  <2> QED BY <2>3, <2>4, <2>6
<1> HIDE DEF turns
<1>4. Paragraphs(result, turns, gap, n)
  BY <1>2, <1>3, SegmentsGrouped DEF turns
<1>5. n \in Nat /\ DOMAIN turns = 1 .. n
  BY <1>3
<1>6. FlattenSeq([i \in DOMAIN result |-> result[i].text]) = [i \in DOMAIN turns |-> i]
  BY <1>4, <1>5, TextsInOrder
<1>7. DOMAIN result = 1 .. Len(result) /\ Len(result) \in Nat /\ result \in Seq(Turn)
  BY <1>4 DEF Paragraphs
<1>8. ASSUME NEW i \in DOMAIN result
      PROVE  LET p == result[i]
                 last == p.text[Len(p.text)]
             IN /\ p.start = turns[p.text[1]].start
                /\ p.end = turns[last].end
                /\ \A k \in p.text[1] .. last - 1 : Joined(turns, gap, k)
                /\ i < Len(result) => ~Joined(turns, gap, last)
  <2> DEFINE p == result[i]
             a == FirstOf(p)
             b == NextOf(p)
             m == Len(p.text)
             last == p.text[m]
  <2>1. i \in 1 .. Len(result)
    BY <1>7
  <2>2. p \in Turn /\ Paragraph(p, turns, gap)
    BY <1>4, <2>1 DEF Paragraphs
  <2>3. /\ a \in Nat \ {0} /\ b \in Nat /\ a < b /\ p.text = Consecutive(a, b)
        /\ p.start = turns[a].start /\ p.end = turns[b - 1].end
        /\ \A k \in a .. b - 2 : Joined(turns, gap, k)
    BY <2>2 DEF Paragraph
  <2>4. p.text[1] = a /\ b = a + m /\ m \in Nat
    BY <2>2 DEF Turn, FirstOf, NextOf
  <2>5. i < Len(result) => ~Joined(turns, gap, b - 1)
    <3> SUFFICES ASSUME i < Len(result) PROVE ~Joined(turns, gap, b - 1)
      OBVIOUS
    <3>1. i + 1 \in 2 .. Len(result) /\ (i + 1) - 1 = i
      BY <1>7, <2>1
    <3> QED BY <1>4, <3>1 DEF Paragraphs
  <2> HIDE DEF a, b, m, p
  <2>6. last = b - 1
    <3>1. m \in 1 .. b - a /\ a + m - 1 = b - 1
      BY <2>3, <2>4
    <3> QED BY <2>3, <3>1 DEF Consecutive
  <2> HIDE DEF last
  <2>7. last - 1 = b - 2
    BY <2>3, <2>6
  <2>8. /\ p.start = turns[p.text[1]].start
        /\ p.end = turns[last].end
        /\ \A k \in p.text[1] .. last - 1 : Joined(turns, gap, k)
        /\ i < Len(result) => ~Joined(turns, gap, last)
    BY <2>3, <2>4, <2>5, <2>6, <2>7
  <2> QED BY <2>8 DEF last, m, p
<1> QED BY <1>6, <1>8, Zenon DEF ParagraphsAreMaximal, Joined, turns

\* Stitching and grouping: order, times and pieces of the text are kept.
THEOREM SegmentsKept == Spec => []SegmentsKeepTheirPlace
<1>1. RunInv => SegmentsKeepTheirPlace
  BY StitchedKeepTheirPlace, SegmentsInParagraphs DEF SegmentsKeepTheirPlace
<1> QED BY <1>1, RunHolds, PTL

----------------------------------------------------------------------------
(* Concatenations of sequences.                                            *)

\* One more sequence.
LEMMA FlattenSnoc ==
  ASSUME NEW S, NEW seqs \in Seq(Seq(S)), NEW s \in Seq(S)
  PROVE  FlattenSeq(Append(seqs, s)) = FlattenSeq(seqs) \o s
<1> DEFINE n == Len(seqs)
           more == Append(seqs, s)
<1>1. /\ n \in Nat /\ more \in Seq(Seq(S)) /\ more # <<>> /\ Len(more) = n + 1
      /\ \A i \in 1 .. n : more[i] = seqs[i] /\ seqs[i] \in Seq(S)
      /\ more[n + 1] = s
  <2>1. /\ more \in Seq(Seq(S)) /\ more # <<>> /\ Len(more) = Len(seqs) + 1
        /\ \A i \in 1 .. Len(seqs) + 1 : more[i] = IF i = Len(seqs) + 1 THEN s ELSE seqs[i]
    BY AppendProperties
  <2>2. n \in Nat /\ \A i \in 1 .. n : seqs[i] \in Seq(S)
    OBVIOUS
  <2> HIDE DEF more
  <2> QED BY <2>1, <2>2
<1> HIDE DEF n, more
<1>2. PICK h \in [1 .. n + 1 -> Seq(S)] :
        /\ FlattenSeq(more) = h[n + 1]
        /\ h[1] = more[1]
        /\ \A i \in 2 .. n + 1 : h[i] = h[i - 1] \o more[i]
  <2>1. \E h \in [1 .. Len(more) -> Seq(S)] :
          /\ FlattenSeq(more) = h[Len(more)]
          /\ h[1] = more[1]
          /\ \A i \in 2 .. Len(more) : h[i] = h[i - 1] \o more[i]
    <3>1. more \in Seq(Seq(S)) /\ more # <<>>
      BY <1>1
    <3> QED BY <3>1, FlattenSeqDef
  <2>2. Len(more) = n + 1
    BY <1>1
  <2> QED BY <2>1, <2>2, Zenon
<1>3. CASE n = 0
  <2>1. seqs = <<>> /\ Len(seqs) = 0
    BY <1>3 DEF n
  <2>2. FlattenSeq(seqs) = <<>>
    BY <2>1 DEF FlattenSeq
  <2>3. <<>> \o s = s
    BY ConcatEmptySeq
  <2>4. FlattenSeq(more) = s
    BY <1>1, <1>2, <1>3
  <2> QED BY <2>2, <2>3, <2>4 DEF more
<1>4. CASE n # 0
  <2>1. seqs # <<>>
    BY <1>4 DEF n
  <2>2. PICK f \in [1 .. n -> Seq(S)] :
          /\ FlattenSeq(seqs) = f[n]
          /\ f[1] = seqs[1]
          /\ \A i \in 2 .. n : f[i] = f[i - 1] \o seqs[i]
    BY <2>1, FlattenSeqDef DEF n
  <2> DEFINE T == {k \in Nat : k + 1 <= n => f[k + 1] = h[k + 1]}
  <2>3. 0 \in T
    <3>1. 1 \in 1 .. n /\ 0 + 1 = 1
      BY <1>1, <1>4
    <3> QED BY <1>1, <1>2, <2>2, <3>1
  <2>4. ASSUME NEW k \in T PROVE k + 1 \in T
    <3> SUFFICES ASSUME k + 2 <= n PROVE f[k + 2] = h[k + 2]
      OBVIOUS
    <3> DEFINE i == k + 2
    <3>1. i \in 2 .. n /\ i \in 2 .. n + 1 /\ i \in 1 .. n /\ i - 1 = k + 1 /\ k + 1 <= n
      BY <1>1
    <3>2. f[k + 1] = h[k + 1]
      BY <3>1
    <3> HIDE DEF i
    <3>3. f[i] = f[i - 1] \o seqs[i] /\ h[i] = h[i - 1] \o more[i] /\ more[i] = seqs[i]
      BY <1>1, <1>2, <2>2, <3>1
    <3>4. f[i] = h[i]
      BY <3>1, <3>2, <3>3, Zenon
    <3> QED BY <3>4 DEF i
  <2>5. T \in SUBSET Nat
    OBVIOUS
  <2> HIDE DEF T
  <2>6. T = Nat
    BY <2>3, <2>4, <2>5, Induct
  <2>7. n - 1 \in T /\ (n - 1) + 1 = n
    BY <1>1, <1>4, <2>6
  <2>8. f[n] = h[n]
    BY <2>7 DEF T
  <2>9. h[n + 1] = h[n] \o s
    <3>1. n + 1 \in 2 .. n + 1 /\ (n + 1) - 1 = n
      BY <1>1, <1>4
    <3> QED BY <1>1, <1>2, <3>1
  <2> QED BY <1>2, <2>2, <2>8, <2>9 DEF more
<1> QED BY <1>3, <1>4

LEMMA FlattenEmpty == FlattenSeq(<<>>) = <<>>
<1>1. Len(<<>>) = 0
  OBVIOUS
<1> QED BY <1>1 DEF FlattenSeq

\* Sequences over a set.
LEMMA FlattenType ==
  ASSUME NEW S, NEW seqs \in Seq(Seq(S))
  PROVE  FlattenSeq(seqs) \in Seq(S)
<1> DEFINE n == Len(seqs)
           G == [i \in 0 .. n |-> Seq(S)]
<1>1. n \in Nat /\ \A i \in 1 .. n : seqs[i] \in Seq(S)
  OBVIOUS
<1>2. \A i \in 0 .. n : G[i] = Seq(S)
  OBVIOUS
<1> HIDE DEF G
<1>3. <<>> \in G[0]
  <2>1. 0 \in 0 .. n /\ <<>> \in Seq(S)
    BY <1>1
  <2> QED BY <1>2, <2>1, Zenon
<1>4. ASSUME NEW i \in 1 .. n, NEW s \in Seq(S), s \in G[i - 1] PROVE s \o seqs[i] \in G[i]
  <2>1. s \o seqs[i] \in Seq(S) /\ i \in 0 .. n
    BY <1>1, ConcatProperties
  <2> QED BY <1>2, <2>1
<1> QED BY <1>3, <1>4, FlattenInduct

\* Sequences of one element each, and empty ones.
LEMMA FlattenSingles ==
  ASSUME NEW S, NEW s \in Seq(S)
  PROVE  FlattenSeq([i \in DOMAIN s |-> <<s[i]>>]) = s
<1> DEFINE n == Len(s)
           seqs == [i \in DOMAIN s |-> <<s[i]>>]
<1>1. n \in Nat /\ DOMAIN s = 1 .. n /\ \A i \in 1 .. n : s[i] \in S
  OBVIOUS
<1>2. seqs \in Seq(Seq(S)) /\ Len(seqs) = n /\ \A i \in 1 .. n : seqs[i] = <<s[i]>>
  <2>1. seqs \in [1 .. n -> Seq(S)] /\ \A i \in 1 .. n : seqs[i] = <<s[i]>>
    BY <1>1
  <2> HIDE DEF seqs
  <2> QED BY <1>1, <2>1, FunctionIsSeq
<1> DEFINE G == [i \in 0 .. n |-> {SubSeq(s, 1, i)}]
<1>3. \A i \in 0 .. n : G[i] = {SubSeq(s, 1, i)}
  OBVIOUS
<1> HIDE DEF seqs, G
<1>4. <<>> \in G[0]
  <2>1. SubSeq(s, 1, 0) = <<>>
    BY SubSeqEmpty
  <2>2. 0 \in 0 .. n
    BY <1>1
  <2>3. G[0] = {SubSeq(s, 1, 0)}
    BY <1>3, <2>2, Zenon
  <2> QED BY <2>1, <2>3
<1>5. ASSUME NEW i \in 1 .. n, NEW t \in Seq(S), t \in G[i - 1] PROVE t \o seqs[i] \in G[i]
  <2>1. i - 1 \in 0 .. n /\ i \in 0 .. n /\ 1 \in 1 .. n /\ i \in 1 .. n
    BY <1>1
  <2>2. SubSeq(s, 1, i) = SubSeq(s, 1, i - 1) \o <<s[i]>>
    BY <2>1, SubSeqRecursiveSecond
  <2>3. G[i - 1] = {SubSeq(s, 1, i - 1)} /\ G[i] = {SubSeq(s, 1, i)}
    BY <1>3, <2>1, Zenon
  <2>4. t = SubSeq(s, 1, i - 1) /\ seqs[i] = <<s[i]>>
    BY <1>2, <1>5, <2>3
  <2> QED BY <2>2, <2>3, <2>4
<1>6. FlattenSeq(seqs) \in G[n]
  BY <1>2, <1>4, <1>5, FlattenInduct
<1>7. SubSeq(s, 1, n) = s
  BY SubSeqFull
<1> QED BY <1>1, <1>3, <1>6, <1>7 DEF seqs

\* A function of the elements.
Mapped(f, s) == [j \in DOMAIN s |-> f[s[j]]]

LEMMA MappedType ==
  ASSUME NEW S, NEW T, NEW f \in [S -> T], NEW s \in Seq(S)
  PROVE  Mapped(f, s) \in Seq(T) /\ Len(Mapped(f, s)) = Len(s)
<1>1. Len(s) \in Nat /\ DOMAIN s = 1 .. Len(s) /\ \A i \in 1 .. Len(s) : s[i] \in S
  OBVIOUS
<1>2. Mapped(f, s) \in [1 .. Len(s) -> T]
  BY <1>1 DEF Mapped
<1> QED BY <1>1, <1>2, FunctionIsSeq

LEMMA MappedCat ==
  ASSUME NEW S, NEW f, NEW s \in Seq(S), NEW t \in Seq(S)
  PROVE  Mapped(f, s \o t) = Mapped(f, s) \o Mapped(f, t)
<1> DEFINE T == {f[x] : x \in S}
<1>1. ASSUME NEW u \in Seq(S)
      PROVE  /\ Mapped(f, u) \in Seq(T) /\ Len(Mapped(f, u)) = Len(u)
             /\ \A i \in 1 .. Len(u) : Mapped(f, u)[i] = f[u[i]]
  <2>1. \A x \in S : f[x] \in T
    OBVIOUS
  <2> HIDE DEF T
  <2>2. Mapped(f, u) \in Seq(T) /\ Len(Mapped(f, u)) = Len(u)
    <3>1. Len(u) \in Nat /\ DOMAIN u = 1 .. Len(u) /\ \A i \in 1 .. Len(u) : u[i] \in S
      OBVIOUS
    <3>2. Mapped(f, u) \in [1 .. Len(u) -> T]
      BY <2>1, <3>1 DEF Mapped
    <3> QED BY <3>1, <3>2, FunctionIsSeq
  <2>3. \A i \in 1 .. Len(u) : Mapped(f, u)[i] = f[u[i]]
    <3>1. DOMAIN u = 1 .. Len(u)
      OBVIOUS
    <3> QED BY <3>1 DEF Mapped
  <2> QED BY <2>2, <2>3
<1> HIDE DEF T
<1> DEFINE c == s \o t
           a == Len(s)
           b == Len(t)
           x == Mapped(f, s) \o Mapped(f, t)
<1>2. /\ a \in Nat /\ b \in Nat /\ c \in Seq(S) /\ Len(c) = a + b
      /\ \A i \in 1 .. a + b : c[i] = IF i <= a THEN s[i] ELSE t[i - a]
  BY ConcatProperties
<1>3. /\ x \in Seq(T) /\ Len(x) = a + b
      /\ \A i \in 1 .. a + b : x[i] = IF i <= a THEN Mapped(f, s)[i] ELSE Mapped(f, t)[i - a]
  <2>1. /\ Mapped(f, s) \in Seq(T) /\ Len(Mapped(f, s)) = a
        /\ Mapped(f, t) \in Seq(T) /\ Len(Mapped(f, t)) = b
    BY <1>1
  <2>2. /\ x \in Seq(T) /\ Len(x) = Len(Mapped(f, s)) + Len(Mapped(f, t))
        /\ \A i \in 1 .. Len(Mapped(f, s)) + Len(Mapped(f, t)) :
             x[i] = IF i <= Len(Mapped(f, s)) THEN Mapped(f, s)[i]
                    ELSE Mapped(f, t)[i - Len(Mapped(f, s))]
    BY <2>1, ConcatProperties
  <2> HIDE DEF x, a, b
  <2> QED BY <2>1, <2>2, Zenon
<1> HIDE DEF x, a, b, c
<1>4. Mapped(f, c) \in Seq(T) /\ Len(Mapped(f, c)) = a + b
      /\ \A i \in 1 .. a + b : Mapped(f, c)[i] = f[c[i]]
  BY <1>1, <1>2
<1>5. ASSUME NEW i \in 1 .. a + b PROVE Mapped(f, c)[i] = x[i]
  <2>1. CASE i <= a
    <3>1. i \in 1 .. a
      BY <1>2, <2>1
    <3>2. Mapped(f, s)[i] = f[s[i]]
      BY <1>1, <3>1 DEF a
    <3> QED BY <1>2, <1>3, <1>4, <2>1, <3>2, Zenon
  <2>2. CASE ~ (i <= a)
    <3>1. i - a \in 1 .. b
      BY <1>2, <2>2
    <3>2. Mapped(f, t)[i - a] = f[t[i - a]]
      BY <1>1, <3>1 DEF b
    <3> QED BY <1>2, <1>3, <1>4, <2>2, <3>2, Zenon
  <2> QED BY <2>1, <2>2
<1>6. Mapped(f, c) = x
  BY <1>3, <1>4, <1>5, SeqEqual
<1> QED BY <1>6 DEF c, x

LEMMA FlattenMapped ==
  ASSUME NEW S, NEW T, NEW f \in [S -> T], NEW seqs \in Seq(Seq(S))
  PROVE  FlattenSeq([i \in DOMAIN seqs |-> Mapped(f, seqs[i])])
           = Mapped(f, FlattenSeq(seqs))
<1> DEFINE n == Len(seqs)
           maps == [i \in DOMAIN seqs |-> Mapped(f, seqs[i])]
           P(k) == FlattenSeq(SubSeq(maps, 1, k)) = Mapped(f, FlattenSeq(SubSeq(seqs, 1, k)))
           U == {k \in Nat : k <= n => P(k)}
<1>1. n \in Nat /\ DOMAIN seqs = 1 .. n /\ \A i \in 1 .. n : seqs[i] \in Seq(S)
  OBVIOUS
<1>2. /\ maps \in Seq(Seq(T)) /\ Len(maps) = n
      /\ \A i \in 1 .. n : maps[i] = Mapped(f, seqs[i])
  <2>1. ASSUME NEW i \in 1 .. n PROVE Mapped(f, seqs[i]) \in Seq(T)
    BY <1>1, MappedType
  <2>2. maps \in [1 .. n -> Seq(T)] /\ \A i \in 1 .. n : maps[i] = Mapped(f, seqs[i])
    BY <1>1, <2>1
  <2> HIDE DEF maps, n
  <2> QED BY <1>1, <2>2, FunctionIsSeq
<1> HIDE DEF n, maps
<1>3. 0 \in U
  <2>1. SubSeq(maps, 1, 0) = <<>> /\ SubSeq(seqs, 1, 0) = <<>>
    BY SubSeqEmpty
  <2>2. Mapped(f, <<>>) = <<>>
    BY DEF Mapped
  <2> QED BY <2>1, <2>2, FlattenEmpty
<1>4. ASSUME NEW k \in U PROVE k + 1 \in U
  <2> SUFFICES ASSUME k + 1 <= n PROVE P(k + 1)
    OBVIOUS
  <2> DEFINE a == SubSeq(seqs, 1, k)
             b == SubSeq(maps, 1, k)
             s == seqs[k + 1]
  <2>1. k \in Nat /\ k + 1 \in 1 .. n /\ 1 \in 1 .. n /\ (k + 1) - 1 = k /\ P(k)
        /\ \A i \in 1 .. k : i \in 1 .. n
    BY <1>1
  <2>2. a \in Seq(Seq(S)) /\ b \in Seq(Seq(T)) /\ s \in Seq(S) /\ maps[k + 1] = Mapped(f, s)
    <3>1. \A i \in 1 .. k : seqs[i] \in Seq(S) /\ maps[i] \in Seq(T)
      BY <1>1, <1>2, <2>1
    <3> QED BY <1>1, <1>2, <2>1, <3>1, SubSeqProperties
  <2>3. SubSeq(seqs, 1, k + 1) = a \o <<s>> /\ SubSeq(maps, 1, k + 1) = b \o <<Mapped(f, s)>>
    <3>1. SubSeq(seqs, 1, k + 1) = SubSeq(seqs, 1, (k + 1) - 1) \o <<seqs[k + 1]>>
      BY <1>1, <2>1, SubSeqRecursiveSecond DEF n
    <3>2. SubSeq(maps, 1, k + 1) = SubSeq(maps, 1, (k + 1) - 1) \o <<maps[k + 1]>>
      BY <1>2, <2>1, SubSeqRecursiveSecond
    <3> QED BY <2>1, <2>2, <3>1, <3>2
  <2>4. Mapped(f, s) \in Seq(T)
    BY <2>2, MappedType
  <2> HIDE DEF a, b, s
  <2>5. a \o <<s>> = Append(a, s) /\ b \o <<Mapped(f, s)>> = Append(b, Mapped(f, s))
    BY <2>2, <2>4, AppendIsConcat
  <2>6. /\ FlattenSeq(SubSeq(seqs, 1, k + 1)) = FlattenSeq(a) \o s
        /\ FlattenSeq(SubSeq(maps, 1, k + 1)) = FlattenSeq(b) \o Mapped(f, s)
    <3>1. FlattenSeq(Append(a, s)) = FlattenSeq(a) \o s
      BY <2>2, FlattenSnoc
    <3>2. FlattenSeq(Append(b, Mapped(f, s))) = FlattenSeq(b) \o Mapped(f, s)
      BY <2>2, <2>4, FlattenSnoc
    <3> QED BY <2>3, <2>5, <3>1, <3>2
  <2>7. FlattenSeq(b) = Mapped(f, FlattenSeq(a)) /\ FlattenSeq(a) \in Seq(S)
    BY <2>1, <2>2, FlattenType DEF a, b
  <2>8. Mapped(f, FlattenSeq(a) \o s) = Mapped(f, FlattenSeq(a)) \o Mapped(f, s)
    <3> DEFINE x == FlattenSeq(a)
    <3>1. x \in Seq(S)
      BY <2>7
    <3> HIDE DEF x
    <3>2. Mapped(f, x \o s) = Mapped(f, x) \o Mapped(f, s)
      BY <2>2, <3>1, MappedCat
    <3> QED BY <3>2 DEF x
  <2> QED BY <2>6, <2>7, <2>8
<1>5. U \in SUBSET Nat
  OBVIOUS
<1> HIDE DEF U
<1>6. n \in U
  BY <1>1, <1>3, <1>4, <1>5, Induct
<1>7. P(n)
  BY <1>1, <1>6 DEF U
<1>8. SubSeq(maps, 1, n) = maps /\ SubSeq(seqs, 1, n) = seqs
  BY <1>2, SubSeqFull DEF n
<1> QED BY <1>7, <1>8 DEF maps

----------------------------------------------------------------------------
(* Elements: stored rows and legacy buckets read alike.                    *)

LEMMA CardsFlatten == ASSUME NEW s PROVE Cards!FlattenSeq(s) = FlattenSeq(s)
BY DEF Cards!FlattenSeq, FlattenSeq

LEMMA FlattenFunction ==
  ASSUME NEW S, NEW n \in Nat, NEW f \in [1 .. n -> Seq(S)]
  PROVE  Cards!FlattenSeq(f) \in Seq(S)
<1>1. f \in Seq(Seq(S))
  BY FunctionIsSeq
<1> QED BY <1>1, CardsFlatten, FlattenType

\* What an entry of a card or of a bucket may be.
Filed(entry) ==
  entry # Other => entry.name \in Names \cup {Blank} /\ entry.description = "d"

CategoryOf(category) == IF category = Blank THEN Cards!DefaultCategory ELSE category

\* A row for each entry with a name.
LEMMA RowCleaned ==
  ASSUME NEW category \in Categories \cup Labels \cup {Blank}, NEW entry, Filed(entry)
  PROVE  /\ Cards!CleanRow(category, entry) \in Seq(Row)
         /\ ~Cards!Named(entry) => Cards!CleanRow(category, entry) = <<>>
         /\ Cards!Named(entry) =>
              /\ entry # Other /\ entry.name \in Names
              /\ Cards!CleanRow(category, entry)
                   = <<[category |-> CategoryOf(category), name |-> entry.name,
                        description |-> entry.description]>>
<1>1. CategoryOf(category) \in Categories \cup Labels
  BY DEF CategoryOf, Labels
<1>2. CASE Cards!Named(entry)
  <2>1. entry # Other /\ entry.name \in Names /\ entry.description = "d"
    BY <1>2 DEF Cards!Named, Filed
  <2> DEFINE row == [category |-> CategoryOf(category), name |-> entry.name,
                     description |-> entry.description]
  <2>2. row \in Row
    BY <1>1, <2>1 DEF Row
  <2>3. Cards!CleanRow(category, entry) = <<row>>
    BY <1>2 DEF Cards!CleanRow, CategoryOf
  <2> HIDE DEF row
  <2>4. <<row>> \in Seq(Row)
    BY <2>2
  <2> QED BY <1>2, <2>1, <2>3, <2>4 DEF row
<1>3. CASE ~Cards!Named(entry)
  <2>1. Cards!CleanRow(category, entry) = <<>>
    BY <1>3 DEF Cards!CleanRow
  <2> QED BY <1>3, <2>1
<1> QED BY <1>2, <1>3

\* The four buckets of the legacy cards.
LEMMA BucketsAre ==
  /\ DOMAIN Cards!Buckets = 1 .. 4
  /\ ToSet(Cards!Buckets) = {"npcs", "locations", "items", "clues"}
  /\ \A i \in 1 .. 4 : Cards!Buckets[i] \in {"npcs", "locations", "items", "clues"}
  /\ \A b \in {"npcs", "locations", "items", "clues"} : Cards!Label[b] \in Labels
<1>1. DOMAIN Cards!Buckets = 1 .. 4
  BY DEF Cards!Buckets
<1>2. /\ Cards!Buckets[1] = "npcs" /\ Cards!Buckets[2] = "locations"
      /\ Cards!Buckets[3] = "items" /\ Cards!Buckets[4] = "clues"
  BY DEF Cards!Buckets
<1>3. 1 .. 4 = {1, 2, 3, 4}
  OBVIOUS
<1>4. ToSet(Cards!Buckets) = {"npcs", "locations", "items", "clues"}
  BY <1>1, <1>2, <1>3 DEF ToSet
<1>5. \A b \in {"npcs", "locations", "items", "clues"} : Cards!Label[b] \in Labels
  <2>1. DOMAIN Cards!Label = {"npcs", "locations", "items", "clues"}
    BY DEF Cards!Label
  <2> QED BY <2>1 DEF Labels
<1> QED BY <1>1, <1>2, <1>3, <1>4, <1>5

Pair == [name : Names, description : {"d"}]

\* Buckets of pairs flatten to rows.
LEMMA BucketsFlatten ==
  ASSUME NEW buckets,
         \A b \in {"npcs", "locations", "items", "clues"} : buckets[b] \in Seq(Pair)
  PROVE  Cards!Flatten(buckets) \in Seq(Row)
<1> DEFINE rows(i) == [j \in DOMAIN buckets[Cards!Buckets[i]] |->
                         Cards!CleanRow(Cards!Label[Cards!Buckets[i]],
                                        buckets[Cards!Buckets[i]][j])]
           flat(i) == Cards!FlattenSeq(rows(i))
<1>1. ASSUME NEW i \in 1 .. 4 PROVE flat(i) \in Seq(Row)
  <2> DEFINE b == Cards!Buckets[i]
             pairs == buckets[b]
             label == Cards!Label[b]
  <2>1. b \in {"npcs", "locations", "items", "clues"} /\ label \in Labels /\ pairs \in Seq(Pair)
    BY BucketsAre
  <2> HIDE DEF b, pairs, label
  <2>2. /\ Len(pairs) \in Nat /\ DOMAIN pairs = 1 .. Len(pairs)
        /\ \A j \in 1 .. Len(pairs) : pairs[j] \in Pair
    BY <2>1
  <2>3. ASSUME NEW j \in 1 .. Len(pairs) PROVE Cards!CleanRow(label, pairs[j]) \in Seq(Row)
    <3>1. Filed(pairs[j])
      BY <2>2 DEF Filed, Pair
    <3> QED BY <2>1, <3>1, RowCleaned
  <2>4. [j \in DOMAIN pairs |-> Cards!CleanRow(label, pairs[j])] \in [1 .. Len(pairs) -> Seq(Row)]
    BY <2>2, <2>3
  <2>5. Cards!FlattenSeq([j \in DOMAIN pairs |-> Cards!CleanRow(label, pairs[j])]) \in Seq(Row)
    BY <2>2, <2>4, FlattenFunction
  <2> QED BY <2>5 DEF b, pairs, label
<1> HIDE DEF flat
<1>2. [i \in 1 .. 4 |-> flat(i)] \in [1 .. 4 -> Seq(Row)]
  BY <1>1
<1>3. Cards!FlattenSeq([i \in 1 .. 4 |-> flat(i)]) \in Seq(Row)
  BY <1>2, FlattenFunction
<1>4. Cards!Flatten(buckets) = Cards!FlattenSeq([i \in DOMAIN Cards!Buckets |-> flat(i)])
  BY DEF Cards!Flatten, flat
<1> QED BY <1>3, <1>4, BucketsAre, Zenon

\* A reply is parsed to buckets of pairs, whatever it holds.
LEMMA ReplyParsed ==
  ASSUME NEW reply \in Replies
  PROVE  \A b \in {"npcs", "locations", "items", "clues"} :
           Cards!ParseReply(reply)[b] \in Seq(Pair)
<1> DEFINE Keys == {"npcs", "locations", "items", "clues"}
           parsed == CASE reply.whole # Fail -> reply.whole
                       [] reply.whole = Fail /\ reply.fenced # Fail -> reply.fenced
                       [] OTHER -> reply.braced
           pair(entry) == IF Cards!Named(entry)
                          THEN <<[name |-> entry.name, description |-> entry.description]>>
                          ELSE <<>>
           bucket(b) == Cards!FlattenSeq([i \in DOMAIN parsed[b] |-> pair(parsed[b][i])])
<1>1. Cards!ParseReply(reply) = IF parsed \in {Fail, Other} THEN Cards!EmptyBuckets
                                ELSE [b \in Keys |-> bucket(b)]
  <2>1. Cards!ToSet(Cards!Buckets) = Keys
    BY BucketsAre DEF Cards!ToSet, ToSet
  <2> QED BY <2>1 DEF Cards!ParseReply
<1>2. Cards!EmptyBuckets = [b \in Keys |-> <<>>]
  BY BucketsAre DEF Cards!EmptyBuckets, Cards!ToSet, ToSet
<1>3. parsed \in {Fail, Other} \cup BucketContents
  <2>1. /\ reply.whole \in {Fail, Other} \cup BucketContents
        /\ reply.fenced \in {Fail, Other} \cup BucketContents
        /\ reply.braced \in {Fail, Other} \cup BucketContents
    BY DEF Replies
  <2> QED BY <2>1
<1> HIDE DEF parsed
<1>4. ASSUME parsed \in BucketContents, NEW b \in Keys PROVE bucket(b) \in Seq(Pair)
  <2>1. parsed[b] \in Seq(Entries)
    <3> DEFINE X == SeqsUpTo(Entries, MaxPieces)
               card(l, m) == [npcs |-> l, locations |-> <<>>,
                              items |-> <<>>, clues |-> m]
    <3>0. parsed \in {card(l, m) : l, m \in X}
      BY <1>4 DEF BucketContents
    <3> HIDE DEF card
    <3>1. PICK l \in X, m \in X : parsed = card(l, m)
      BY <3>0
    <3> USE DEF card
    <3>2. parsed[b] \in {<<>>, l, m}
      BY <3>1
    <3>3. ASSUME NEW s \in SeqsUpTo(Entries, MaxPieces) PROVE s \in Seq(Entries)
      <4>1. PICK k \in 0 .. MaxPieces : s \in [1 .. k -> Entries]
        BY DEF SeqsUpTo
      <4>2. k \in Nat
        BY AlgorithmsAssumption
      <4> QED BY <4>1, <4>2, FunctionIsSeq
    <3>4. <<>> \in Seq(Entries)
      OBVIOUS
    <3> QED BY <3>2, <3>3, <3>4
  <2> DEFINE s == parsed[b]
  <2>2. Len(s) \in Nat /\ DOMAIN s = 1 .. Len(s) /\ \A i \in 1 .. Len(s) : s[i] \in Entries
    BY <2>1
  <2> HIDE DEF s
  <2>3. ASSUME NEW entry \in Entries PROVE pair(entry) \in Seq(Pair)
    <3>1. CASE Cards!Named(entry)
      <4>1. entry.name \in Names /\ entry.description = "d"
        BY <3>1 DEF Cards!Named, Entries
      <4>2. [name |-> entry.name, description |-> entry.description] \in Pair
        BY <4>1 DEF Pair
      <4> QED BY <3>1, <4>2
    <3>2. CASE ~Cards!Named(entry)
      BY <3>2
    <3> QED BY <3>1, <3>2
  <2> HIDE DEF pair
  <2>4. [i \in DOMAIN s |-> pair(s[i])] \in [1 .. Len(s) -> Seq(Pair)]
    BY <2>2, <2>3
  <2>5. Cards!FlattenSeq([i \in DOMAIN s |-> pair(s[i])]) \in Seq(Pair)
    BY <2>2, <2>4, FlattenFunction
  <2> QED BY <2>5 DEF s
<1> HIDE DEF bucket
<1>5. ASSUME NEW b \in Keys PROVE Cards!ParseReply(reply)[b] \in Seq(Pair)
  <2>1. CASE parsed \in {Fail, Other}
    BY <1>1, <1>2, <2>1
  <2>2. CASE parsed \notin {Fail, Other}
    <3>1. parsed \in BucketContents
      BY <1>3, <2>2
    <3>2. Cards!ParseReply(reply)[b] = bucket(b)
      BY <1>1, <2>2
    <3> QED BY <1>4, <3>1, <3>2
  <2> QED BY <2>1, <2>2
<1> QED BY <1>5

\* Stored rows are read as they are.
LEMMA StoredRowsRead ==
  ASSUME NEW rows \in Seq(Row)
  PROVE  Cards!Rows([elements |-> rows]) = rows
<1> DEFINE row(i) == Cards!CleanRow(IF rows[i] = Other THEN Blank ELSE rows[i].category,
                                    rows[i])
<1>1. DOMAIN rows = 1 .. Len(rows) /\ \A i \in 1 .. Len(rows) : rows[i] \in Row
  OBVIOUS
<1>2. rows # Other /\ \A i \in 1 .. Len(rows) : rows[i] # Other
  BY <1>1, AlgorithmsAssumption
<1>3. Cards!Rows([elements |-> rows]) = FlattenSeq([i \in DOMAIN rows |-> row(i)])
  BY <1>2, CardsFlatten DEF Cards!Rows
<1>4. ASSUME NEW i \in DOMAIN rows PROVE row(i) = <<rows[i]>>
  <2> DEFINE r == rows[i]
  <2>1. r \in Row /\ r # Other
    BY <1>1, <1>2
  <2> HIDE DEF r
  <2>2. /\ r.category \in Categories \cup Labels /\ r.name \in Names /\ r.description = "d"
        /\ r = [category |-> r.category, name |-> r.name, description |-> r.description]
    BY <2>1 DEF Row
  <2>3. Cards!Named(r) /\ r.category # Blank
    BY <2>1, <2>2, AlgorithmsAssumption DEF Cards!Named
  <2>4. Cards!CleanRow(r.category, r)
          = <<[category |-> r.category, name |-> r.name, description |-> r.description]>>
    BY <2>3 DEF Cards!CleanRow
  <2>5. Cards!CleanRow(r.category, r) = <<r>>
    BY <2>2, <2>4, Zenon
  <2> QED BY <2>1, <2>5 DEF r
<1> HIDE DEF row
<1>5. [i \in DOMAIN rows |-> row(i)] = [i \in DOMAIN rows |-> <<rows[i]>>]
  BY <1>4
<1> QED BY <1>3, <1>5, FlattenSingles

\* A card generated now, read from its rows or from its buckets.
LEMMA CardsReadBack == RunInv /\ Done("reply") => ElementsReadBack
<1> SUFFICES ASSUME RunInv, Done("reply") PROVE ElementsReadBack
  OBVIOUS
<1> DEFINE buckets == Cards!ParseReply(task.reply)
<1>1. task \in ReplyTasks
  BY DEF RunInv, Done, Tasks, ChunkTasks, RangeTasks, StitchTasks, GroupTasks, CardTasks
<1>2. result = Cards!Flatten(buckets)
  BY DEF RunInv, Done, Run
<1>3. task.reply \in Replies
  BY <1>1 DEF ReplyTasks
<1> HIDE DEF buckets
<1>4. result \in Seq(Row)
  BY <1>2, <1>3, ReplyParsed, BucketsFlatten DEF buckets
<1>5. result = Cards!Rows([elements |-> result])
  BY <1>4, StoredRowsRead
<1>6. Cards!Rows([elements |-> Other, buckets |-> buckets]) = Cards!Flatten(buckets)
  BY DEF Cards!Rows
<1> QED BY <1>2, <1>5, <1>6 DEF ElementsReadBack, buckets
----------------------------------------------------------------------------
(* Elements: filed by category.                                            *)

Group == [category : Categories \cup Labels, rows : Seq(Row)]
OneRow(row, category) == IF row.category = category THEN <<row>> ELSE <<>>

LEMMA OneRowType ==
  ASSUME NEW row \in Row, NEW category
  PROVE  OneRow(row, category) \in Seq(Row)
<1>1. <<row>> \in Seq(Row) /\ <<>> \in Seq(Row)
  OBVIOUS
<1> QED BY <1>1 DEF OneRow

\* A row is added to its group, or to a new one; no other group changes.
LEMMA RowAdded ==
  ASSUME NEW groups \in Seq(Group), NEW row \in Row
  PROVE  /\ Cards!AddRow(groups, row) \in Seq(Group)
         /\ (\E i \in 1 .. Len(groups) : groups[i].category = row.category) =>
              /\ Len(Cards!AddRow(groups, row)) = Len(groups)
              /\ \A i \in 1 .. Len(groups) :
                   /\ Cards!AddRow(groups, row)[i].category = groups[i].category
                   /\ Cards!AddRow(groups, row)[i].rows
                        = groups[i].rows \o OneRow(row, groups[i].category)
         /\ ~(\E i \in 1 .. Len(groups) : groups[i].category = row.category) =>
              Cards!AddRow(groups, row)
                = Append(groups, [category |-> row.category, rows |-> <<row>>])
<1> DEFINE n == Len(groups)
           has == \E i \in 1 .. n : groups[i].category = row.category
           with(i) == IF groups[i].category = row.category
                      THEN [groups[i] EXCEPT !.rows = Append(@, row)] ELSE groups[i]
           new == [category |-> row.category, rows |-> <<row>>]
           c == Cards!AddRow(groups, row)
<1>1. n \in Nat /\ DOMAIN groups = 1 .. n /\ \A i \in 1 .. n : groups[i] \in Group
  OBVIOUS
<1>2. c = IF has THEN [i \in 1 .. n |-> with(i)] ELSE Append(groups, new)
  BY <1>1 DEF Cards!AddRow
<1>3. ASSUME NEW i \in 1 .. n
      PROVE  /\ with(i) \in Group /\ with(i).category = groups[i].category
             /\ with(i).rows = groups[i].rows \o OneRow(row, groups[i].category)
  <2> DEFINE g == groups[i]
             rows == Append(g.rows, row)
  <2>1. g \in Group /\ g.rows \in Seq(Row)
    BY <1>1 DEF Group
  <2>2. CASE g.category = row.category
    <3>1. rows \in Seq(Row) /\ rows = g.rows \o <<row>>
      BY <2>1, AppendIsConcat
    <3>2. with(i) = [g EXCEPT !.rows = rows]
      BY <2>2
    <3> HIDE DEF g, rows, with
    <3>3. with(i) \in Group /\ with(i).category = g.category /\ with(i).rows = rows
      BY <2>1, <3>1, <3>2 DEF Group
    <3>4. OneRow(row, g.category) = <<row>>
      BY <2>2 DEF OneRow
    <3> QED BY <3>1, <3>3, <3>4 DEF g
  <2>3. CASE g.category # row.category
    <3>1. OneRow(row, g.category) = <<>> /\ with(i) = g
      BY <2>3 DEF OneRow
    <3>2. g.rows \o <<>> = g.rows
      BY <2>1, ConcatEmptySeq
    <3> HIDE DEF g, with
    <3>3. with(i).rows = g.rows \o OneRow(row, g.category)
      BY <3>1, <3>2, Zenon
    <3> QED BY <2>1, <3>1, <3>3 DEF g
  <2> QED BY <2>2, <2>3
<1> HIDE DEF n, has, with, new, c
<1>4. CASE has
  <2>1. c = [i \in 1 .. n |-> with(i)]
    BY <1>2, <1>4
  <2>2. c \in [1 .. n -> Group] /\ \A i \in 1 .. n : c[i] = with(i)
    BY <1>3, <2>1
  <2>3. c \in Seq(Group) /\ Len(c) = n
    BY <1>1, <2>2, FunctionIsSeq
  <2> QED BY <1>3, <1>4, <2>2, <2>3 DEF n, has, c
<1>5. CASE ~has
  <2>1. c = Append(groups, new)
    BY <1>2, <1>5
  <2>2. new \in Group
    BY DEF new, Group, Row
  <2>3. c \in Seq(Group)
    BY <2>1, <2>2
  <2> QED BY <1>5, <2>1, <2>3 DEF n, has, c, new
<1> QED BY <1>4, <1>5

LEMMA CardsMax == ASSUME NEW s PROVE Cards!Max(s) = Speech!Max(s)
BY DEF Cards!Max, Speech!Max

\* The fold of the card takes the rows one by one, from the first.
Files(g, rows, n) ==
  g[0] = <<>> /\ \A i \in 1 .. n : g[i] = Cards!AddRow(g[i - 1], rows[i])

LEMMA FilingUnfolds ==
  ASSUME NEW rows \in Seq(Row)
  PROVE  \E g : /\ Files(g, rows, Len(rows))
                /\ Cards!Grouped(rows) = g[Len(rows)]
<1> DEFINE n == Len(rows)
           V == Seq(Group)
           val(f, s) == IF s = {} THEN <<>>
                        ELSE Cards!AddRow(f[s \ {Cards!Max(s)}], rows[Cards!Max(s)])
           D(f) == [s \in SUBSET (1 .. n) |-> val(f, s)]
           iter == CHOOSE f : f = D(f)
           step == [x \in V \X (1 .. n) |-> Cards!AddRow(x[1], rows[x[2]])]
<1>1. n \in Nat /\ DOMAIN rows = 1 .. n /\ \A i \in 1 .. n : rows[i] \in Row
  OBVIOUS
<1>2. Cards!Grouped(rows) = iter[1 .. n]
  BY <1>1 DEF Cards!Grouped, Cards!FoldLeft, Cards!MapThenFoldSet
<1>3. <<>> \in V /\ step \in [V \X (1 .. n) -> V]
  <2>1. ASSUME NEW x \in V \X (1 .. n) PROVE Cards!AddRow(x[1], rows[x[2]]) \in V
    <3>1. x[1] \in Seq(Group) /\ rows[x[2]] \in Row
      BY <1>1
    <3> QED BY <3>1, RowAdded
  <2> QED BY <2>1
<1>4. \A v \in V : \A i \in 1 .. n : step[<<v, i>>] = Cards!AddRow(v, rows[i])
  OBVIOUS
<1> HIDE DEF n, V, step
<1>5. PICK f \in [SUBSET (1 .. n) -> V] : FoldOf(f, n, <<>>, step)
  BY <1>1, <1>3, FoldExists
<1>6. ASSUME NEW s \in SUBSET (1 .. n) PROVE f[s] = val(f, s)
  <2>1. CASE s = {}
    BY <1>5, <2>1 DEF FoldOf
  <2>2. CASE s # {}
    <3>1. PICK l \in s : \A y \in s : l >= y
      BY <1>1, <2>2, LastExists
    <3>2. l \in Nat /\ l \in 1 .. n /\ s \in SUBSET (1 .. l) /\ s \ {l} \in SUBSET (1 .. n)
      BY <1>1, <3>1
    <3>3. Cards!Max(s) = l
      BY <3>1, <3>2, SpeechMax, CardsMax
    <3>4. f[s] = step[<<f[s \ {l}], l>>] /\ f[s \ {l}] \in V
      BY <1>5, <3>1, <3>2 DEF FoldOf
    <3>5. f[s] = Cards!AddRow(f[s \ {l}], rows[l])
      BY <1>4, <3>2, <3>4
    <3> QED BY <2>2, <3>3, <3>5, Zenon
  <2> QED BY <2>1, <2>2
<1>7. f = D(f)
  <2>1. f = [s \in SUBSET (1 .. n) |-> f[s]]
    BY <1>5, Zenon
  <2> HIDE DEF val
  <2> QED BY <1>6, <2>1, Zenon
<1>8. iter = D(iter)
  <2> HIDE DEF D
  <2> QED BY <1>7, Zenon
<1> HIDE DEF iter
<1>9. \A s \in SUBSET (1 .. n) : iter[s] = val(iter, s)
  <2> HIDE DEF val
  <2> QED BY <1>8, Zenon
<1> DEFINE g == [i \in 0 .. n |-> iter[1 .. i]]
<1>10. g[0] = <<>>
  <2>1. 1 .. 0 = {} /\ 0 \in 0 .. n /\ {} \in SUBSET (1 .. n)
    BY <1>1
  <2>2. iter[{}] = <<>>
    BY <1>9, <2>1, Zenon
  <2> QED BY <2>1, <2>2, Zenon
<1>11. ASSUME NEW i \in 1 .. n PROVE g[i] = Cards!AddRow(g[i - 1], rows[i])
  <2>1. i \in 0 .. n /\ i - 1 \in 0 .. n /\ 1 .. i # {} /\ 1 .. i \in SUBSET (1 .. n)
    <3>1. i \in 0 .. n /\ i - 1 \in 0 .. n /\ i \in 1 .. i
      BY <1>1
    <3>2. 1 .. i \in SUBSET (1 .. n)
      BY <1>1
    <3> QED BY <3>1, <3>2, Zenon
  <2>2. Cards!Max(1 .. i) = i
    <3>1. i \in Nat /\ 1 .. i \in SUBSET (1 .. i) /\ i \in 1 .. i
      BY <1>1
    <3> QED BY <3>1, SpeechMax, CardsMax
  <2>3. (1 .. i) \ {i} = 1 .. (i - 1)
    BY <1>1
  <2>4. iter[1 .. i] = Cards!AddRow(iter[1 .. (i - 1)], rows[i])
    BY <1>9, <2>1, <2>2, <2>3, Zenon
  <2> QED BY <2>1, <2>4, Zenon
<1>12. g[n] = iter[1 .. n]
  <2>1. n \in 0 .. n
    BY <1>1
  <2> QED BY <2>1, Zenon
<1> HIDE DEF g
<1>13. Files(g, rows, n)
  BY <1>10, <1>11 DEF Files
<1> QED BY <1>2, <1>12, <1>13, Zenon DEF n

\* A row more belongs to its category only.
LEMMA RowsOfAppend ==
  ASSUME NEW p \in Seq(Row), NEW row \in Row, NEW category
  PROVE  RowsOf(Append(p, row), category) = RowsOf(p, category) \o OneRow(row, category)
<1> DEFINE n == Len(p)
           q == Append(p, row)
           ones == [i \in 1 .. n |-> OneRow(p[i], category)]
           more == [i \in 1 .. n + 1 |-> OneRow(q[i], category)]
           last == OneRow(row, category)
<1>1. /\ n \in Nat /\ DOMAIN p = 1 .. n /\ DOMAIN q = 1 .. n + 1
      /\ \A i \in 1 .. n : p[i] \in Row
  BY AppendProperties
<1>2. \A i \in 1 .. n + 1 : q[i] = IF i = n + 1 THEN row ELSE p[i]
  BY AppendProperties
<1>3. /\ RowsOf(p, category) = FlattenSeq(ones)
      /\ RowsOf(q, category) = FlattenSeq(more)
  BY <1>1, Zenon DEF RowsOf, OneRow
<1>4. last \in Seq(Row)
  BY OneRowType
<1>5. ones \in [1 .. n -> Seq(Row)] /\ \A i \in 1 .. n : ones[i] = OneRow(p[i], category)
  BY <1>1, OneRowType
<1> HIDE DEF n, q, last, ones
<1>6. ones \in Seq(Seq(Row)) /\ Len(ones) = n
  BY <1>1, <1>5, FunctionIsSeq
<1>7. more = Append(ones, last)
  <2>1. ASSUME NEW i \in 1 .. n + 1
        PROVE  OneRow(q[i], category) = IF i = n + 1 THEN last ELSE ones[i]
    <3>1. CASE i = n + 1
      BY <1>2, <3>1 DEF last
    <3>2. CASE i # n + 1
      <4>1. i \in 1 .. n
        BY <1>1, <3>2
      <4> QED BY <1>2, <1>5, <3>2, <4>1
    <3> QED BY <3>1, <3>2
  <2>2. more \in [1 .. n + 1 -> Seq(Row)]
    <3>1. ASSUME NEW i \in 1 .. n + 1 PROVE OneRow(q[i], category) \in Seq(Row)
      <4>1. CASE i = n + 1
        BY <1>4, <2>1, <4>1
      <4>2. CASE i # n + 1
        <5>1. i \in 1 .. n
          BY <1>1, <4>2
        <5> QED BY <1>5, <2>1, <4>2, <5>1
      <4> QED BY <4>1, <4>2
    <3> QED BY <3>1
  <2>3. \A i \in 1 .. n + 1 : more[i] = IF i = n + 1 THEN last ELSE ones[i]
    BY <2>1
  <2> HIDE DEF more
  <2>4. more \in Seq(Seq(Row)) /\ Len(more) = n + 1
    BY <1>1, <2>2, FunctionIsSeq
  <2>5. /\ Append(ones, last) \in Seq(Seq(Row)) /\ Len(Append(ones, last)) = n + 1
        /\ \A i \in 1 .. n + 1 : Append(ones, last)[i] = IF i = n + 1 THEN last ELSE ones[i]
    BY <1>4, <1>6, AppendProperties
  <2> QED BY <2>3, <2>4, <2>5, SeqEqual
<1> HIDE DEF more
<1>8. FlattenSeq(Append(ones, last)) = FlattenSeq(ones) \o last
  BY <1>4, <1>6, FlattenSnoc
<1> QED BY <1>3, <1>7, <1>8 DEF q, last

LEMMA RowsOfEmpty == ASSUME NEW category PROVE RowsOf(<<>>, category) = <<>>
<1>1. [i \in DOMAIN <<>> |-> IF <<>>[i].category = category THEN <<(<<>>)[i]>> ELSE <<>>] = <<>>
  OBVIOUS
<1> QED BY <1>1, FlattenEmpty DEF RowsOf

\* The rows of a category are rows.
LEMMA RowsOfType ==
  ASSUME NEW p \in Seq(Row), NEW category
  PROVE  RowsOf(p, category) \in Seq(Row)
<1> DEFINE ones == [i \in 1 .. Len(p) |-> OneRow(p[i], category)]
<1>1. Len(p) \in Nat /\ DOMAIN p = 1 .. Len(p) /\ \A i \in 1 .. Len(p) : p[i] \in Row
  OBVIOUS
<1>2. ones \in [1 .. Len(p) -> Seq(Row)]
  BY <1>1, OneRowType
<1>3. RowsOf(p, category) = FlattenSeq(ones)
  BY <1>1, Zenon DEF RowsOf, OneRow
<1> HIDE DEF ones
<1>4. ones \in Seq(Seq(Row))
  BY <1>1, <1>2, FunctionIsSeq
<1> QED BY <1>3, <1>4, FlattenType

\* The groups of the rows p: one for each category of theirs, with its rows.
Filing(out, p) ==
  /\ out \in Seq(Group)
  /\ \A i, j \in 1 .. Len(out) : out[i].category = out[j].category => i = j
  /\ \A i \in 1 .. Len(out) : \E j \in 1 .. Len(p) : p[j].category = out[i].category
  /\ \A j \in 1 .. Len(p) : \E i \in 1 .. Len(out) : out[i].category = p[j].category
  /\ \A i \in 1 .. Len(out) : out[i].rows = RowsOf(p, out[i].category)
  /\ \A category \in Categories \cup Labels :
       (\A i \in 1 .. Len(out) : out[i].category # category) => RowsOf(p, category) = <<>>

\* One more row.
LEMMA RowFiled ==
  ASSUME NEW p \in Seq(Row), NEW row \in Row, NEW out, Filing(out, p)
  PROVE  Filing(Cards!AddRow(out, row), Append(p, row))
<1> DEFINE n == Len(out)
           m == Len(p)
           q == Append(p, row)
           c == Cards!AddRow(out, row)
           has == \E i \in 1 .. n : out[i].category = row.category
<1>1. /\ out \in Seq(Group) /\ n \in Nat /\ m \in Nat
      /\ \A i, j \in 1 .. n : out[i].category = out[j].category => i = j
      /\ \A i \in 1 .. n : \E j \in 1 .. m : p[j].category = out[i].category
      /\ \A j \in 1 .. m : \E i \in 1 .. n : out[i].category = p[j].category
      /\ \A i \in 1 .. n : out[i].rows = RowsOf(p, out[i].category)
      /\ \A category \in Categories \cup Labels :
           (\A i \in 1 .. n : out[i].category # category) => RowsOf(p, category) = <<>>
      /\ \A i \in 1 .. n : out[i] \in Group
  BY DEF Filing
<1>2. Len(q) = m + 1 /\ \A j \in 1 .. m + 1 : q[j] = IF j = m + 1 THEN row ELSE p[j]
  BY AppendProperties
<1>3. \A category : RowsOf(q, category) = RowsOf(p, category) \o OneRow(row, category)
  BY RowsOfAppend
<1>4. row.category \in Categories \cup Labels
  BY DEF Row
<1>5. \A category : category # row.category => RowsOf(q, category) = RowsOf(p, category)
  <2> SUFFICES ASSUME NEW category, category # row.category
               PROVE  RowsOf(q, category) = RowsOf(p, category)
    OBVIOUS
  <2>1. RowsOf(p, category) \in Seq(Row)
    BY RowsOfType
  <2>2. RowsOf(p, category) \o <<>> = RowsOf(p, category)
    BY <2>1, ConcatEmptySeq
  <2>3. OneRow(row, category) = <<>>
    BY DEF OneRow
  <2> QED BY <1>3, <2>2, <2>3
<1> HIDE DEF n, m, q
<1>6. CASE has
  <2>1. /\ c \in Seq(Group) /\ Len(c) = n
        /\ \A i \in 1 .. n :
             /\ c[i].category = out[i].category
             /\ c[i].rows = out[i].rows \o OneRow(row, out[i].category)
    BY <1>1, <1>6, RowAdded DEF n
  <2> HIDE DEF c
  <2>2. ASSUME NEW i \in 1 .. n PROVE c[i].rows = RowsOf(q, c[i].category)
    <3>1. /\ c[i].category = out[i].category
          /\ c[i].rows = out[i].rows \o OneRow(row, out[i].category)
      BY <2>1
    <3>2. out[i].rows = RowsOf(p, out[i].category)
      BY <1>1
    <3> QED BY <1>3, <3>1, <3>2, Zenon
  <2>3. ASSUME NEW i \in 1 .. n PROVE \E j \in 1 .. m + 1 : q[j].category = c[i].category
    <3>1. PICK j \in 1 .. m : p[j].category = out[i].category
      BY <1>1
    <3>2. j \in 1 .. m + 1 /\ j # m + 1
      BY <1>1
    <3> QED BY <1>2, <2>1, <3>1, <3>2
  <2>4. ASSUME NEW j \in 1 .. m + 1 PROVE \E i \in 1 .. n : c[i].category = q[j].category
    <3>1. CASE j = m + 1
      BY <1>2, <1>6, <2>1, <3>1
    <3>2. CASE j # m + 1
      <4>1. j \in 1 .. m
        BY <1>1, <3>2
      <4>2. PICK i \in 1 .. n : out[i].category = p[j].category
        BY <1>1, <4>1
      <4> QED BY <1>2, <2>1, <3>2, <4>2
    <3> QED BY <3>1, <3>2
  <2>5. ASSUME NEW category \in Categories \cup Labels, \A i \in 1 .. n : c[i].category # category
        PROVE  RowsOf(q, category) = <<>>
    <3>1. category # row.category /\ \A i \in 1 .. n : out[i].category # category
      BY <1>6, <2>1, <2>5
    <3> QED BY <1>1, <1>5, <3>1
  <2>6. \A i, j \in 1 .. n : c[i].category = c[j].category => i = j
    BY <1>1, <2>1
  <2> HIDE DEF has
  <2>7. Filing(c, q)
    BY <1>2, <2>1, <2>2, <2>3, <2>4, <2>5, <2>6 DEF Filing
  <2> QED BY <2>7 DEF c, q
<1>7. CASE ~has
  <2> DEFINE new == [category |-> row.category, rows |-> <<row>>]
  <2>1. c \in Seq(Group) /\ c = Append(out, new)
    BY <1>1, <1>7, RowAdded DEF n
  <2>2. new \in Group
    <3>1. <<row>> \in Seq(Row)
      OBVIOUS
    <3> QED BY <1>4, <3>1 DEF Group
  <2>3. Len(c) = n + 1 /\ \A i \in 1 .. n + 1 : c[i] = IF i = n + 1 THEN new ELSE out[i]
    BY <1>1, <2>1, <2>2, AppendProperties DEF n
  <2>4. new.category = row.category /\ new.rows = <<row>>
    OBVIOUS
  <2> HIDE DEF c, new
  <2>5. \A i \in 1 .. n : out[i].category # row.category /\ i \in 1 .. n + 1 /\ i # n + 1
    BY <1>1, <1>7
  <2>6. ASSUME NEW i \in 1 .. n + 1 PROVE c[i].rows = RowsOf(q, c[i].category)
    <3>1. CASE i = n + 1
      <4>1. RowsOf(p, row.category) = <<>>
        BY <1>1, <1>4, <2>5
      <4>2. OneRow(row, row.category) = <<row>>
        BY DEF OneRow
      <4>3. <<>> \o <<row>> = <<row>>
        <5>1. <<row>> \in Seq(Row)
          OBVIOUS
        <5> QED BY <5>1, ConcatEmptySeq
      <4>4. RowsOf(q, row.category) = <<row>>
        BY <1>3, <4>1, <4>2, <4>3
      <4> QED BY <2>3, <2>4, <3>1, <4>4
    <3>2. CASE i # n + 1
      <4>1. i \in 1 .. n
        BY <1>1, <3>2
      <4>2. c[i] = out[i]
        BY <2>3, <3>2
      <4> QED BY <1>1, <1>5, <2>5, <4>1, <4>2
    <3> QED BY <3>1, <3>2
  <2>7. ASSUME NEW i \in 1 .. n + 1 PROVE \E j \in 1 .. m + 1 : q[j].category = c[i].category
    <3>1. CASE i = n + 1
      <4>1. m + 1 \in 1 .. m + 1
        BY <1>1
      <4> QED BY <1>2, <2>3, <2>4, <3>1, <4>1
    <3>2. CASE i # n + 1
      <4>1. i \in 1 .. n
        BY <1>1, <3>2
      <4>2. PICK j \in 1 .. m : p[j].category = out[i].category
        BY <1>1, <4>1
      <4>3. j \in 1 .. m + 1 /\ j # m + 1
        BY <1>1
      <4> QED BY <1>2, <2>3, <3>2, <4>2, <4>3
    <3> QED BY <3>1, <3>2
  <2>8. ASSUME NEW j \in 1 .. m + 1 PROVE \E i \in 1 .. n + 1 : c[i].category = q[j].category
    <3>1. CASE j = m + 1
      <4>1. n + 1 \in 1 .. n + 1
        BY <1>1
      <4> QED BY <1>2, <2>3, <2>4, <3>1, <4>1
    <3>2. CASE j # m + 1
      <4>1. j \in 1 .. m
        BY <1>1, <3>2
      <4>2. PICK i \in 1 .. n : out[i].category = p[j].category
        BY <1>1, <4>1
      <4> QED BY <1>2, <2>3, <2>5, <3>2, <4>2
    <3> QED BY <3>1, <3>2
  <2>9. ASSUME NEW category \in Categories \cup Labels,
               \A i \in 1 .. n + 1 : c[i].category # category
        PROVE  RowsOf(q, category) = <<>>
    <3>1. category # row.category
      <4>1. n + 1 \in 1 .. n + 1
        BY <1>1
      <4> QED BY <2>3, <2>4, <2>9, <4>1
    <3>2. \A i \in 1 .. n : out[i].category # category
      BY <2>3, <2>5, <2>9
    <3> QED BY <1>1, <1>5, <3>1, <3>2
  <2>10. ASSUME NEW i \in 1 .. n + 1, NEW j \in 1 .. n + 1, c[i].category = c[j].category
         PROVE  i = j
    <3>1. CASE i = n + 1 /\ j # n + 1
      <4>1. j \in 1 .. n
        BY <1>1, <3>1
      <4> QED BY <2>3, <2>4, <2>5, <2>10, <3>1, <4>1
    <3>2. CASE i # n + 1 /\ j = n + 1
      <4>1. i \in 1 .. n
        BY <1>1, <3>2
      <4> QED BY <2>3, <2>4, <2>5, <2>10, <3>2, <4>1
    <3>3. CASE i # n + 1 /\ j # n + 1
      <4>1. i \in 1 .. n /\ j \in 1 .. n
        BY <1>1, <3>3
      <4> QED BY <1>1, <2>3, <2>10, <3>3, <4>1
    <3> QED BY <3>1, <3>2, <3>3
  <2> HIDE DEF has
  <2>11. Filing(c, q)
    BY <1>2, <2>1, <2>3, <2>6, <2>7, <2>8, <2>9, <2>10 DEF Filing
  <2> QED BY <2>11 DEF c, q
<1> QED BY <1>6, <1>7

\* All rows are filed.
LEMMA RowsFiled ==
  ASSUME NEW rows \in Seq(Row)
  PROVE  Filing(Cards!Grouped(rows), rows)
<1> DEFINE n == Len(rows)
<1>1. n \in Nat /\ DOMAIN rows = 1 .. n /\ \A i \in 1 .. n : rows[i] \in Row
  OBVIOUS
<1>2. PICK g : Files(g, rows, n) /\ Cards!Grouped(rows) = g[n]
  BY FilingUnfolds
<1>3. SubSeq(rows, 1, n) = rows
  BY SubSeqFull
<1>4. ASSUME NEW k \in Nat, k <= n PROVE SubSeq(rows, 1, k) \in Seq(Row)
  <2>1. \A i \in 1 .. k : rows[i] \in Row
    BY <1>1, <1>4
  <2> QED BY <1>1, <1>4, <2>1, SubSeqProperties
<1>5. ASSUME NEW k \in Nat, k + 1 <= n
      PROVE  SubSeq(rows, 1, k + 1) = Append(SubSeq(rows, 1, k), rows[k + 1])
  <2> DEFINE a == SubSeq(rows, 1, k)
             r == rows[k + 1]
  <2>1. 1 \in 1 .. n /\ k + 1 \in 1 .. n /\ (k + 1) - 1 = k /\ k <= n
    BY <1>1, <1>5
  <2>2. SubSeq(rows, 1, k + 1) = SubSeq(rows, 1, (k + 1) - 1) \o <<rows[k + 1]>>
    BY <1>1, <2>1, SubSeqRecursiveSecond DEF n
  <2>3. a \in Seq(Row) /\ r \in Row
    BY <1>1, <1>4, <2>1
  <2> HIDE DEF a, r
  <2>4. a \o <<r>> = Append(a, r)
    BY <2>3, AppendIsConcat
  <2> QED BY <2>1, <2>2, <2>4 DEF a, r
<1> HIDE DEF n
<1> DEFINE T == {k \in Nat : k <= n => Filing(g[k], SubSeq(rows, 1, k))}
<1>6. 0 \in T
  <2>1. g[0] = <<>> /\ SubSeq(rows, 1, 0) = <<>>
    BY <1>2, SubSeqEmpty DEF Files
  <2>2. Filing(<<>>, <<>>)
    BY RowsOfEmpty DEF Filing
  <2> QED BY <2>1, <2>2
<1>7. ASSUME NEW k \in T PROVE k + 1 \in T
  <2> SUFFICES ASSUME k + 1 <= n PROVE Filing(g[k + 1], SubSeq(rows, 1, k + 1))
    OBVIOUS
  <2>1. k \in Nat /\ k <= n /\ k + 1 \in 1 .. n /\ (k + 1) - 1 = k
        /\ Filing(g[k], SubSeq(rows, 1, k))
    BY <1>1
  <2>2. g[k + 1] = Cards!AddRow(g[k], rows[k + 1])
    BY <1>2, <2>1 DEF Files
  <2>3. rows[k + 1] \in Row /\ SubSeq(rows, 1, k) \in Seq(Row)
    BY <1>1, <1>4, <2>1
  <2> DEFINE a == SubSeq(rows, 1, k)
             r == rows[k + 1]
             o == g[k]
  <2>4. Filing(o, a) /\ a \in Seq(Row) /\ r \in Row
    BY <2>1, <2>3
  <2> HIDE DEF a, r, o
  <2>5. Filing(Cards!AddRow(o, r), Append(a, r))
    BY <2>4, RowFiled
  <2> QED BY <1>5, <2>1, <2>2, <2>5 DEF a, r, o
<1>8. T \in SUBSET Nat
  OBVIOUS
<1> HIDE DEF T
<1>9. n \in T
  BY <1>1, <1>6, <1>7, <1>8, Induct
<1>10. Filing(g[n], SubSeq(rows, 1, n))
  BY <1>1, <1>9 DEF T
<1> QED BY <1>2, <1>3, <1>10 DEF n

\* A card: each element with a name once, in its group.
LEMMA CardsAreFiled == RunInv /\ Done("card") => ElementsAreFiled
<1> SUFFICES ASSUME RunInv, Done("card") PROVE ElementsAreFiled
  OBVIOUS
<1> DEFINE elements == task.elements
           n == Len(elements)
           category(i) == IF elements[i] = Other THEN Blank ELSE elements[i].category
           row(i) == Cards!CleanRow(category(i), elements[i])
           rows == [i \in DOMAIN elements |-> row(i)]
           name(i) == IF Cards!Named(elements[i]) THEN <<elements[i].name>> ELSE <<>>
           f == [r \in Row |-> r.name]
<1>1. elements \in Seq(Entries)
  <2>1. task \in CardTasks
    BY DEF RunInv, Done, Tasks, ChunkTasks, RangeTasks, StitchTasks, GroupTasks, ReplyTasks
  <2>2. PICK k \in 0 .. MaxPieces + 1 : elements \in [1 .. k -> Entries]
    BY <2>1 DEF CardTasks, SeqsUpTo
  <2>3. k \in Nat
    BY AlgorithmsAssumption
  <2> HIDE DEF elements
  <2> QED BY <2>2, <2>3, FunctionIsSeq
<1>2. result = Cards!Rows([elements |-> elements])
  BY DEF RunInv, Done, Run
<1> HIDE DEF elements
<1>3. n \in Nat /\ DOMAIN elements = 1 .. n /\ \A i \in 1 .. n : elements[i] \in Entries
  BY <1>1
<1>4. result = FlattenSeq(rows)
  <2>1. elements # Other
    BY <1>1, AlgorithmsAssumption
  <2> QED BY <1>2, <2>1, CardsFlatten DEF Cards!Rows
<1> HIDE DEF n
<1>5. ASSUME NEW i \in 1 .. n
      PROVE  /\ row(i) \in Seq(Row)
             /\ Mapped(f, row(i)) = name(i)
  <2> DEFINE e == elements[i]
  <2>1. category(i) \in Categories \cup Labels \cup {Blank} /\ Filed(e)
    BY <1>3 DEF Entries, Filed
  <2> HIDE DEF category, e
  <2>2. /\ Cards!CleanRow(category(i), e) \in Seq(Row)
        /\ ~Cards!Named(e) => Cards!CleanRow(category(i), e) = <<>>
        /\ Cards!Named(e) =>
             /\ e # Other /\ e.name \in Names
             /\ Cards!CleanRow(category(i), e)
                  = <<[category |-> CategoryOf(category(i)), name |-> e.name,
                       description |-> e.description]>>
    BY <2>1, RowCleaned
  <2>3. CASE Cards!Named(e)
    <3> DEFINE r == [category |-> CategoryOf(category(i)), name |-> e.name,
                     description |-> e.description]
    <3>1. Cards!CleanRow(category(i), e) = <<r>>
      BY <2>2, <2>3
    <3>2. r.name = e.name
      OBVIOUS
    <3> HIDE DEF r
    <3>3. r \in Row
      <4>1. <<r>> \in Seq(Row)
        BY <2>2, <3>1
      <4> QED BY <4>1
    <3>4. f[r] = e.name
      BY <3>2, <3>3
    <3>5. Mapped(f, <<r>>) = <<f[r]>>
      <4> HIDE DEF f
      <4> QED BY DEF Mapped
    <3> QED BY <2>2, <2>3, <3>1, <3>4, <3>5 DEF e
  <2>4. CASE ~Cards!Named(e)
    <3>1. Mapped(f, <<>>) = <<>>
      BY DEF Mapped
    <3> QED BY <2>2, <2>4, <3>1 DEF e
  <2> QED BY <2>3, <2>4
<1> HIDE DEF row, name, f
<1>6. rows \in Seq(Seq(Row))
  <2>1. rows \in [1 .. n -> Seq(Row)]
    BY <1>3, <1>5
  <2> HIDE DEF rows
  <2> QED BY <1>3, <2>1, FunctionIsSeq DEF n
<1>7. result \in Seq(Row)
  BY <1>4, <1>6, FlattenType
<1>8. [i \in DOMAIN result |-> result[i].name] = FlattenSeq([i \in DOMAIN elements |-> name(i)])
  <2>1. f \in [Row -> Names]
    BY DEF f, Row
  <2>2. FlattenSeq([i \in DOMAIN rows |-> Mapped(f, rows[i])]) = Mapped(f, FlattenSeq(rows))
    <3> HIDE DEF rows
    <3> QED BY <1>6, <2>1, FlattenMapped
  <2>3. [i \in DOMAIN rows |-> Mapped(f, rows[i])] = [i \in DOMAIN elements |-> name(i)]
    BY <1>3, <1>5
  <2>4. Mapped(f, result) = [i \in DOMAIN result |-> result[i].name]
    <3>1. \A i \in DOMAIN result : f[result[i]] = result[i].name
      BY <1>7 DEF f
    <3> QED BY <3>1 DEF Mapped
  <2> HIDE DEF rows
  <2> QED BY <1>4, <2>2, <2>3, <2>4, Zenon
<1>9. \A i \in DOMAIN result : result[i].category # Blank
  <2>1. \A i \in DOMAIN result : result[i] \in Row
    BY <1>7
  <2>2. \A r \in Row : r.category # Blank
    BY AlgorithmsAssumption DEF Row
  <2> QED BY <2>1, <2>2
<1>10. Filing(Cards!Grouped(result), result)
  BY <1>7, RowsFiled
<1> DEFINE groups == Cards!Grouped(result)
<1> HIDE DEF groups, rows
<1>11. /\ groups \in Seq(Group)
       /\ \A i, j \in 1 .. Len(groups) : groups[i].category = groups[j].category => i = j
       /\ \A i \in 1 .. Len(groups) :
            \E j \in 1 .. Len(result) : result[j].category = groups[i].category
       /\ \A j \in 1 .. Len(result) :
            \E i \in 1 .. Len(groups) : groups[i].category = result[j].category
       /\ \A i \in 1 .. Len(groups) : groups[i].rows = RowsOf(result, groups[i].category)
  BY <1>10 DEF Filing, groups
<1>12. DOMAIN groups = 1 .. Len(groups) /\ DOMAIN result = 1 .. Len(result)
  BY <1>7, <1>11
<1>13. {groups[i].category : i \in DOMAIN groups} = {result[i].category : i \in DOMAIN result}
  <2>1. /\ \A i \in DOMAIN groups : \E j \in DOMAIN result : result[j].category = groups[i].category
        /\ \A j \in DOMAIN result : \E i \in DOMAIN groups : groups[i].category = result[j].category
    BY <1>11, <1>12, Zenon
  <2> QED BY <2>1
<1>14. \A i, j \in DOMAIN groups : groups[i].category = groups[j].category => i = j
  BY <1>11, <1>12
<1>15. \A i \in DOMAIN groups : groups[i].rows = RowsOf(result, groups[i].category)
  BY <1>11, <1>12
<1> QED BY <1>8, <1>9, <1>13, <1>14, <1>15, Zenon DEF ElementsAreFiled, groups, name, elements

\* Cards: both shapes read alike, and each named element is filed once.
THEOREM ElementsKept == Spec => []ElementsAreKept
<1>1. RunInv => ElementsAreKept
  BY CardsReadBack, CardsAreFiled DEF ElementsAreKept
<1> QED BY <1>1, RunHolds, PTL

----------------------------------------------------------------------------
(* What a text prints.                                                     *)

\* A set of sequences that has the empty one and, with each, those that are one
\* element longer, has all of them.
LEMMA SeqInduct ==
  ASSUME NEW S, NEW G, <<>> \in G, \A s \in Seq(S), x \in S : s \in G => Append(s, x) \in G
  PROVE  Seq(S) \subseteq G
<1> DEFINE T == {n \in Nat : \A s \in Seq(S) : Len(s) = n => s \in G}
<1>1. 0 \in T
  <2>1. \A s \in Seq(S) : Len(s) = 0 => s = <<>>
    BY EmptySeq
  <2> QED BY <2>1
<1>2. ASSUME NEW n \in T PROVE n + 1 \in T
  <2> SUFFICES ASSUME NEW s \in Seq(S), Len(s) = n + 1 PROVE s \in G
    OBVIOUS
  <2>1. s # <<>>
    OBVIOUS
  <2>2. PICK r \in Seq(S), x \in S : s = Append(r, x)
    BY <2>1, SequenceEmptyOrAppend
  <2>3. Len(r) = n
    <3>1. Len(s) = Len(r) + 1 /\ Len(r) \in Nat
      BY <2>2, AppendProperties
    <3> QED BY <3>1
  <2>4. r \in G
    BY <2>3
  <2> QED BY <2>2, <2>4
<1>3. T \in SUBSET Nat
  OBVIOUS
<1> HIDE DEF T
<1>4. T = Nat
  BY <1>1, <1>2, <1>3, Induct
<1> QED BY <1>4 DEF T

\* An element at the end of a concatenation.
LEMMA CatAppend ==
  ASSUME NEW S, NEW s \in Seq(S), NEW t \in Seq(S), NEW x \in S
  PROVE  s \o Append(t, x) = Append(s \o t, x)
<1>1. <<x>> \in Seq(S) /\ s \o t \in Seq(S)
  BY ConcatProperties
<1>2. Append(t, x) = t \o <<x>> /\ Append(s \o t, x) = (s \o t) \o <<x>>
  BY <1>1, AppendIsConcat
<1>3. (s \o t) \o <<x>> = s \o (t \o <<x>>)
  BY <1>1, ConcatAssociative
<1> QED BY <1>2, <1>3

\* Sequences of sequences one after the other.
LEMMA FlattenCat ==
  ASSUME NEW S, NEW r \in Seq(Seq(S)), NEW s \in Seq(Seq(S))
  PROVE  FlattenSeq(r \o s) = FlattenSeq(r) \o FlattenSeq(s)
<1> DEFINE P(u) == FlattenSeq(r \o u) = FlattenSeq(r) \o FlattenSeq(u)
           G == {u \in Seq(Seq(S)) : P(u)}
<1>1. <<>> \in G
  <2>1. r \o <<>> = r
    BY ConcatEmptySeq
  <2>2. FlattenSeq(r) \o <<>> = FlattenSeq(r)
    BY FlattenType, ConcatEmptySeq
  <2>3. P(<<>>)
    BY <2>1, <2>2, FlattenEmpty, Zenon
  <2>4. <<>> \in Seq(Seq(S))
    OBVIOUS
  <2> HIDE DEF P
  <2> QED BY <2>3, <2>4
<1>2. ASSUME NEW u \in Seq(Seq(S)), NEW x \in Seq(S), u \in G PROVE Append(u, x) \in G
  <2>1. /\ Append(u, x) \in Seq(Seq(S)) /\ Append(u, x) = u \o <<x>>
        /\ r \o u \in Seq(Seq(S)) /\ <<x>> \in Seq(Seq(S))
    BY AppendProperties, AppendIsConcat, ConcatProperties
  <2>2. r \o Append(u, x) = Append(r \o u, x)
    BY CatAppend
  <2>3. FlattenSeq(Append(r \o u, x)) = FlattenSeq(r \o u) \o x
    BY <2>1, FlattenSnoc
  <2>4. FlattenSeq(Append(u, x)) = FlattenSeq(u) \o x
    BY FlattenSnoc
  <2>5. (FlattenSeq(r) \o FlattenSeq(u)) \o x = FlattenSeq(r) \o (FlattenSeq(u) \o x)
    <3>1. FlattenSeq(r) \in Seq(S) /\ FlattenSeq(u) \in Seq(S)
      BY FlattenType
    <3> DEFINE a == FlattenSeq(r)
               b == FlattenSeq(u)
    <3> HIDE DEF a, b, P
    <3>2. (a \o b) \o x = a \o (b \o x)
      BY <3>1, ConcatAssociative DEF a, b
    <3> QED BY <3>2 DEF a, b
  <2>6. P(u)
    BY <1>2
  <2>7. P(Append(u, x))
    BY <2>2, <2>3, <2>4, <2>5, <2>6, Zenon
  <2> QED BY <2>1, <2>7
<1> HIDE DEF P
<1>3. Seq(Seq(S)) \subseteq G
  <2> HIDE DEF G
  <2> QED BY <1>1, <1>2, SeqInduct
<1>4. P(s)
  BY <1>3
<1> QED BY <1>4 DEF P

\* One more in front.
LEMMA FlattenCons ==
  ASSUME NEW S, NEW x \in Seq(S), NEW s \in Seq(Seq(S))
  PROVE  FlattenSeq(<<x>> \o s) = x \o FlattenSeq(s)
<1>1. <<x>> \in Seq(Seq(S)) /\ FlattenSeq(<<x>>) = x
  <2>1. /\ Append(<<>>, x) = <<x>> /\ <<>> \in Seq(Seq(S))
        /\ <<x>> \in Seq(Seq(S)) /\ <<>> \o x = x
    BY ConcatEmptySeq
  <2>2. FlattenSeq(Append(<<>>, x)) = FlattenSeq(<<>>) \o x
    BY <2>1, FlattenSnoc
  <2> QED BY <2>1, <2>2, FlattenEmpty
<1> QED BY <1>1, FlattenCat

\* A character that is not blank prints as itself.
PrintedAs == [c \in Chunker!Char |-> IF NotBlank(c) THEN <<c>> ELSE <<>>]

\* What a text prints is a text, made of what its characters print.
LEMMA PrintedMapped ==
  ASSUME NEW t \in Seq(Chunker!Char)
  PROVE  /\ Printed(t) = FlattenSeq(Mapped(PrintedAs, t))
         /\ Mapped(PrintedAs, t) \in Seq(Seq(Chunker!Char))
         /\ Printed(t) \in Seq(Chunker!Char)
<1>1. PrintedAs \in [Chunker!Char -> Seq(Chunker!Char)]
  BY DEF PrintedAs
<1>2. Mapped(PrintedAs, t) = [i \in DOMAIN t |-> IF NotBlank(t[i]) THEN <<t[i]>> ELSE <<>>]
  <2>1. \A i \in DOMAIN t : t[i] \in Chunker!Char
    OBVIOUS
  <2> QED BY <2>1 DEF Mapped, PrintedAs
<1>3. Mapped(PrintedAs, t) \in Seq(Seq(Chunker!Char))
  BY <1>1, MappedType
<1> QED BY <1>2, <1>3, FlattenType, Zenon DEF Printed

\* Texts one after the other print so.
LEMMA PrintedCat ==
  ASSUME NEW s \in Seq(Chunker!Char), NEW t \in Seq(Chunker!Char)
  PROVE  /\ Printed(s \o t) = Printed(s) \o Printed(t)
         /\ Len(Printed(s \o t)) = Len(Printed(s)) + Len(Printed(t))
<1>1. s \o t \in Seq(Chunker!Char)
  BY ConcatProperties
<1>2. Mapped(PrintedAs, s \o t) = Mapped(PrintedAs, s) \o Mapped(PrintedAs, t)
  BY MappedCat
<1>3. /\ Printed(s) = FlattenSeq(Mapped(PrintedAs, s))
      /\ Printed(t) = FlattenSeq(Mapped(PrintedAs, t))
      /\ Printed(s \o t) = FlattenSeq(Mapped(PrintedAs, s \o t))
      /\ Mapped(PrintedAs, s) \in Seq(Seq(Chunker!Char))
      /\ Mapped(PrintedAs, t) \in Seq(Seq(Chunker!Char))
      /\ Printed(s) \in Seq(Chunker!Char) /\ Printed(t) \in Seq(Chunker!Char)
  BY <1>1, PrintedMapped
<1>4. FlattenSeq(Mapped(PrintedAs, s) \o Mapped(PrintedAs, t))
        = FlattenSeq(Mapped(PrintedAs, s)) \o FlattenSeq(Mapped(PrintedAs, t))
  BY <1>3, FlattenCat
<1>5. Printed(s \o t) = Printed(s) \o Printed(t)
  BY <1>2, <1>3, <1>4, Zenon
<1> QED BY <1>3, <1>5, ConcatProperties

\* A text of one character.
LEMMA PrintedOne ==
  ASSUME NEW c \in Chunker!Char
  PROVE  Printed(<<c>>) = IF NotBlank(c) THEN <<c>> ELSE <<>>
<1> DEFINE p == IF NotBlank(c) THEN <<c>> ELSE <<>>
<1>1. p \in Seq(Chunker!Char) /\ <<c>> \in Seq(Chunker!Char)
  OBVIOUS
<1>2. Mapped(PrintedAs, <<c>>) = <<PrintedAs[c]>>
  BY DEF Mapped
<1>3. PrintedAs[c] = p
  BY DEF PrintedAs
<1> HIDE DEF p
<1>4. FlattenSeq(<<p>>) = p
  <2>1. Append(<<>>, p) = <<p>> /\ <<>> \in Seq(Seq(Chunker!Char)) /\ <<>> \o p = p
    BY <1>1, ConcatEmptySeq
  <2>2. FlattenSeq(Append(<<>>, p)) = FlattenSeq(<<>>) \o p
    BY <1>1, <2>1, FlattenSnoc
  <2> QED BY <2>1, <2>2, FlattenEmpty
<1>5. Printed(<<c>>) = FlattenSeq(Mapped(PrintedAs, <<c>>))
  BY <1>1, PrintedMapped
<1> QED BY <1>2, <1>3, <1>4, <1>5 DEF p

LEMMA PrintedEmpty == Printed(<<>>) = <<>>
<1>1. <<>> \in Seq(Chunker!Char) /\ Mapped(PrintedAs, <<>>) = <<>>
  BY DEF Mapped
<1> QED BY <1>1, PrintedMapped, FlattenEmpty

\* Blanks print nothing.
LEMMA PrintedBlank ==
  ASSUME NEW t \in Seq(Chunker!Char), \A i \in 1 .. Len(t) : ~NotBlank(t[i])
  PROVE  Printed(t) = <<>>
<1> DEFINE G == {s \in Seq(Chunker!Char) :
                   (\A i \in 1 .. Len(s) : ~NotBlank(s[i])) => Printed(s) = <<>>}
<1>1. <<>> \in G
  BY PrintedEmpty
<1>2. ASSUME NEW s \in Seq(Chunker!Char), NEW c \in Chunker!Char, s \in G
      PROVE  Append(s, c) \in G
  <2>1. /\ Append(s, c) \in Seq(Chunker!Char) /\ Len(Append(s, c)) = Len(s) + 1
        /\ Append(s, c)[Len(s) + 1] = c
        /\ \A i \in 1 .. Len(s) : Append(s, c)[i] = s[i]
        /\ Append(s, c) = s \o <<c>> /\ <<c>> \in Seq(Chunker!Char) /\ Len(s) \in Nat
    BY AppendProperties, AppendIsConcat
  <2> SUFFICES ASSUME \A i \in 1 .. Len(s) + 1 : ~NotBlank(Append(s, c)[i])
               PROVE  Printed(Append(s, c)) = <<>>
    BY <2>1
  <2>2. \A i \in 1 .. Len(s) : ~NotBlank(s[i])
    BY <2>1
  <2>3. Len(s) + 1 \in 1 .. Len(s) + 1
    BY <2>1
  <2>4. ~NotBlank(c)
    BY <2>1, <2>3
  <2>5. Printed(s) = <<>>
    BY <1>2, <2>2
  <2>6. Printed(<<c>>) = <<>>
    BY <2>4, PrintedOne
  <2>7. <<>> \o <<>> = <<>>
    OBVIOUS
  <2> QED BY <2>1, <2>5, <2>6, <2>7, PrintedCat
<1>3. Seq(Chunker!Char) \subseteq G
  <2> HIDE DEF G
  <2> QED BY <1>1, <1>2, SeqInduct
<1> QED BY <1>3

\* A text that ends in a character that is not blank prints more than the text
\* before that.
LEMMA PrintedInk ==
  ASSUME NEW t \in Seq(Chunker!Char), t # <<>>, NotBlank(t[Len(t)])
  PROVE  Len(Printed(t)) > 0
<1>1. PICK s \in Seq(Chunker!Char), c \in Chunker!Char : t = Append(s, c)
  BY SequenceEmptyOrAppend
<1>2. t = s \o <<c>> /\ <<c>> \in Seq(Chunker!Char) /\ t[Len(t)] = c
  BY <1>1, AppendIsConcat, AppendProperties
<1>3. Printed(<<c>>) = <<c>>
  BY <1>2, PrintedOne
<1>4. Len(Printed(t)) = Len(Printed(s)) + Len(Printed(<<c>>))
  BY <1>2, PrintedCat
<1>5. Len(Printed(s)) \in Nat
  <2>1. Printed(s) \in Seq(Chunker!Char)
    BY PrintedMapped
  <2> QED BY <2>1
<1>6. Len(Printed(<<c>>)) = 1
  BY <1>3
<1> DEFINE p == Len(Printed(t))
           a == Len(Printed(s))
<1>7. a \in Nat /\ p = a + 1
  BY <1>4, <1>5, <1>6, Zenon
<1> HIDE DEF p, a
<1>8. p > 0
  BY <1>7
<1> QED BY <1>8 DEF p
----------------------------------------------------------------------------
(* Where a text is cut.                                                    *)

\* A set of numbers that is not empty has a first.
LEMMA FirstExists ==
  ASSUME NEW k \in Nat, NEW s \in SUBSET (1 .. k), s # {}
  PROVE  \E l \in s : \A y \in s : l <= y
<1>1. s \subseteq Nat
  OBVIOUS
<1>2. PICK l \in s : \A y \in s : <<y, l>> \notin OpToRel(<, Nat)
  BY <1>1, NatLessThanWellFounded, WFMin, Zenon
<1>3. \A y \in s : ~ (y < l)
  BY <1>1, <1>2 DEF OpToRel
<1> QED BY <1>1, <1>3

LEMMA ChunkerMin ==
  ASSUME NEW k \in Nat, NEW s \in SUBSET (1 .. k), s # {}
  PROVE  Chunker!Min(s) \in s /\ \A y \in s : Chunker!Min(s) <= y
<1>1. \E l \in s : \A y \in s : l <= y
  BY FirstExists
<1> QED BY <1>1, Zenon DEF Chunker!Min

LEMMA ChunkerMax ==
  ASSUME NEW k \in Nat, NEW s \in SUBSET (1 .. k), s # {}
  PROVE  Chunker!Max(s) \in s /\ \A y \in s : Chunker!Max(s) >= y
<1>1. \E l \in s : \A y \in s : l >= y
  BY LastExists
<1> QED BY <1>1, Zenon DEF Chunker!Max

\* The places that are not blank.
LEMMA InkIs ==
  ASSUME NEW s \in Seq(Chunker!Char)
  PROVE  /\ Len(s) \in Nat
         /\ Chunker!Ink(s) \in SUBSET (1 .. Len(s))
         /\ \A i \in 1 .. Len(s) : i \in Chunker!Ink(s) <=> NotBlank(s[i])
<1>1. Len(s) \in Nat /\ DOMAIN s = 1 .. Len(s)
  OBVIOUS
<1> QED BY <1>1 DEF Chunker!Ink, NotBlank

\* A part of a text.
LEMMA PartOf ==
  ASSUME NEW s \in Seq(Chunker!Char), NEW m \in 1 .. Len(s) + 1, NEW n \in m - 1 .. Len(s)
  PROVE  /\ SubSeq(s, m, n) \in Seq(Chunker!Char)
         /\ Len(SubSeq(s, m, n)) = n - m + 1
         /\ \A i \in 1 .. n - m + 1 : SubSeq(s, m, n)[i] = s[m + i - 1]
<1>1. Len(s) \in Nat /\ \A i \in 1 .. Len(s) : s[i] \in Chunker!Char
  OBVIOUS
<1>2. \A i \in m .. n : s[i] \in Chunker!Char
  BY <1>1
<1>3. m \in Int /\ n \in Int
  OBVIOUS
<1>4. /\ SubSeq(s, m, n) \in Seq(Chunker!Char)
      /\ Len(SubSeq(s, m, n)) = IF m <= n THEN n - m + 1 ELSE 0
      /\ \A i \in 1 .. n - m + 1 : SubSeq(s, m, n)[i] = s[m + i - 1]
  BY <1>2, <1>3, SubSeqProperties
<1> QED BY <1>4

\* lstrip takes the blanks in front.
LEMMA LStripped ==
  ASSUME NEW s \in Seq(Chunker!Char)
  PROVE  \E m \in 0 .. Len(s) : /\ Len(Chunker!LStrip(s)) = Len(s) - m
                                /\ \A i \in 1 .. m : ~NotBlank(s[i])
                                /\ m < Len(s) => NotBlank(s[m + 1])
<1> DEFINE ink == Chunker!Ink(s)
           n == Len(s)
<1>1. n \in Nat /\ ink \in SUBSET (1 .. n) /\ \A i \in 1 .. n : i \in ink <=> NotBlank(s[i])
  BY InkIs
<1> SUFFICES \E m \in 0 .. n : /\ Len(Chunker!LStrip(s)) = n - m
                               /\ \A i \in 1 .. m : ~NotBlank(s[i])
                               /\ m < n => NotBlank(s[m + 1])
  OBVIOUS
<1>2. CASE ink = {}
  <2>1. Chunker!LStrip(s) = <<>>
    BY <1>2 DEF Chunker!LStrip
  <2>2. n \in 0 .. n /\ Len(<<>>) = n - n /\ ~(n < n) /\ \A i \in 1 .. n : ~NotBlank(s[i])
    BY <1>1, <1>2
  <2> QED BY <2>1, <2>2
<1>3. CASE ink # {}
  <2> DEFINE f == Chunker!Min(ink)
  <2>1. f \in ink /\ \A y \in ink : f <= y
    BY <1>1, <1>3, ChunkerMin
  <2>2. Chunker!LStrip(s) = SubSeq(s, f, n)
    BY <1>3 DEF Chunker!LStrip
  <2> HIDE DEF f, ink
  <2>3. f \in 1 .. n /\ n \in f - 1 .. Len(s) /\ f \in 1 .. Len(s) + 1
    BY <1>1, <2>1
  <2>4. Len(SubSeq(s, f, n)) = n - f + 1
    BY <2>3, PartOf
  <2> DEFINE m == f - 1
  <2>5. /\ m \in 0 .. n /\ n - f + 1 = n - m /\ m + 1 = f
        /\ \A i \in 1 .. m : i \in 1 .. n /\ i < f
    BY <1>1, <2>3
  <2>6. \A i \in 1 .. m : ~NotBlank(s[i])
    BY <1>1, <2>1, <2>5
  <2>7. NotBlank(s[m + 1])
    BY <1>1, <2>1, <2>3, <2>5
  <2> HIDE DEF m, n
  <2> QED BY <2>2, <2>4, <2>5, <2>6, <2>7
<1> QED BY <1>2, <1>3

\* strip takes those behind too.
LEMMA StrippedText ==
  ASSUME NEW s \in Seq(Chunker!Char)
  PROVE  \/ Chunker!Strip(s) = <<>> /\ \A i \in 1 .. Len(s) : ~NotBlank(s[i])
         \/ \E a, z \in 1 .. Len(s) :
              /\ a <= z /\ Chunker!Strip(s) = SubSeq(s, a, z)
              /\ NotBlank(s[a]) /\ NotBlank(s[z])
              /\ \A i \in 1 .. Len(s) : i < a \/ i > z => ~NotBlank(s[i])
<1> DEFINE ink == Chunker!Ink(s)
           n == Len(s)
<1>1. n \in Nat /\ ink \in SUBSET (1 .. n) /\ \A i \in 1 .. n : i \in ink <=> NotBlank(s[i])
  BY InkIs
<1>2. CASE ink = {}
  <2>1. Chunker!Strip(s) = <<>>
    BY <1>2 DEF Chunker!Strip
  <2> QED BY <1>1, <1>2, <2>1
<1>3. CASE ink # {}
  <2> DEFINE a == Chunker!Min(ink)
             z == Chunker!Max(ink)
  <2>1. a \in ink /\ z \in ink /\ \A y \in ink : a <= y /\ z >= y
    BY <1>1, <1>3, ChunkerMin, ChunkerMax
  <2>2. Chunker!Strip(s) = SubSeq(s, a, z)
    BY <1>3 DEF Chunker!Strip
  <2> HIDE DEF a, z, ink
  <2>3. a \in 1 .. n /\ z \in 1 .. n /\ a <= z /\ NotBlank(s[a]) /\ NotBlank(s[z])
    BY <1>1, <2>1
  <2>4. \A i \in 1 .. n : i < a \/ i > z => ~NotBlank(s[i])
    BY <1>1, <2>1, <2>3
  <2> QED BY <2>2, <2>3, <2>4
<1> QED BY <1>2, <1>3

\* strip leaves the start of a text that starts with a character that is not blank.
LEMMA StrippedHead ==
  ASSUME NEW s \in Seq(Chunker!Char), s # <<>>, NotBlank(s[1])
  PROVE  \E b \in 1 .. Len(s) : /\ Chunker!Strip(s) = SubSeq(s, 1, b)
                                /\ NotBlank(s[b])
                                /\ \A i \in b + 1 .. Len(s) : ~NotBlank(s[i])
<1>1. Len(s) \in Nat /\ 1 \in 1 .. Len(s)
  OBVIOUS
<1>2. PICK a \in 1 .. Len(s), z \in 1 .. Len(s) :
        /\ a <= z /\ Chunker!Strip(s) = SubSeq(s, a, z)
        /\ NotBlank(s[a]) /\ NotBlank(s[z])
        /\ \A i \in 1 .. Len(s) : i < a \/ i > z => ~NotBlank(s[i])
  BY <1>1, StrippedText, Zenon
<1>3. a = 1
  BY <1>1, <1>2
<1>4. \A i \in z + 1 .. Len(s) : i \in 1 .. Len(s) /\ i > z
  BY <1>1
<1> QED BY <1>2, <1>3, <1>4

\* Nothing in the first m characters to cut at.
NoSeparator(s, m) ==
  \A j \in 1 .. m :
    /\ s[j] # "space"
    /\ j < m /\ s[j + 1] = "newline" => s[j] \notin {"stop", "newline"}

\* _find_cut_point cuts at a character that is not blank only where it finds
\* nothing better.
LEMMA CutFound ==
  ASSUME NEW s \in Seq(Chunker!Char), NEW max \in Nat \ {0}
  PROVE  /\ Chunker!CutPoint(s, max) \in 1 .. max
         /\ NotBlank(s[1]) /\ NotBlank(s[Chunker!CutPoint(s, max)]) =>
              Chunker!CutPoint(s, max) = max /\ NoSeparator(s, max)
<1> DEFINE p == Chunker!Paragraphs(s, max)
           e == Chunker!SentenceEnds(s, max)
           w == Chunker!Spaces(s, max)
           c == Chunker!CutPoint(s, max)
<1>1. /\ p \in SUBSET (1 .. max) /\ \A i \in p : ~NotBlank(s[i])
      /\ \A j \in 2 .. max - 1 : s[j] = "newline" /\ s[j + 1] = "newline" => p # {}
  <2>1. \A j \in 2 .. max - 1 : j + 1 \in 1 .. max
    OBVIOUS
  <2>2. \A j \in 2 .. max - 1 : s[j + 1] = "newline" => ~NotBlank(s[j + 1])
    BY DEF NotBlank, Chunker!Blanks
  <2> QED BY <2>1, <2>2 DEF Chunker!Paragraphs
<1>2. /\ e \in SUBSET (1 .. max) /\ \A i \in e : ~NotBlank(s[i])
      /\ \A j \in 1 .. max - 1 : s[j] = "stop" /\ s[j + 1] = "newline" => e # {}
  <2>1. \A j \in 1 .. max - 1 : j + 1 \in 1 .. max
    OBVIOUS
  <2> QED BY <2>1 DEF Chunker!SentenceEnds, NotBlank, Chunker!Blanks
<1>3. /\ w \in SUBSET (1 .. max) /\ \A i \in w : ~NotBlank(s[i])
      /\ \A j \in 2 .. max : s[j] = "space" => w # {}
  BY DEF Chunker!Spaces, NotBlank, Chunker!Blanks
<1> HIDE DEF p, e, w
<1>4. CASE p # {}
  <2>1. c = Chunker!Max(p)
    BY <1>4 DEF Chunker!CutPoint, p
  <2>2. c \in p
    BY <1>1, <1>4, <2>1, ChunkerMax
  <2> HIDE DEF c
  <2> QED BY <1>1, <2>2 DEF c
<1>5. CASE p = {} /\ e # {}
  <2>1. c = Chunker!Max(e)
    BY <1>5 DEF Chunker!CutPoint, p, e
  <2>2. c \in e
    BY <1>2, <1>5, <2>1, ChunkerMax
  <2> HIDE DEF c
  <2> QED BY <1>2, <2>2 DEF c
<1>6. CASE p = {} /\ e = {} /\ w # {}
  <2>1. c = Chunker!Max(w)
    BY <1>6 DEF Chunker!CutPoint, p, e, w
  <2>2. c \in w
    BY <1>3, <1>6, <2>1, ChunkerMax
  <2> HIDE DEF c
  <2> QED BY <1>3, <2>2 DEF c
<1>7. CASE p = {} /\ e = {} /\ w = {}
  <2>1. c = max
    BY <1>7 DEF Chunker!CutPoint, p, e, w
  <2>2. NotBlank(s[1]) => s[1] \notin {"space", "newline"}
    BY DEF NotBlank, Chunker!Blanks
  <2>3. ASSUME NotBlank(s[1]), NEW j \in 1 .. max
        PROVE  /\ s[j] # "space"
               /\ j < max /\ s[j + 1] = "newline" => s[j] \notin {"stop", "newline"}
    <3>1. j = 1 \/ j \in 2 .. max
      OBVIOUS
    <3>2. j < max => j \in 1 .. max - 1 /\ (j = 1 \/ j \in 2 .. max - 1)
      OBVIOUS
    <3> QED BY <1>1, <1>2, <1>3, <1>7, <2>2, <2>3, <3>1, <3>2
  <2>4. NotBlank(s[1]) => NoSeparator(s, max)
    BY <2>3 DEF NoSeparator
  <2>5. max \in 1 .. max
    OBVIOUS
  <2> HIDE DEF c
  <2> QED BY <2>1, <2>4, <2>5 DEF c
<1> QED BY <1>4, <1>5, <1>6, <1>7
\* The length of what the next chunk is taken from.
Reach(s, max) == IF Len(s) <= max THEN Len(s) ELSE Chunker!CutPoint(s, max)

\* A chunk is taken from at least one character, of any text.
LEMMA ChunkReach ==
  ASSUME NEW s \in Seq(Chunker!Char), s # <<>>, NEW max \in Nat \ {0}
  PROVE  /\ Reach(s, max) \in 1 .. Len(s) /\ Reach(s, max) <= max
         /\ Chunker!Strip(SubSeq(s, 1, Reach(s, max))) \in Seq(Chunker!Char)
         /\ Len(Chunker!LStrip(SubSeq(s, Reach(s, max) + 1, Len(s)))) \in 0 .. Len(s) - 1
<1> DEFINE n == Len(s)
           c == Reach(s, max)
           h == SubSeq(s, 1, c)
           r == SubSeq(s, c + 1, n)
<1>1. n \in Nat \ {0}
  BY EmptySeq
<1>2. c \in 1 .. n /\ c <= max
  BY <1>1, CutFound DEF Reach
<1> HIDE DEF n, c
<1>3. 1 \in 1 .. n + 1 /\ c \in 1 - 1 .. n /\ c + 1 \in 1 .. n + 1 /\ n \in (c + 1) - 1 .. n
  BY <1>1, <1>2
<1>4. h \in Seq(Chunker!Char) /\ r \in Seq(Chunker!Char) /\ Len(r) = n - (c + 1) + 1
  BY <1>3, PartOf DEF n
<1> HIDE DEF h, r
<1>5. Chunker!Strip(h) \in Seq(Chunker!Char)
  <2>1. CASE Chunker!Strip(h) = <<>>
    BY <2>1
  <2>2. CASE \E a, z \in 1 .. Len(h) : a <= z /\ Chunker!Strip(h) = SubSeq(h, a, z)
    <3>1. PICK a \in 1 .. Len(h), z \in 1 .. Len(h) :
            a <= z /\ Chunker!Strip(h) = SubSeq(h, a, z)
      BY <2>2
    <3>2. a \in 1 .. Len(h) + 1 /\ z \in a - 1 .. Len(h)
      BY <1>4, <3>1
    <3> QED BY <1>4, <3>1, <3>2, PartOf
  <2> QED BY <1>4, <2>1, <2>2, StrippedText
<1>6. Len(Chunker!LStrip(r)) \in 0 .. n - 1
  <2>1. PICK m \in 0 .. Len(r) : Len(Chunker!LStrip(r)) = Len(r) - m
    BY <1>4, LStripped
  <2> QED BY <1>1, <1>2, <1>4, <2>1
<1> QED BY <1>2, <1>5, <1>6 DEF n, c, h, r

\* One turn of the loop of chunk_text: the chunk is the text up to b, and m
\* characters are taken from what remains.
LEMMA ChunkTaken ==
  ASSUME NEW s \in Seq(Chunker!Char), s # <<>>, NotBlank(s[1]), NEW max \in Nat \ {0}
  PROVE  \E b, m \in 1 .. Len(s) :
           /\ b <= m /\ b <= max
           /\ Chunker!Strip(SubSeq(s, 1, Reach(s, max))) = SubSeq(s, 1, b)
           /\ Len(Chunker!LStrip(SubSeq(s, Reach(s, max) + 1, Len(s)))) = Len(s) - m
           /\ NotBlank(s[b])
           /\ \A i \in b + 1 .. m : ~NotBlank(s[i])
           /\ m < Len(s) => NotBlank(s[m + 1])
           /\ b < Len(s) /\ NotBlank(s[b + 1]) => NoBetterCut(SubSeq(s, 1, b), max)
<1> DEFINE n == Len(s)
           c == Reach(s, max)
           h == SubSeq(s, 1, c)
           r == SubSeq(s, c + 1, n)
<1>1. n \in Nat \ {0}
  BY EmptySeq
<1>2. c \in 1 .. n /\ c <= max
  BY ChunkReach
<1>3. n > c /\ NotBlank(s[c]) => c = max /\ NoSeparator(s, max)
  <2>1. n > c => c = Chunker!CutPoint(s, max)
    BY <1>1 DEF Reach
  <2> HIDE DEF c
  <2> QED BY <2>1, CutFound
<1> HIDE DEF n, c
<1>4. 1 \in 1 .. n + 1 /\ c \in 1 - 1 .. n /\ c + 1 \in 1 .. n + 1 /\ n \in (c + 1) - 1 .. n
  BY <1>1, <1>2
<1>5. /\ h \in Seq(Chunker!Char) /\ Len(h) = c - 1 + 1
      /\ \A i \in 1 .. c - 1 + 1 : h[i] = s[1 + i - 1]
      /\ r \in Seq(Chunker!Char) /\ Len(r) = n - (c + 1) + 1
      /\ \A i \in 1 .. n - (c + 1) + 1 : r[i] = s[c + 1 + i - 1]
  BY <1>4, PartOf DEF n
<1> HIDE DEF h, r
<1>6. /\ Len(h) = c /\ \A i \in 1 .. c : h[i] = s[i]
      /\ Len(r) = n - c /\ \A i \in 1 .. n - c : r[i] = s[c + i]
  BY <1>1, <1>2, <1>5
<1>7. h # <<>> /\ NotBlank(h[1])
  <2>1. 1 \in 1 .. c /\ Len(h) # 0
    BY <1>2, <1>6
  <2>2. h # <<>>
    BY <2>1
  <2> QED BY <1>6, <2>1, <2>2
<1>8. PICK b \in 1 .. c : /\ Chunker!Strip(h) = SubSeq(h, 1, b)
                          /\ NotBlank(h[b])
                          /\ \A i \in b + 1 .. c : ~NotBlank(h[i])
  <2>1. \E b \in 1 .. Len(h) : /\ Chunker!Strip(h) = SubSeq(h, 1, b)
                               /\ NotBlank(h[b])
                               /\ \A i \in b + 1 .. Len(h) : ~NotBlank(h[i])
    BY <1>5, <1>7, StrippedHead
  <2> QED BY <1>6, <2>1
<1>9. SubSeq(h, 1, b) = SubSeq(s, 1, b)
  <2>1. /\ 1 \in 1 .. Len(s) /\ c \in 1 .. Len(s)
        /\ 1 \in 1 .. c - 1 + 1 /\ b \in 1 .. c - 1 + 1
    BY <1>1, <1>2 DEF n
  <2>2. SubSeq(SubSeq(s, 1, c), 1, b) = SubSeq(s, 1 + 1 - 1, 1 + b - 1)
    BY <2>1, SubSeqOfSubSeq
  <2>3. 1 + 1 - 1 = 1 /\ 1 + b - 1 = b
    BY <1>8
  <2> QED BY <2>2, <2>3 DEF h
<1>10. PICK k \in 0 .. n - c : /\ Len(Chunker!LStrip(r)) = (n - c) - k
                               /\ \A i \in 1 .. k : ~NotBlank(r[i])
                               /\ k < n - c => NotBlank(r[k + 1])
  <2>1. \E k \in 0 .. Len(r) : /\ Len(Chunker!LStrip(r)) = Len(r) - k
                               /\ \A i \in 1 .. k : ~NotBlank(r[i])
                               /\ k < Len(r) => NotBlank(r[k + 1])
    BY <1>5, LStripped
  <2> QED BY <1>6, <2>1
<1> DEFINE m == c + k
<1>11. m \in 1 .. n /\ b \in 1 .. n /\ b <= c /\ c <= m /\ (n - c) - k = n - m
  BY <1>1, <1>2
<1>12. NotBlank(s[b])
  BY <1>6, <1>8
<1>13. \A i \in b + 1 .. m : ~NotBlank(s[i])
  <2> SUFFICES ASSUME NEW i \in b + 1 .. m PROVE ~NotBlank(s[i])
    OBVIOUS
  <2>1. CASE i <= c
    <3>1. i \in 1 .. c /\ i \in b + 1 .. c
      BY <1>2, <2>1
    <3> QED BY <1>6, <1>8, <3>1
  <2>2. CASE ~ (i <= c)
    <3>1. i - c \in 1 .. k /\ i - c \in 1 .. n - c /\ c + (i - c) = i
      BY <1>1, <1>2, <2>2
    <3> QED BY <1>6, <1>10, <3>1
  <2> QED BY <2>1, <2>2
<1>14. m < n => NotBlank(s[m + 1])
  <2>1. m < n => k < n - c /\ k + 1 \in 1 .. n - c /\ c + (k + 1) = m + 1
    BY <1>1, <1>2
  <2> HIDE DEF m
  <2> QED BY <1>6, <1>10, <2>1
<1> HIDE DEF m
<1>15. ASSUME b < n, NotBlank(s[b + 1]) PROVE NoBetterCut(SubSeq(s, 1, b), max)
  <2>1. b = c
    <3>1. b + 1 <= c => b + 1 \in b + 1 .. m
      BY <1>2, <1>11
    <3> QED BY <1>2, <1>11, <1>13, <1>15, <3>1
  <2>2. b = max /\ NoSeparator(s, max)
    BY <1>3, <1>12, <1>15, <2>1
  <2>3. Len(h) = max /\ \A j \in 1 .. max : h[j] = s[j]
    BY <1>6, <2>1, <2>2
  <2>4. DOMAIN h = 1 .. max
    BY <1>5, <2>3
  <2>5. ASSUME NEW j \in 1 .. max
        PROVE  /\ h[j] # "space"
               /\ j < max /\ h[j + 1] = "newline" => h[j] \notin {"stop", "newline"}
    <3>1. h[j] = s[j] /\ (j < max => h[j + 1] = s[j + 1])
      BY <2>3
    <3> QED BY <2>2, <3>1 DEF NoSeparator
  <2>6. NoBetterCut(h, max)
    BY <2>3, <2>4, <2>5, Zenon DEF NoBetterCut
  <2> QED BY <2>1, <2>6 DEF h
<1>16. b <= m /\ b <= max
  BY <1>2, <1>11
<1> QED BY <1>8, <1>9, <1>10, <1>11, <1>12, <1>13, <1>14, <1>15, <1>16 DEF n, c, h, r
\* What remains of the text after its first at characters.
Rest(t, at) == SubSeq(t, at + 1, Len(t))
HeadOf(t, at, max) == Chunker!Strip(SubSeq(Rest(t, at), 1, Reach(Rest(t, at), max)))
AfterHead(t, at, max) ==
  Len(t) - Len(Chunker!LStrip(SubSeq(Rest(t, at), Reach(Rest(t, at), max) + 1, Len(t) - at)))
OneChunk(c) == IF c = <<>> THEN <<>> ELSE <<c>>

\* The loop of chunk_text goes from one cut to the next.
Cuts(f, t, max) ==
  /\ f[Len(t)] = <<>>
  /\ \A at \in 0 .. Len(t) - 1 :
       f[at] = OneChunk(HeadOf(t, at, max)) \o f[AfterHead(t, at, max)]

LEMMA ChunksUnfold ==
  ASSUME NEW text, NEW t, t = Chunker!Strip(text), t \in Seq(Chunker!Char),
         NEW max \in Nat \ {0}
  PROVE  \E f : Chunker!Chunks(text, max) = f[0] /\ Cuts(f, t, max)
<1> DEFINE n == Len(t)
           S == Seq(Seq(Chunker!Char))
           Go(at) == AfterHead(t, at, max)
           One(at) == OneChunk(HeadOf(t, at, max))
           D(f) == [at \in 0 .. n |-> IF at = n THEN <<>> ELSE One(at) \o f[Go(at)]]
           F == CHOOSE f : f = D(f)
           jump == [at \in 0 .. n |-> IF at = n THEN 0 ELSE Go(at) - at]
           step == [x \in S \X Nat |->
                      IF x[2] \in 0 .. n - 1 THEN One(x[2]) \o x[1] ELSE <<>>]
<1>1. n \in Nat
  OBVIOUS
<1>2. Chunker!Chunks(text, max) = F[0]
  <2>1. ASSUME NEW at \in 0 .. n
        PROVE  /\ Len(Rest(t, at)) = n - at
               /\ Reach(Rest(t, at), max)
                    = IF n - at <= max THEN n - at ELSE Chunker!CutPoint(Rest(t, at), max)
    <3>1. at + 1 \in 1 .. n + 1 /\ n \in (at + 1) - 1 .. n /\ n - (at + 1) + 1 = n - at
      BY <1>1
    <3>2. Len(Rest(t, at)) = n - at
      BY <3>1, PartOf DEF Rest
    <3> QED BY <3>2, Zenon DEF Reach
  <2> DEFINE E(f) ==
        [at \in 0 .. n |->
           IF at = n THEN <<>>
           ELSE (IF Chunker!Strip(SubSeq(SubSeq(t, at + 1, n), 1,
                      IF n - at <= max THEN n - at
                      ELSE Chunker!CutPoint(SubSeq(t, at + 1, n), max))) = <<>>
                 THEN <<>>
                 ELSE <<Chunker!Strip(SubSeq(SubSeq(t, at + 1, n), 1,
                          IF n - at <= max THEN n - at
                          ELSE Chunker!CutPoint(SubSeq(t, at + 1, n), max)))>>)
                \o f[n - Len(Chunker!LStrip(SubSeq(SubSeq(t, at + 1, n),
                       (IF n - at <= max THEN n - at
                        ELSE Chunker!CutPoint(SubSeq(t, at + 1, n), max)) + 1, n - at)))]]
  <2>2. Chunker!Chunks(text, max) = (CHOOSE f : f = E(f))[0]
    BY Zenon DEF Chunker!Chunks
  <2>3. ASSUME NEW f PROVE E(f) = D(f)
    BY <2>1, Zenon DEF Rest, HeadOf, AfterHead, OneChunk
  <2> HIDE DEF D, E
  <2>4. (CHOOSE f : f = E(f)) = (CHOOSE f : f = D(f))
    BY <2>3
  <2> QED BY <2>2, <2>4 DEF F
<1>3. ASSUME NEW at \in 0 .. n - 1
      PROVE  One(at) \in S /\ Go(at) \in Nat /\ Go(at) > at /\ Go(at) <= n
  <2> DEFINE s == Rest(t, at)
  <2>1. at + 1 \in 1 .. n + 1 /\ n \in (at + 1) - 1 .. n /\ n - (at + 1) + 1 = n - at
    BY <1>1
  <2>2. s \in Seq(Chunker!Char) /\ Len(s) = n - at
    BY <2>1, PartOf DEF Rest
  <2> HIDE DEF s
  <2>3. s # <<>>
    <3>1. Len(s) # 0
      BY <1>1, <2>2
    <3> QED BY <3>1
  <2>4. /\ Chunker!Strip(SubSeq(s, 1, Reach(s, max))) \in Seq(Chunker!Char)
        /\ Len(Chunker!LStrip(SubSeq(s, Reach(s, max) + 1, Len(s)))) \in 0 .. Len(s) - 1
    BY <2>2, <2>3, ChunkReach
  <2>5. One(at) \in S
    <3>1. HeadOf(t, at, max) \in Seq(Chunker!Char)
      BY <2>4 DEF HeadOf, s
    <3> QED BY <3>1 DEF OneChunk
  <2>6. Go(at) = n - Len(Chunker!LStrip(SubSeq(s, Reach(s, max) + 1, Len(s))))
    BY <2>2, Zenon DEF AfterHead, s
  <2>7. Go(at) \in Nat /\ Go(at) > at /\ Go(at) <= n
    <3> HIDE DEF n, Go
    <3> QED BY <1>1, <2>2, <2>4, <2>6
  <2> QED BY <2>5, <2>7
<1> HIDE DEF n, Go, One, F
<1>4. /\ jump \in [0 .. n -> Nat]
      /\ \A at \in 0 .. n : at + jump[at] <= n
      /\ \A at \in 0 .. n : jump[at] = 0 <=> at = n
      /\ \A at \in 0 .. n - 1 : at + jump[at] = Go(at)
  <2>1. ASSUME NEW at \in 0 .. n
        PROVE  /\ jump[at] = (IF at = n THEN 0 ELSE Go(at) - at)
               /\ at = n \/ at \in 0 .. n - 1
    BY <1>1
  <2>2. jump = [at \in 0 .. n |-> jump[at]]
    OBVIOUS
  <2> HIDE DEF jump
  <2>3. ASSUME NEW at \in 0 .. n
        PROVE  /\ jump[at] \in Nat /\ at + jump[at] <= n
               /\ jump[at] = 0 <=> at = n
               /\ at # n => at + jump[at] = Go(at)
    <3>1. CASE at = n
      BY <1>1, <2>1, <3>1
    <3>2. CASE at # n
      <4> DEFINE g == Go(at)
                 j == jump[at]
      <4>1. g \in Nat /\ g > at /\ g <= n /\ j = g - at
        BY <1>3, <2>1, <3>2
      <4> HIDE DEF g, j
      <4>2. j \in Nat /\ at + j <= n /\ j # 0 /\ at + j = g
        BY <1>1, <4>1
      <4> QED BY <3>2, <4>2 DEF g, j
    <3> QED BY <3>1, <3>2
  <2>4. \A at \in 0 .. n - 1 : at \in 0 .. n /\ at # n
    BY <1>1
  <2> QED BY <2>2, <2>3, <2>4
<1> HIDE DEF jump
<1>5. \E f : f = D(f)
  <2>1. <<>> \in S
    OBVIOUS
  <2>2. step \in [S \X Nat -> S]
    <3> SUFFICES ASSUME NEW x \in S \X Nat, x[2] \in 0 .. n - 1
                 PROVE  One(x[2]) \o x[1] \in S
      BY <2>1
    <3>1. x[1] \in S /\ One(x[2]) \in S
      BY <1>3
    <3> QED BY <3>1, ConcatProperties
  <2> HIDE DEF S
  <2>3. PICK f \in [0 .. n -> S] : Jumps(f, n, jump, <<>>, step)
    <3> HIDE DEF step
    <3> QED BY <1>1, <1>4, <2>1, <2>2, JumpsExist
  <2>4. ASSUME NEW at \in 0 .. n
        PROVE  f[at] = IF at = n THEN <<>> ELSE One(at) \o f[Go(at)]
    <3>1. f[at] = IF at = n THEN <<>> ELSE step[<<f[at + jump[at]], at>>]
      <4> HIDE DEF step
      <4> QED BY <1>4, <2>3, Zenon DEF Jumps
    <3>2. ASSUME at # n
          PROVE  step[<<f[at + jump[at]], at>>] = One(at) \o f[Go(at)]
      <4>1. at \in 0 .. n - 1 /\ at \in Nat
        BY <1>1, <3>2
      <4>2. at + jump[at] = Go(at) /\ Go(at) \in 0 .. n
        BY <1>3, <1>4, <4>1
      <4> DEFINE u == f[Go(at)]
      <4>3. u \in S
        BY <2>3, <4>2
      <4> HIDE DEF u
      <4>4. <<u, at>> \in S \X Nat /\ <<u, at>>[1] = u /\ <<u, at>>[2] = at
        BY <4>1, <4>3
      <4>5. step[<<u, at>>] = One(at) \o u
        BY <4>1, <4>4, Zenon
      <4> QED BY <4>2, <4>5 DEF u
    <3> QED BY <3>1, <3>2, Zenon
  <2>5. f = [at \in 0 .. n |-> f[at]]
    BY <2>3
  <2>6. f = D(f)
    BY <2>4, <2>5, Zenon
  <2> QED BY <2>6
<1>6. F = D(F)
  BY <1>5, Zenon DEF F
<1>7. ASSUME NEW at \in 0 .. n
      PROVE  F[at] = IF at = n THEN <<>> ELSE One(at) \o F[Go(at)]
  BY <1>6, Zenon
<1>8. n \in 0 .. n /\ \A at \in 0 .. n - 1 : at \in 0 .. n /\ at # n
  BY <1>1
<1>9. F[n] = <<>> /\ \A at \in 0 .. n - 1 : F[at] = One(at) \o F[Go(at)]
  BY <1>7, <1>8, Zenon
<1>10. Cuts(F, t, max)
  BY <1>9, Zenon DEF Cuts, n, One, Go
<1> QED BY <1>2, <1>10, Zenon
\* What a part of a text prints.
LEMMA PrintedParts ==
  ASSUME NEW t \in Seq(Chunker!Char), NEW a \in 1 .. Len(t) + 1,
         NEW k \in a - 1 .. Len(t), NEW n \in k .. Len(t)
  PROVE  /\ Printed(SubSeq(t, a, n)) = Printed(SubSeq(t, a, k)) \o Printed(SubSeq(t, k + 1, n))
         /\ Len(Printed(SubSeq(t, a, n)))
              = Len(Printed(SubSeq(t, a, k))) + Len(Printed(SubSeq(t, k + 1, n)))
         /\ Len(Printed(SubSeq(t, a, n))) \in Nat /\ Len(Printed(SubSeq(t, a, k))) \in Nat
         /\ Len(Printed(SubSeq(t, k + 1, n))) \in Nat
<1>1. SubSeq(t, a, k) \o SubSeq(t, k + 1, n) = SubSeq(t, a, n)
  BY ConcatAdjacentSubSeq
<1>2. /\ SubSeq(t, a, k) \in Seq(Chunker!Char) /\ SubSeq(t, a, n) \in Seq(Chunker!Char)
      /\ SubSeq(t, k + 1, n) \in Seq(Chunker!Char)
  <2>1. /\ Len(t) \in Nat /\ n \in a - 1 .. Len(t) /\ k + 1 \in 1 .. Len(t) + 1
        /\ n \in (k + 1) - 1 .. Len(t)
    OBVIOUS
  <2> QED BY <2>1, PartOf
<1>3. /\ Printed(SubSeq(t, a, n)) = Printed(SubSeq(t, a, k)) \o Printed(SubSeq(t, k + 1, n))
      /\ Len(Printed(SubSeq(t, a, n)))
           = Len(Printed(SubSeq(t, a, k))) + Len(Printed(SubSeq(t, k + 1, n)))
  BY <1>1, <1>2, PrintedCat
<1>4. ASSUME NEW u \in Seq(Chunker!Char) PROVE Len(Printed(u)) \in Nat
  <2>1. Printed(u) \in Seq(Chunker!Char)
    BY PrintedMapped
  <2> QED BY <2>1
<1> QED BY <1>2, <1>3, <1>4

\* A part of a text that is blank prints nothing.
LEMMA PrintedBlanks ==
  ASSUME NEW t \in Seq(Chunker!Char), NEW a \in 1 .. Len(t) + 1, NEW k \in a - 1 .. Len(t),
         \A i \in a .. k : ~NotBlank(t[i])
  PROVE  Printed(SubSeq(t, a, k)) = <<>>
<1>1. /\ SubSeq(t, a, k) \in Seq(Chunker!Char) /\ Len(SubSeq(t, a, k)) = k - a + 1
      /\ \A i \in 1 .. k - a + 1 : SubSeq(t, a, k)[i] = t[a + i - 1]
  BY PartOf
<1>2. \A i \in 1 .. k - a + 1 : a + i - 1 \in a .. k
  OBVIOUS
<1>3. \A i \in 1 .. Len(SubSeq(t, a, k)) : ~NotBlank(SubSeq(t, a, k)[i])
  BY <1>1, <1>2
<1> QED BY <1>1, <1>3, PrintedBlank

\* A part of a text that ends in a character that is not blank prints something.
LEMMA PrintedEndsInInk ==
  ASSUME NEW t \in Seq(Chunker!Char), NEW a \in 1 .. Len(t), NEW k \in a .. Len(t),
         NotBlank(t[k])
  PROVE  Len(Printed(SubSeq(t, a, k))) > 0
<1> DEFINE s == SubSeq(t, a, k)
<1>1. a \in 1 .. Len(t) + 1 /\ k \in a - 1 .. Len(t)
  OBVIOUS
<1>2. /\ s \in Seq(Chunker!Char) /\ Len(s) = k - a + 1
      /\ \A i \in 1 .. k - a + 1 : s[i] = t[a + i - 1]
  BY <1>1, PartOf
<1> HIDE DEF s
<1>3. /\ Len(s) \in 1 .. k - a + 1 /\ a + Len(s) - 1 = k
  BY <1>2
<1>4. s[Len(s)] = t[k]
  BY <1>2, <1>3
<1>5. s # <<>>
  <2>1. Len(s) # 0
    BY <1>3
  <2> QED BY <2>1
<1>6. Len(Printed(s)) > 0
  BY <1>2, <1>4, <1>5, PrintedInk
<1> QED BY <1>6 DEF s

\* The number of characters printed up to one that is not blank tells where it is.
Before(t, k) == Len(Printed(SubSeq(t, 1, k)))

LEMMA BeforeTells ==
  ASSUME NEW t \in Seq(Chunker!Char), NEW j \in 1 .. Len(t), NEW k \in 1 .. Len(t),
         NotBlank(t[j]), NotBlank(t[k]), Before(t, j) = Before(t, k)
  PROVE  j = k
<1>1. ASSUME NEW x \in 1 .. Len(t), NEW y \in 1 .. Len(t), x < y, NotBlank(t[y])
      PROVE  Before(t, x) # Before(t, y)
  <2>1. /\ 1 \in 1 .. Len(t) + 1 /\ x \in 1 - 1 .. Len(t) /\ y \in x .. Len(t)
        /\ x + 1 \in 1 .. Len(t) /\ y \in x + 1 .. Len(t)
    BY <1>1
  <2>2. /\ Before(t, y) = Before(t, x) + Len(Printed(SubSeq(t, x + 1, y)))
        /\ Before(t, x) \in Nat
        /\ Len(Printed(SubSeq(t, x + 1, y))) \in Nat
    BY <2>1, PrintedParts DEF Before
  <2>3. Len(Printed(SubSeq(t, x + 1, y))) > 0
    BY <1>1, <2>1, PrintedEndsInInk
  <2> DEFINE p == Len(Printed(SubSeq(t, x + 1, y)))
             u == Before(t, x)
             v == Before(t, y)
  <2>4. v = u + p /\ u \in Nat /\ p \in Nat /\ p > 0
    BY <2>2, <2>3, Zenon
  <2> HIDE DEF p, u, v
  <2>5. u # v
    BY <2>4
  <2> QED BY <2>5 DEF u, v
<1>2. j < k \/ k < j \/ j = k
  OBVIOUS
<1>3. ~(j < k)
  BY <1>1
<1>4. ~(k < j)
  BY <1>1
<1> QED BY <1>2, <1>3, <1>4

\* The chunks of what follows the first at characters.
ChunksFrom(cs, t, at, max) ==
  /\ cs \in Seq(Seq(Chunker!Char))
  /\ \A i \in 1 .. Len(cs) : /\ Len(cs[i]) \in 1 .. max
                             /\ NotBlank(cs[i][1]) /\ NotBlank(cs[i][Len(cs[i])])
  /\ Printed(FlattenSeq(cs)) = Printed(SubSeq(t, at + 1, Len(t)))
  /\ \A i \in 1 .. Len(cs) - 1 : \A k \in 1 .. Len(t) - 1 :
       /\ NotBlank(t[k]) /\ NotBlank(t[k + 1])
       /\ Before(t, k) = Before(t, at) + Len(Printed(FlattenSeq(SubSeq(cs, 1, i))))
       => NoBetterCut(cs[i], max)

\* The first elements of a sequence with one more in front.
LEMMA ConsPrefix ==
  ASSUME NEW S, NEW x \in S, NEW s \in Seq(S), NEW i \in 1 .. Len(s) + 1
  PROVE  SubSeq(<<x>> \o s, 1, i) = <<x>> \o SubSeq(s, 1, i - 1)
<1> DEFINE c == <<x>> \o s
<1>1. /\ <<x>> \in Seq(S) /\ Len(<<x>>) = 1 /\ Len(s) \in Nat
      /\ c \in Seq(S) /\ Len(c) = Len(s) + 1 /\ c[1] = x
  <2>1. <<x>> \in Seq(S) /\ Len(<<x>>) = 1 /\ Len(s) \in Nat /\ <<x>>[1] = x
    OBVIOUS
  <2>2. /\ c \in Seq(S) /\ Len(c) = Len(<<x>>) + Len(s)
        /\ \A k \in 1 .. Len(<<x>>) + Len(s) :
             c[k] = IF k <= Len(<<x>>) THEN <<x>>[k] ELSE s[k - Len(<<x>>)]
    BY <2>1, ConcatProperties
  <2>3. 1 \in 1 .. Len(<<x>>) + Len(s) /\ 1 <= Len(<<x>>)
    BY <2>1
  <2> HIDE DEF c
  <2> QED BY <2>1, <2>2, <2>3
<1>2. SubSeq(c, 1, i) = <<c[1]>> \o SubSeq(c, 2, i)
  <2> HIDE DEF c
  <2>1. 1 \in 1 .. Len(c) /\ i \in 1 .. Len(c) /\ 1 + 1 = 2
    BY <1>1
  <2>2. SubSeq(c, 1, i) = <<c[1]>> \o SubSeq(c, 1 + 1, i)
    BY <1>1, <2>1, SubSeqRecursiveFirst
  <2> QED BY <2>1, <2>2
<1>3. SubSeq(c, 2, i) = SubSeq(s, 1, i - 1)
  <2>1. CASE i = 1
    <3>1. SubSeq(c, 2, i) = <<>> /\ SubSeq(s, 1, i - 1) = <<>>
      BY <2>1, SubSeqEmpty
    <3> QED BY <3>1
  <2>2. CASE i # 1
    <3>1. /\ 2 \in Len(<<x>>) + 1 .. Len(<<x>>) + Len(s)
          /\ i \in Len(<<x>>) + 1 .. Len(<<x>>) + Len(s)
      BY <1>1, <2>2
    <3>2. SubSeq(c, 2, i) = SubSeq(s, 2 - Len(<<x>>), i - Len(<<x>>))
      BY <1>1, <3>1, SubSeqOfConcat2
    <3>3. 2 - Len(<<x>>) = 1 /\ i - Len(<<x>>) = i - 1
      BY <1>1
    <3> QED BY <3>2, <3>3
  <2> QED BY <2>1, <2>2
<1> QED BY <1>1, <1>2, <1>3

\* A chunk in front of chunks that go on after it and the blanks that follow.
LEMMA ChunkAdded ==
  ASSUME NEW t \in Seq(Chunker!Char), NEW max \in Nat \ {0}, NEW at \in 0 .. Len(t) - 1,
         NEW b \in at + 1 .. Len(t), NEW m \in b .. Len(t), b - at <= max,
         NotBlank(t[at + 1]), NotBlank(t[b]), \A i \in b + 1 .. m : ~NotBlank(t[i]),
         b < Len(t) /\ NotBlank(t[b + 1]) => NoBetterCut(SubSeq(t, at + 1, b), max),
         NEW rest, ChunksFrom(rest, t, m, max)
  PROVE  ChunksFrom(<<SubSeq(t, at + 1, b)>> \o rest, t, at, max)
<1> DEFINE n == Len(t)
           c == SubSeq(t, at + 1, b)
           cs == <<c>> \o rest
           C == Seq(Chunker!Char)
<1>1. n \in Nat /\ at \in Nat /\ b \in Nat /\ m \in Nat
  OBVIOUS
<1>2. c \in C /\ Len(c) = b - at /\ c[1] = t[at + 1] /\ c[b - at] = t[b]
  <2>1. /\ at + 1 \in 1 .. n + 1 /\ b \in (at + 1) - 1 .. n /\ b - (at + 1) + 1 = b - at
        /\ 1 \in 1 .. b - at /\ b - at \in 1 .. b - at
        /\ (at + 1) + 1 - 1 = at + 1 /\ (at + 1) + (b - at) - 1 = b
    BY <1>1
  <2>2. /\ c \in Seq(Chunker!Char) /\ Len(c) = b - (at + 1) + 1
        /\ \A i \in 1 .. b - (at + 1) + 1 : c[i] = t[(at + 1) + i - 1]
    BY <2>1, PartOf
  <2>3. \A i \in 1 .. b - at : c[i] = t[(at + 1) + i - 1]
    BY <2>1, <2>2
  <2> HIDE DEF c
  <2> QED BY <2>1, <2>2, <2>3
<1>3. /\ rest \in Seq(C)
      /\ \A i \in 1 .. Len(rest) : /\ Len(rest[i]) \in 1 .. max
                                   /\ NotBlank(rest[i][1]) /\ NotBlank(rest[i][Len(rest[i])])
      /\ Printed(FlattenSeq(rest)) = Printed(SubSeq(t, m + 1, n))
      /\ \A i \in 1 .. Len(rest) - 1 : \A k \in 1 .. n - 1 :
           /\ NotBlank(t[k]) /\ NotBlank(t[k + 1])
           /\ Before(t, k) = Before(t, m) + Len(Printed(FlattenSeq(SubSeq(rest, 1, i))))
           => NoBetterCut(rest[i], max)
  BY DEF ChunksFrom
<1>4. NotBlank(c[1]) /\ NotBlank(c[Len(c)]) /\ Len(c) \in 1 .. max
  BY <1>1, <1>2
<1>5. b < n /\ NotBlank(t[b + 1]) => NoBetterCut(c, max)
  OBVIOUS
\* What c prints, and where it ends.
<1>6. /\ Printed(SubSeq(t, at + 1, n)) = Printed(c) \o Printed(SubSeq(t, m + 1, n))
      /\ Before(t, b) = Before(t, at) + Len(Printed(c))
      /\ Before(t, m) = Before(t, b)
      /\ Before(t, at) \in Nat /\ Len(Printed(c)) \in Nat
  <2>1. /\ at + 1 \in 1 .. n + 1 /\ b \in (at + 1) - 1 .. n /\ n \in b .. n
        /\ b + 1 \in 1 .. n + 1 /\ m \in (b + 1) - 1 .. n /\ n \in m .. n
        /\ 1 \in 1 .. n + 1 /\ at \in 1 - 1 .. n /\ b \in at .. n
        /\ b \in 1 - 1 .. n /\ m \in b .. n
    BY <1>1
  <2>2. Printed(SubSeq(t, at + 1, n)) = Printed(c) \o Printed(SubSeq(t, b + 1, n))
    BY <2>1, PrintedParts
  <2>3. Printed(SubSeq(t, b + 1, n)) = Printed(SubSeq(t, b + 1, m)) \o Printed(SubSeq(t, m + 1, n))
    BY <2>1, PrintedParts
  <2>4. Printed(SubSeq(t, b + 1, m)) = <<>>
    BY <2>1, PrintedBlanks
  <2>5. <<>> \o Printed(SubSeq(t, m + 1, n)) = Printed(SubSeq(t, m + 1, n))
    <3>1. SubSeq(t, m + 1, n) \in C
      <4>1. m + 1 \in 1 .. n + 1 /\ n \in (m + 1) - 1 .. n
        BY <1>1
      <4> QED BY <4>1, PartOf
    <3>2. Printed(SubSeq(t, m + 1, n)) \in C
      BY <3>1, PrintedMapped
    <3> QED BY <3>2, ConcatEmptySeq
  <2>6. /\ Before(t, b) = Before(t, at) + Len(Printed(SubSeq(t, at + 1, b)))
        /\ Before(t, at) \in Nat /\ Len(Printed(SubSeq(t, at + 1, b))) \in Nat
        /\ Before(t, b) \in Nat
    BY <2>1, PrintedParts DEF Before
  <2>7. Before(t, m) = Before(t, b) + Len(Printed(SubSeq(t, b + 1, m)))
    BY <2>1, PrintedParts DEF Before
  <2>8. Len(Printed(SubSeq(t, b + 1, m))) = 0
    BY <2>4
  <2>9. Before(t, m) = Before(t, b)
    <3> DEFINE u == Before(t, b)
               p == Len(Printed(SubSeq(t, b + 1, m)))
    <3>1. u \in Nat /\ p = 0 /\ Before(t, m) = u + p
      BY <2>6, <2>7, <2>8, Zenon
    <3> HIDE DEF u, p
    <3>2. Before(t, m) = u
      BY <3>1
    <3> QED BY <3>2 DEF u
  <2> HIDE DEF n
  <2> QED BY <2>2, <2>3, <2>4, <2>5, <2>6, <2>9, Zenon
<1> HIDE DEF c
<1>7. /\ cs \in Seq(C) /\ Len(cs) = Len(rest) + 1 /\ cs[1] = c /\ Len(rest) \in Nat
      /\ \A i \in 2 .. Len(rest) + 1 : cs[i] = rest[i - 1]
  <2>1. <<c>> \in Seq(C) /\ Len(<<c>>) = 1 /\ Len(rest) \in Nat /\ <<c>>[1] = c
    BY <1>2, <1>3
  <2>2. /\ cs \in Seq(C) /\ Len(cs) = Len(<<c>>) + Len(rest)
        /\ \A k \in 1 .. Len(<<c>>) + Len(rest) :
             cs[k] = IF k <= Len(<<c>>) THEN <<c>>[k] ELSE rest[k - Len(<<c>>)]
    <3> HIDE DEF C
    <3> QED BY <1>3, <2>1, ConcatProperties
  <2> HIDE DEF cs, C
  <2>3. /\ Len(cs) = Len(rest) + 1
        /\ \A k \in 1 .. Len(rest) + 1 :
             cs[k] = IF k <= 1 THEN <<c>>[k] ELSE rest[k - 1]
    BY <2>1, <2>2
  <2>4. 1 \in 1 .. Len(rest) + 1 /\ \A k \in 2 .. Len(rest) + 1 : k \in 1 .. Len(rest) + 1 /\ ~(k <= 1)
    BY <2>1
  <2> QED BY <2>1, <2>2, <2>3, <2>4
<1>8. Printed(FlattenSeq(cs)) = Printed(SubSeq(t, at + 1, n))
  <2>1. FlattenSeq(cs) = c \o FlattenSeq(rest)
    BY <1>2, <1>3, FlattenCons
  <2>2. FlattenSeq(rest) \in C
    BY <1>3, FlattenType
  <2>3. Printed(c \o FlattenSeq(rest)) = Printed(c) \o Printed(FlattenSeq(rest))
    BY <1>2, <2>2, PrintedCat
  <2> QED BY <1>3, <1>6, <2>1, <2>3
<1>9. ASSUME NEW i \in 1 .. Len(rest) + 1
      PROVE  /\ SubSeq(rest, 1, i - 1) \in Seq(C)
             /\ Len(Printed(FlattenSeq(SubSeq(cs, 1, i))))
                  = Len(Printed(c)) + Len(Printed(FlattenSeq(SubSeq(rest, 1, i - 1))))
  <2> DEFINE p == SubSeq(rest, 1, i - 1)
  <2>1. p \in Seq(C)
    <3>1. \A k \in 1 .. i - 1 : rest[k] \in C
      BY <1>3, <1>7
    <3>2. 1 \in Int /\ i - 1 \in Int
      OBVIOUS
    <3> HIDE DEF C
    <3> QED BY <3>1, <3>2, SubSeqProperties
  <2>2. SubSeq(cs, 1, i) = <<c>> \o p
    <3> HIDE DEF C
    <3> QED BY <1>2, <1>3, ConsPrefix
  <2> HIDE DEF p
  <2>3. FlattenSeq(<<c>> \o p) = c \o FlattenSeq(p) /\ FlattenSeq(p) \in C
    BY <1>2, <2>1, FlattenCons, FlattenType
  <2>4. Len(Printed(c \o FlattenSeq(p))) = Len(Printed(c)) + Len(Printed(FlattenSeq(p)))
    BY <1>2, <2>3, PrintedCat
  <2> HIDE DEF cs
  <2> QED BY <2>1, <2>2, <2>3, <2>4, Zenon DEF p
<1>10. ASSUME NEW i \in 1 .. Len(rest), NEW k \in 1 .. n - 1,
              NotBlank(t[k]), NotBlank(t[k + 1]),
              Before(t, k) = Before(t, at) + Len(Printed(FlattenSeq(SubSeq(cs, 1, i))))
       PROVE  NoBetterCut(cs[i], max)
  <2> DEFINE q == Len(Printed(FlattenSeq(SubSeq(rest, 1, i - 1))))
  <2>1. i \in 1 .. Len(rest) + 1
    BY <1>7
  <2>2. q \in Nat
    <3>1. FlattenSeq(SubSeq(rest, 1, i - 1)) \in C
      BY <1>9, <2>1, FlattenType
    <3>2. Printed(FlattenSeq(SubSeq(rest, 1, i - 1))) \in C
      BY <3>1, PrintedMapped
    <3> QED BY <3>2
  <2>3. Before(t, k) = Before(t, at) + (Len(Printed(c)) + q)
    BY <1>9, <1>10, <2>1, Zenon
  <2>4. Before(t, k) = Before(t, m) + q
    <3> DEFINE x == Before(t, at)
               y == Len(Printed(c))
    <3>1. x \in Nat /\ y \in Nat /\ Before(t, m) = x + y /\ Before(t, k) = x + (y + q)
      BY <1>6, <2>3, Zenon
    <3> HIDE DEF x, y, q
    <3> QED BY <2>2, <3>1
  <2>5. CASE i = 1
    <3>1. SubSeq(rest, 1, i - 1) = <<>>
      BY <2>5, SubSeqEmpty
    <3>2. q = 0
      <4>1. q = Len(<<>>)
        BY <3>1, FlattenEmpty, PrintedEmpty, Zenon
      <4> HIDE DEF q
      <4> QED BY <4>1
    <3>3. Before(t, k) = Before(t, b)
      <4> HIDE DEF q
      <4>1. Before(t, b) \in Nat
        <5> DEFINE x == Before(t, at)
                   y == Len(Printed(c))
        <5>1. x \in Nat /\ y \in Nat /\ Before(t, b) = x + y
          BY <1>6, Zenon
        <5> HIDE DEF x, y
        <5> QED BY <5>1
      <4> DEFINE z == Before(t, b)
      <4>2. z \in Nat /\ Before(t, k) = z + q
        BY <1>6, <2>4, <4>1, Zenon
      <4> HIDE DEF z
      <4>3. Before(t, k) = z
        BY <3>2, <4>2
      <4> QED BY <4>3 DEF z
    <3>4. k \in 1 .. Len(t) /\ b \in 1 .. Len(t)
      BY <1>1
    <3>5. k = b
      BY <1>10, <3>3, <3>4, BeforeTells
    <3>6. b < n
      BY <1>1, <3>5
    <3>7. NoBetterCut(c, max)
      BY <1>5, <1>10, <3>5, <3>6
    <3> HIDE DEF cs
    <3> QED BY <1>7, <2>5, <3>7
  <2>6. CASE i # 1
    <3>1. i - 1 \in 1 .. Len(rest) - 1 /\ i \in 2 .. Len(rest) + 1
      BY <1>7, <2>6
    <3>2. NoBetterCut(rest[i - 1], max)
      BY <1>3, <1>10, <2>4, <3>1, Zenon
    <3>3. cs[i] = rest[i - 1]
      BY <1>7, <3>1
    <3> HIDE DEF cs
    <3> QED BY <3>2, <3>3
  <2> QED BY <2>5, <2>6
<1>11. ASSUME NEW i \in 1 .. Len(rest) + 1
       PROVE  /\ Len(cs[i]) \in 1 .. max
              /\ NotBlank(cs[i][1]) /\ NotBlank(cs[i][Len(cs[i])])
  <2>1. CASE i = 1
    <3> HIDE DEF cs
    <3> QED BY <1>4, <1>7, <2>1
  <2>2. CASE i # 1
    <3>1. i - 1 \in 1 .. Len(rest) /\ i \in 2 .. Len(rest) + 1
      BY <1>7, <2>2
    <3>2. cs[i] = rest[i - 1]
      BY <1>7, <3>1
    <3> HIDE DEF cs
    <3> QED BY <1>3, <3>1, <3>2
  <2> QED BY <2>1, <2>2
<1> HIDE DEF cs
<1>12. Len(cs) - 1 = Len(rest)
  BY <1>7
<1>13. ChunksFrom(cs, t, at, max)
  BY <1>7, <1>8, <1>10, <1>11, <1>12 DEF ChunksFrom
<1> QED BY <1>13 DEF cs, c

\* The chunk that follows the first at characters.
LEMMA HeadTaken ==
  ASSUME NEW t \in Seq(Chunker!Char), NEW max \in Nat \ {0}, NEW at \in 0 .. Len(t) - 1,
         NotBlank(t[at + 1])
  PROVE  \E b \in at + 1 .. Len(t) : \E m \in b .. Len(t) :
           /\ b - at <= max
           /\ HeadOf(t, at, max) = SubSeq(t, at + 1, b) /\ AfterHead(t, at, max) = m
           /\ NotBlank(t[b])
           /\ \A i \in b + 1 .. m : ~NotBlank(t[i])
           /\ m < Len(t) => NotBlank(t[m + 1])
           /\ b < Len(t) /\ NotBlank(t[b + 1]) => NoBetterCut(SubSeq(t, at + 1, b), max)
<1> DEFINE n == Len(t)
           s == Rest(t, at)
<1>1. n \in Nat /\ at \in Nat /\ at < n
  OBVIOUS
<1>2. /\ s \in Seq(Chunker!Char) /\ Len(s) = n - at
      /\ \A i \in 1 .. n - at : s[i] = t[at + i]
  <2>1. at + 1 \in 1 .. n + 1 /\ n \in (at + 1) - 1 .. n /\ n - (at + 1) + 1 = n - at
    BY <1>1
  <2>2. /\ s \in Seq(Chunker!Char) /\ Len(s) = n - (at + 1) + 1
        /\ \A i \in 1 .. n - (at + 1) + 1 : s[i] = t[(at + 1) + i - 1]
    BY <2>1, PartOf DEF Rest
  <2>3. \A i \in 1 .. n - at : (at + 1) + i - 1 = at + i
    BY <1>1
  <2> HIDE DEF s
  <2> QED BY <2>1, <2>2, <2>3
<1> HIDE DEF s, n
<1>3. s # <<>> /\ NotBlank(s[1])
  <2>1. 1 \in 1 .. n - at /\ Len(s) # 0
    BY <1>1, <1>2
  <2>2. s # <<>>
    BY <2>1
  <2> QED BY <1>2, <2>1, <2>2
<1>4. PICK d \in 1 .. Len(s), e \in 1 .. Len(s) :
        /\ d <= e /\ d <= max
        /\ Chunker!Strip(SubSeq(s, 1, Reach(s, max))) = SubSeq(s, 1, d)
        /\ Len(Chunker!LStrip(SubSeq(s, Reach(s, max) + 1, Len(s)))) = Len(s) - e
        /\ NotBlank(s[d])
        /\ \A i \in d + 1 .. e : ~NotBlank(s[i])
        /\ e < Len(s) => NotBlank(s[e + 1])
        /\ d < Len(s) /\ NotBlank(s[d + 1]) => NoBetterCut(SubSeq(s, 1, d), max)
  BY <1>2, <1>3, ChunkTaken, Zenon
<1> DEFINE b == at + d
           m == at + e
<1>5. /\ b \in at + 1 .. n /\ m \in b .. n /\ b - at <= max /\ b - at = d
      /\ n - (Len(s) - e) = m /\ d \in 1 .. n - at /\ e \in 1 .. n - at
  BY <1>1, <1>2, <1>4
<1>6. SubSeq(s, 1, d) = SubSeq(t, at + 1, b)
  <2>1. /\ at + 1 \in 1 .. Len(t) /\ n \in 1 .. Len(t)
        /\ 1 \in 1 .. n - (at + 1) + 1 /\ d \in 1 .. n - (at + 1) + 1
        /\ (at + 1) + 1 - 1 = at + 1 /\ (at + 1) + d - 1 = b
    BY <1>1, <1>5 DEF n
  <2>2. SubSeq(SubSeq(t, at + 1, n), 1, d) = SubSeq(t, (at + 1) + 1 - 1, (at + 1) + d - 1)
    BY <2>1, SubSeqOfSubSeq
  <2> HIDE DEF b
  <2>3. SubSeq(SubSeq(t, at + 1, n), 1, d) = SubSeq(t, at + 1, b)
    BY <2>1, <2>2, Zenon
  <2> QED BY <2>3, Zenon DEF s, Rest, n
<1>7. HeadOf(t, at, max) = SubSeq(t, at + 1, b)
  BY <1>4, <1>6, Zenon DEF HeadOf, s
<1>8. AfterHead(t, at, max) = m
  <2>1. AfterHead(t, at, max)
          = n - Len(Chunker!LStrip(SubSeq(s, Reach(s, max) + 1, Len(s))))
    BY <1>2, Zenon DEF AfterHead, s, n
  <2> HIDE DEF m
  <2> QED BY <1>4, <1>5, <2>1, Zenon
<1>9. NotBlank(t[b])
  BY <1>2, <1>4, <1>5
<1>10. \A i \in b + 1 .. m : ~NotBlank(t[i])
  <2> SUFFICES ASSUME NEW i \in b + 1 .. m PROVE ~NotBlank(t[i])
    OBVIOUS
  <2>1. i - at \in d + 1 .. e /\ i - at \in 1 .. n - at /\ at + (i - at) = i
    BY <1>1, <1>5
  <2> QED BY <1>2, <1>4, <2>1
<1>11. m < n => NotBlank(t[m + 1])
  <2>1. m < n => e < Len(s) /\ e + 1 \in 1 .. n - at /\ at + (e + 1) = m + 1
    BY <1>1, <1>2, <1>5
  <2> HIDE DEF m
  <2> QED BY <1>2, <1>4, <2>1
<1>12. b < n /\ NotBlank(t[b + 1]) => NoBetterCut(SubSeq(t, at + 1, b), max)
  <2>1. b < n => d < Len(s) /\ d + 1 \in 1 .. n - at /\ at + (d + 1) = b + 1
    BY <1>1, <1>2, <1>5
  <2> HIDE DEF b
  <2> QED BY <1>2, <1>4, <1>6, <2>1
<1> HIDE DEF b, m
<1> QED BY <1>5, <1>7, <1>8, <1>9, <1>10, <1>11, <1>12 DEF n

\* A text that is stripped is cut into chunks of it.
LEMMA ChunksCut ==
  ASSUME NEW text, NEW t, t = Chunker!Strip(text), t \in Seq(Chunker!Char),
         t # <<>> => NotBlank(t[1]), NEW max \in Nat \ {0}
  PROVE  ChunksFrom(Chunker!Chunks(text, max), t, 0, max)
<1> DEFINE n == Len(t)
           Inked(at) == at < n /\ NotBlank(t[at + 1])
           jump == [at \in 0 .. n |-> IF Inked(at) THEN AfterHead(t, at, max) - at ELSE 0]
<1>1. n \in Nat
  OBVIOUS
<1>2. PICK f : Chunker!Chunks(text, max) = f[0] /\ Cuts(f, t, max)
  BY ChunksUnfold
<1> DEFINE G == {at \in Nat : at = n \/ Inked(at) => ChunksFrom(f[at], t, at, max)}
<1>3. ASSUME NEW at \in 0 .. n
      PROVE  jump[at] \in Nat /\ at + jump[at] <= n
             /\ (Inked(at) => at + jump[at] = AfterHead(t, at, max) /\ jump[at] # 0)
  <2>1. jump[at] = IF Inked(at) THEN AfterHead(t, at, max) - at ELSE 0
    OBVIOUS
  <2> HIDE DEF jump
  <2>2. CASE Inked(at)
    <3>1. at \in 0 .. n - 1
      BY <2>2
    <3>2. AfterHead(t, at, max) \in at + 1 .. n
      <4>1. PICK b \in at + 1 .. n : \E m \in b .. n : AfterHead(t, at, max) = m
        BY <2>2, <3>1, HeadTaken
      <4>2. PICK m \in b .. n : AfterHead(t, at, max) = m
        BY <4>1
      <4>3. m \in at + 1 .. n
        BY <1>1, <4>1, <4>2
      <4> QED BY <4>2, <4>3
    <3> DEFINE g == AfterHead(t, at, max)
               j == jump[at]
    <3>3. g \in at + 1 .. n /\ j = g - at
      BY <2>1, <2>2, <3>2
    <3> HIDE DEF g, j
    <3>4. j \in Nat /\ at + j <= n /\ at + j = g /\ j # 0
      BY <1>1, <3>3
    <3> QED BY <3>4 DEF g, j
  <2>3. CASE ~Inked(at)
    <3>1. jump[at] = 0
      BY <2>1, <2>3
    <3> QED BY <2>3, <3>1
  <2> QED BY <2>2, <2>3
<1>4. ASSUME NEW at \in 0 .. n, jump[at] = 0 \/ at + jump[at] \in G
      PROVE  at \in G
  <2> HIDE DEF jump
  <2> SUFFICES ASSUME at = n \/ Inked(at) PROVE ChunksFrom(f[at], t, at, max)
    OBVIOUS
  <2>1. CASE at = n
    <3>1. SubSeq(t, n + 1, n) = <<>>
      BY <1>1, SubSeqEmpty
    <3>2. <<>> \in Seq(Seq(Chunker!Char)) /\ Len(<<>>) = 0
      OBVIOUS
    <3>3. Printed(FlattenSeq(<<>>)) = Printed(SubSeq(t, n + 1, n))
      BY <3>1, FlattenEmpty, Zenon
    <3>4. ChunksFrom(<<>>, t, n, max)
      BY <3>2, <3>3 DEF ChunksFrom
    <3>5. f[n] = <<>>
      BY <1>2 DEF Cuts
    <3> QED BY <2>1, <3>4, <3>5
  <2>2. CASE Inked(at)
    <3>1. at \in 0 .. n - 1 /\ NotBlank(t[at + 1])
      BY <2>2
    <3>2. PICK b \in at + 1 .. n : \E m \in b .. n :
            /\ b - at <= max
            /\ HeadOf(t, at, max) = SubSeq(t, at + 1, b) /\ AfterHead(t, at, max) = m
            /\ NotBlank(t[b])
            /\ \A i \in b + 1 .. m : ~NotBlank(t[i])
            /\ m < n => NotBlank(t[m + 1])
            /\ b < n /\ NotBlank(t[b + 1]) => NoBetterCut(SubSeq(t, at + 1, b), max)
      BY <3>1, HeadTaken
    <3>3. PICK m \in b .. n :
            /\ b - at <= max
            /\ HeadOf(t, at, max) = SubSeq(t, at + 1, b) /\ AfterHead(t, at, max) = m
            /\ NotBlank(t[b])
            /\ \A i \in b + 1 .. m : ~NotBlank(t[i])
            /\ m < n => NotBlank(t[m + 1])
            /\ b < n /\ NotBlank(t[b + 1]) => NoBetterCut(SubSeq(t, at + 1, b), max)
      BY <3>2
    <3> DEFINE c == SubSeq(t, at + 1, b)
    <3>4. Len(c) = b - at /\ b - at > 0
      <4>1. /\ at + 1 \in 1 .. n + 1 /\ b \in (at + 1) - 1 .. n /\ b - (at + 1) + 1 = b - at
            /\ b - at > 0
        BY <1>1, <3>2
      <4> QED BY <4>1, PartOf
    <3>5. OneChunk(c) = <<c>>
      <4> HIDE DEF c
      <4>1. c # <<>>
        BY <3>4
      <4> QED BY <4>1 DEF OneChunk
    <3>6. f[at] = <<c>> \o f[m]
      <4>1. f[at] = OneChunk(HeadOf(t, at, max)) \o f[AfterHead(t, at, max)]
        BY <1>2, <3>1, Zenon DEF Cuts
      <4> QED BY <3>3, <3>5, <4>1, Zenon
    <3>7. ChunksFrom(f[m], t, m, max)
      <4>1. m \in G
        BY <1>3, <1>4, <2>2, <3>3
      <4>2. m = n \/ m < n
        BY <1>1, <3>3
      <4> QED BY <3>3, <4>1, <4>2
    <3>8. ChunksFrom(<<c>> \o f[m], t, at, max)
      BY <3>1, <3>2, <3>3, <3>7, ChunkAdded
    <3> QED BY <3>6, <3>8, Zenon
  <2> QED BY <2>1, <2>2
<1>5. jump \in [0 .. n -> Nat]
  <2>1. jump = [at \in 0 .. n |-> jump[at]]
    OBVIOUS
  <2> HIDE DEF jump
  <2> QED BY <1>3, <2>1
<1>6. G \in SUBSET Nat
  OBVIOUS
<1> HIDE DEF G, jump
<1>7. 0 .. n \subseteq G
  BY <1>1, <1>3, <1>4, <1>5, <1>6, JumpsInduct
<1>8. 0 \in G
  BY <1>1, <1>7
<1>9. 0 = n \/ Inked(0)
  <2>1. CASE n = 0
    BY <2>1
  <2>2. CASE n # 0
    <3>1. t # <<>> /\ 0 < n /\ 0 + 1 = 1
      BY <1>1, <2>2
    <3> QED BY <3>1
  <2> QED BY <2>1, <2>2
<1>10. ChunksFrom(f[0], t, 0, max)
  <2> HIDE DEF Inked
  <2> QED BY <1>8, <1>9 DEF G
<1> QED BY <1>2, <1>10

\* What the chunks of a text are.
ChunksOf(cs, text, max) ==
  /\ cs \in Seq(Seq(Chunker!Char))
  /\ \A i \in 1 .. Len(cs) : /\ Len(cs[i]) \in 1 .. max
                             /\ NotBlank(cs[i][1]) /\ NotBlank(cs[i][Len(cs[i])])
  /\ Printed(FlattenSeq(cs)) = Printed(text)
  /\ \A i \in 1 .. Len(cs) - 1 : \A k \in 1 .. Len(text) - 1 :
       /\ NotBlank(text[k]) /\ NotBlank(text[k + 1])
       /\ Before(text, k) = Len(Printed(FlattenSeq(SubSeq(cs, 1, i))))
       => NoBetterCut(cs[i], max)

\* Blanks around a text change nothing of what its chunks are.
LEMMA TextChunked == RunInv /\ Done("chunk") => ChunksKeepTheText /\ WordsAreCutLast
<1> SUFFICES ASSUME RunInv, Done("chunk") PROVE ChunksKeepTheText /\ WordsAreCutLast
  OBVIOUS
<1> DEFINE text == task.text
           max == task.max
           t == Chunker!Strip(text)
           n == Len(t)
           L == Len(text)
<1>1. text \in Seq(Chunker!Char) /\ max \in Nat \ {0}
  <2>1. task \in ChunkTasks
    BY DEF RunInv, Done, Tasks, RangeTasks, StitchTasks, GroupTasks, ReplyTasks, CardTasks
  <2>2. PICK k \in 0 .. MaxText : text \in [1 .. k -> Chunker!Char]
    BY <2>1 DEF ChunkTasks, SeqsUpTo
  <2>3. k \in Nat
    BY AlgorithmsAssumption
  <2>4. max \in Nat \ {0}
    BY <2>1, AlgorithmsAssumption DEF ChunkTasks
  <2> HIDE DEF text, max
  <2> QED BY <2>2, <2>3, <2>4, FunctionIsSeq
<1>2. result = Chunker!Chunks(text, max)
  BY DEF RunInv, Done, Run
<1> HIDE DEF text, max
<1>3. L \in Nat /\ 1 \in 1 .. L + 1 /\ L \in 1 - 1 .. L /\ SubSeq(text, 1, L) = text
  BY <1>1, SubSeqFull
<1>4. ASSUME t = <<>>, \A i \in 1 .. L : ~NotBlank(text[i])
      PROVE  ChunksOf(result, text, max)
  <2>1. ChunksFrom(result, t, 0, max)
    <3>1. t \in Seq(Chunker!Char)
      BY <1>4
    <3> HIDE DEF t
    <3> QED BY <1>1, <1>2, <1>4, <3>1, ChunksCut DEF t
  <2>2. Printed(text) = <<>>
    BY <1>1, <1>4, PrintedBlank
  <2>3. Printed(FlattenSeq(result)) = Printed(SubSeq(t, 0 + 1, Len(t)))
    BY <2>1 DEF ChunksFrom
  <2>4. SubSeq(t, 0 + 1, Len(t)) = <<>>
    <3>1. Len(t) = 0
      BY <1>4
    <3> QED BY <3>1, SubSeqEmpty
  <2>5. Printed(FlattenSeq(result)) = Printed(text)
    BY <2>2, <2>3, <2>4, PrintedEmpty, Zenon
  <2>6. \A k \in 1 .. L - 1 : ~NotBlank(text[k])
    BY <1>3, <1>4
  <2>7. /\ result \in Seq(Seq(Chunker!Char))
        /\ \A i \in 1 .. Len(result) : /\ Len(result[i]) \in 1 .. max
                                       /\ NotBlank(result[i][1])
                                       /\ NotBlank(result[i][Len(result[i])])
    BY <2>1 DEF ChunksFrom
  <2> QED BY <2>5, <2>6, <2>7, Zenon DEF ChunksOf
<1>5. ASSUME \E a, z \in 1 .. L :
               /\ a <= z /\ t = SubSeq(text, a, z)
               /\ NotBlank(text[a]) /\ NotBlank(text[z])
               /\ \A i \in 1 .. L : i < a \/ i > z => ~NotBlank(text[i])
      PROVE  ChunksOf(result, text, max)
  <2>1. PICK a \in 1 .. L, z \in 1 .. L :
          /\ a <= z /\ t = SubSeq(text, a, z)
          /\ NotBlank(text[a]) /\ NotBlank(text[z])
          /\ \A i \in 1 .. L : i < a \/ i > z => ~NotBlank(text[i])
    BY <1>5
  <2>2. /\ a \in 1 .. L + 1 /\ z \in a - 1 .. L /\ a - 1 \in 1 - 1 .. L /\ L \in a - 1 .. L
        /\ L \in z .. L /\ (a - 1) + 1 = a /\ z + 1 \in 1 .. L + 1 /\ L \in (z + 1) - 1 .. L
    BY <1>3, <2>1
  <2>3. /\ t \in Seq(Chunker!Char) /\ n = z - a + 1
        /\ \A i \in 1 .. z - a + 1 : t[i] = text[a + i - 1]
    BY <1>1, <2>1, <2>2, PartOf
  <2> HIDE DEF t, L
  <2>4. t # <<>> /\ NotBlank(t[1]) /\ n \in Nat \ {0}
    <3>1. 1 \in 1 .. z - a + 1 /\ a + 1 - 1 = a /\ n # 0 /\ n \in Nat
      BY <1>3, <2>1, <2>3
    <3>2. t # <<>>
      BY <3>1
    <3> QED BY <2>1, <2>3, <3>1, <3>2
  <2>5. ChunksFrom(result, t, 0, max)
    BY <1>1, <1>2, <2>3, <2>4, ChunksCut DEF t
  <2>6. Printed(SubSeq(text, 1, a - 1)) = <<>> /\ Printed(SubSeq(text, z + 1, L)) = <<>>
    <3>1. \A i \in 1 .. a - 1 : ~NotBlank(text[i])
      BY <1>3, <2>1
    <3>2. \A i \in z + 1 .. L : ~NotBlank(text[i])
      BY <1>3, <2>1
    <3> QED BY <1>1, <1>3, <2>2, <3>1, <3>2, PrintedBlanks DEF L
  <2>7. Printed(text) = Printed(t)
    <3>1. Printed(SubSeq(text, 1, L))
            = Printed(SubSeq(text, 1, a - 1)) \o Printed(SubSeq(text, (a - 1) + 1, L))
      BY <1>1, <1>3, <2>2, PrintedParts DEF L
    <3>2. Printed(SubSeq(text, a, L))
            = Printed(SubSeq(text, a, z)) \o Printed(SubSeq(text, z + 1, L))
      BY <1>1, <1>3, <2>2, PrintedParts DEF L
    <3>3. /\ Printed(t) \in Seq(Chunker!Char)
          /\ Printed(t) \o <<>> = Printed(t) /\ <<>> \o Printed(t) = Printed(t)
      BY <2>3, PrintedMapped, ConcatEmptySeq
    <3> QED BY <1>3, <2>1, <2>2, <2>6, <3>1, <3>2, <3>3, Zenon
  <2>8. SubSeq(t, 0 + 1, n) = t
    BY <2>3, SubSeqFull
  <2>9. Printed(FlattenSeq(result)) = Printed(text)
    <3>1. Printed(FlattenSeq(result)) = Printed(SubSeq(t, 0 + 1, Len(t)))
      BY <2>5 DEF ChunksFrom
    <3> QED BY <2>7, <2>8, <3>1, Zenon
  <2>10. Before(t, 0) = 0
    <3>1. SubSeq(t, 1, 0) = <<>>
      BY SubSeqEmpty
    <3>2. Before(t, 0) = Len(<<>>)
      BY <3>1, PrintedEmpty, Zenon DEF Before
    <3> QED BY <3>2
  <2>11. ASSUME NEW i \in 1 .. Len(result) - 1, NEW k \in 1 .. L - 1,
                NotBlank(text[k]), NotBlank(text[k + 1]),
                Before(text, k) = Len(Printed(FlattenSeq(SubSeq(result, 1, i))))
         PROVE  NoBetterCut(result[i], max)
    <3> DEFINE j == k - a + 1
               q == Len(Printed(FlattenSeq(SubSeq(result, 1, i))))
    <3>1. k >= a /\ k + 1 <= z
      <4>1. k \in 1 .. L /\ k + 1 \in 1 .. L
        BY <1>3
      <4> QED BY <2>1, <2>11, <4>1
    <3>2. /\ j \in 1 .. n - 1 /\ j \in 1 .. z - a + 1 /\ j + 1 \in 1 .. z - a + 1
          /\ a + j - 1 = k /\ a + (j + 1) - 1 = k + 1
      BY <1>3, <2>1, <2>3, <3>1
    <3> HIDE DEF j, n
    <3>3. NotBlank(t[j]) /\ NotBlank(t[j + 1])
      BY <2>3, <2>11, <3>2
    <3>4. SubSeq(t, 1, j) = SubSeq(text, a, k)
      <4>1. /\ a \in 1 .. Len(text) /\ z \in 1 .. Len(text)
            /\ 1 \in 1 .. z - a + 1 /\ a + 1 - 1 = a
        BY <1>3, <2>1 DEF L
      <4>2. SubSeq(SubSeq(text, a, z), 1, j) = SubSeq(text, a + 1 - 1, a + j - 1)
        BY <1>1, <3>2, <4>1, SubSeqOfSubSeq
      <4> QED BY <2>1, <3>2, <4>1, <4>2, Zenon
    <3>5. Before(text, k) = Before(t, j)
      <4>1. a - 1 \in 1 - 1 .. L /\ k \in a - 1 .. L
        BY <1>3, <2>1, <3>1
      <4>2. /\ Before(text, k) = Len(Printed(SubSeq(text, 1, a - 1)))
                                   + Len(Printed(SubSeq(text, (a - 1) + 1, k)))
            /\ Len(Printed(SubSeq(text, (a - 1) + 1, k))) \in Nat
        BY <1>1, <1>3, <4>1, PrintedParts DEF Before, L
      <4>3. Len(Printed(SubSeq(text, 1, a - 1))) = Len(<<>>)
        BY <2>6, Zenon
      <4>4. Len(Printed(SubSeq(text, (a - 1) + 1, k))) = Before(t, j)
        BY <2>2, <3>4, Zenon DEF Before
      <4> DEFINE x == Len(Printed(SubSeq(text, 1, a - 1)))
                 y == Before(t, j)
      <4>5. Before(text, k) = x + y /\ y \in Nat
        BY <4>2, <4>4, Zenon
      <4>6. x = 0
        <5> HIDE DEF x
        <5>1. x = Len(<<>>)
          BY <4>3 DEF x
        <5> QED BY <5>1
      <4> HIDE DEF x, y
      <4>7. Before(text, k) = y
        BY <4>5, <4>6
      <4> QED BY <4>7 DEF y
    <3>6. q \in Nat
      <4>1. SubSeq(result, 1, i) \in Seq(Seq(Chunker!Char))
        <5>1. result \in Seq(Seq(Chunker!Char))
          BY <2>5 DEF ChunksFrom
        <5>2. \A x \in 1 .. i : result[x] \in Seq(Chunker!Char)
          BY <5>1
        <5>3. 1 \in Int /\ i \in Int
          OBVIOUS
        <5> QED BY <5>2, <5>3, SubSeqProperties
      <4>2. Printed(FlattenSeq(SubSeq(result, 1, i))) \in Seq(Chunker!Char)
        BY <4>1, FlattenType, PrintedMapped
      <4> QED BY <4>2
    <3>7. Before(t, j) = Before(t, 0) + q
      <4>1. Before(t, j) = q
        BY <2>11, <3>5, Zenon
      <4> HIDE DEF q
      <4> QED BY <2>10, <3>6, <4>1
    <3> QED BY <2>5, <3>2, <3>3, <3>7 DEF ChunksFrom, n
  <2>12. /\ result \in Seq(Seq(Chunker!Char))
         /\ \A i \in 1 .. Len(result) : /\ Len(result[i]) \in 1 .. max
                                        /\ NotBlank(result[i][1])
                                        /\ NotBlank(result[i][Len(result[i])])
    BY <2>5 DEF ChunksFrom
  <2>13. \A i \in 1 .. Len(result) - 1 : \A k \in 1 .. L - 1 :
           /\ NotBlank(text[k]) /\ NotBlank(text[k + 1])
           /\ Before(text, k) = Len(Printed(FlattenSeq(SubSeq(result, 1, i))))
           => NoBetterCut(result[i], max)
    BY <2>11
  <2> QED BY <2>9, <2>12, <2>13, Zenon DEF ChunksOf, L
<1>6. ChunksOf(result, text, max)
  <2> HIDE DEF n
  <2>1. \/ t = <<>> /\ \A i \in 1 .. L : ~NotBlank(text[i])
        \/ \E a, z \in 1 .. L :
             /\ a <= z /\ t = SubSeq(text, a, z)
             /\ NotBlank(text[a]) /\ NotBlank(text[z])
             /\ \A i \in 1 .. L : i < a \/ i > z => ~NotBlank(text[i])
    BY <1>1, StrippedText
  <2> HIDE DEF t, L
  <2> QED BY <1>4, <1>5, <2>1, Zenon
<1> HIDE DEF t
<1>7. DOMAIN result = 1 .. Len(result)
  BY <1>6 DEF ChunksOf
<1>8. ChunksKeepTheText
  BY <1>6, <1>7 DEF ChunksKeepTheText, ChunksOf, text, max
<1>9. WordsAreCutLast
  <2> SUFFICES ASSUME NEW i \in 1 .. Len(result) - 1, NEW k \in 1 .. Len(task.text) - 1,
                      EndsAt(i, k), NotBlank(task.text[k + 1])
               PROVE  NoBetterCut(result[i], task.max)
    BY DEF WordsAreCutLast
  <2>1. /\ NotBlank(text[k]) /\ NotBlank(text[k + 1]) /\ k \in 1 .. L - 1
        /\ Before(text, k) = Len(Printed(FlattenSeq(SubSeq(result, 1, i))))
    BY DEF EndsAt, Before, text, L
  <2>2. NoBetterCut(result[i], max)
    BY <1>6, <2>1, Zenon DEF ChunksOf, L
  <2> QED BY <2>2 DEF max
<1> QED BY <1>8, <1>9

\* chunk_text: the chunks keep the text, fit, and cut words last.
THEOREM TextKept == Spec => []TextIsChunked
<1>1. RunInv => TextIsChunked
  BY TextChunked DEF TextIsChunked
<1> QED BY <1>1, RunHolds, PTL
=============================================================================
