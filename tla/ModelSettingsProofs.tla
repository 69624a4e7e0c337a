------------------------ MODULE ModelSettingsProofs ------------------------
(***************************************************************************)
(* Proofs about ModelSettings: its types, that the settings page shows     *)
(* what a job uses, that no setting is lost, and that no model is chosen   *)
(* that nobody has tried.                                                  *)
(***************************************************************************)
EXTENDS ModelSettings, TLAPS

(* A stored proof is that of a stored path: neither is ever cleared.       *)
ProofsHavePaths ==
  \A u \in Admins, c \in Categories :
    Stored(row[u], <<"proof", c>>) # Null => Stored(row[u], <<"path", c>>) # Null

PathsStay ==
  \A r \in Requests : req[r] # Idle =>
    \A c \in Categories :
      Stored(req[r].saw, <<"path", c>>) # Null
        => Stored(row[req[r].user], <<"path", c>>) # Null

(* A request that needs a proof has one.                                   *)
Backed(v, u, c, path) ==
  /\ path # Null /\ v \in Proofs /\ ProofOf(v, u, c, Normal(path))

NeededProofsAreBacked ==
  \A r \in Requests : req[r] # Idle =>
    \A c \in Categories :
      NeedsValidation(req[r].saw, req[r].patch, c) =>
        Backed(req[r].patch[<<"proof", c>>], req[r].user, c,
               EffectivePath(req[r].saw, req[r].patch, c))

(* What a request must probe is still to be probed, or has been.           *)
NeededProbesAreMade ==
  \A r \in Requests : req[r] # Idle =>
    Pending(req[r].saw, req[r].patch) \subseteq req[r].pending \cup probed

Inv ==
  /\ TypeOK
  /\ ProofsHavePaths
  /\ PathsStay
  /\ NeededProofsAreBacked
  /\ NeededProbesAreMade

----------------------------------------------------------------------------
(* The columns, and what they hold.                                        *)

LEMMA ColumnsOf ==
  ASSUME NEW c \in Categories
  PROVE  /\ <<"provider", c>> \in Columns /\ <<"path", c>> \in Columns
         /\ <<"proof", c>> \in Columns /\ <<"model", c>> \in Columns
         /\ Key \in Columns /\ Ollama \in Columns
BY DEF Columns, Key, Ollama

LEMMA ValuesOf ==
  ASSUME NEW c \in Categories
  PROVE  /\ Values(<<"provider", c>>) = Providers
         /\ Values(<<"path", c>>) = Paths
         /\ Values(<<"proof", c>>) = Proofs
         /\ Values(<<"model", c>>) = Models
         /\ Values(Key) = ApiKeys
         /\ Values(Ollama) = Models
BY DEF Values, Key, Ollama

LEMMA ValuesAreValues ==
  ASSUME NEW col \in Columns
  PROVE  Values(col) \subseteq Value
BY DEF Columns, Values, Value

LEMMA NothingIsNoValue ==
  /\ Null # Unset
  /\ \A x \in Value : Given(x)
  /\ \A x \in Row : x # NoRow
BY SettingsAssumption DEF Given, Row

LEMMA StoredTypes ==
  ASSUME NEW x \in Row \cup {NoRow}, NEW col \in Columns
  PROVE  Stored(x, col) \in Values(col) \cup {Null}
BY DEF Stored, Row

LEMMA FreshType == Fresh \in Row /\ \A col \in Columns : Fresh[col] = Null
BY DEF Fresh, Row

LEMMA LegacyType ==
  ASSUME NEW x \in Categories \X Paths
  PROVE  /\ Legacy(x) \in Row
         /\ \A c \in Categories : Legacy(x)[<<"proof", c>>] = Null
<1>1. PICK d \in Categories, path \in Paths : x = <<d, path>>
  OBVIOUS
<1>2. Legacy(x) = [[Fresh EXCEPT ![<<"provider", d>>] = "local"]
                   EXCEPT ![<<"path", d>>] = path]
  BY <1>1 DEF Legacy
<1>3. \A col \in Columns :
        Legacy(x)[col] = IF col = <<"path", d>> THEN path
                         ELSE IF col = <<"provider", d>> THEN "local" ELSE Null
  <2> DEFINE f == [Fresh EXCEPT ![<<"provider", d>>] = "local"]
  <2>1. DOMAIN Fresh = Columns /\ DOMAIN f = Columns
    BY DEF Fresh
  <2>2. \A col \in Columns :
          f[col] = IF col = <<"provider", d>> THEN "local" ELSE Null
    BY <2>1, FreshType
  <2>3. Legacy(x) = [f EXCEPT ![<<"path", d>>] = path]
    BY <1>2
  <2> HIDE DEF f
  <2> QED
    BY <2>1, <2>2, <2>3
<1>4. \A col \in Columns : Legacy(x)[col] \in Values(col) \cup {Null}
  <2>1. /\ path \in Values(<<"path", d>>)
        /\ "local" \in Values(<<"provider", d>>)
    BY ValuesOf DEF Providers
  <2> QED
    BY <1>3, <2>1
<1>5. Legacy(x) = [col \in Columns |-> Legacy(x)[col]]
  <2>1. Fresh = [col \in Columns |-> Fresh[col]]
    BY DEF Fresh
  <2> QED
    BY <1>2, <2>1
<1>6. Legacy(x) \in [Columns -> Value \cup {Null}]
  BY <1>4, <1>5, ValuesAreValues
<1>7. \A c \in Categories : Legacy(x)[<<"proof", c>>] = Null
  BY <1>3, ColumnsOf
<1> QED
  BY <1>4, <1>6, <1>7 DEF Row

LEMMA OfferedType ==
  ASSUME NEW p \in Patches, NEW u \in Admins, NEW v \in Proofs
  PROVE  Offered(p, u, v) \in Patch
<1>1. /\ p \in [Columns -> Value \cup {Null, Unset}]
      /\ \A col \in Columns : p[col] \in Values(col) \cup {Null, Unset}
  BY SettingsAssumption DEF Patch
<1>2. \A col \in Columns : col[1] = "proof" => v \in Values(col)
  BY DEF Values
<1>3. \A col \in Columns :
        Offered(p, u, v)[col] \in Values(col) \cup {Null, Unset}
  BY <1>1, <1>2 DEF Offered
<1>4. Offered(p, u, v) \in [Columns -> Value \cup {Null, Unset}]
  BY <1>3, ValuesAreValues DEF Offered
<1> QED
  BY <1>3, <1>4 DEF Patch

(* What a request holds.                                                   *)
LEMMA RequestTypes ==
  ASSUME TypeOK, NEW r \in Requests, req[r] # Idle
  PROVE  /\ req[r] \in Request
         /\ req[r].user \in Admins
         /\ req[r].patch \in Patch
         /\ req[r].saw \in Row \cup {NoRow}
         /\ req[r].pending \in SUBSET Probe
BY DEF TypeOK, Request

LEMMA AssignedTypes ==
  ASSUME NEW q \in Request, NEW col \in Columns
  PROVE  /\ Assigned(q, col) \in {q.patch[col], Unset}
         /\ Assigned(q, col) \in Values(col) \cup {Null, Unset}
         /\ col[1] # "provider" => Assigned(q, col) # Null
         /\ col[1] = "proof" /\ Assigned(q, col) # Unset
              => NeedsValidation(q.saw, q.patch, col[2])
<1>1. q.patch[col] \in Values(col) \cup {Null, Unset}
  BY DEF Request, Patch
<1>2. CASE col[1] = "provider"
  BY <1>1, <1>2 DEF Assigned
<1>3. CASE col[1] = "proof" /\ ~ NeedsValidation(q.saw, q.patch, col[2])
  BY <1>3, NothingIsNoValue DEF Assigned
<1>4. CASE /\ col[1] # "provider"
           /\ ~ (col[1] = "proof" /\ ~ NeedsValidation(q.saw, q.patch, col[2]))
  <2>1. Assigned(q, col) = IF Given(q.patch[col]) THEN q.patch[col] ELSE Unset
    BY <1>4 DEF Assigned
  <2> QED
    BY <1>1, <1>4, <2>1, NothingIsNoValue DEF Given
<1> QED
  BY <1>2, <1>3, <1>4

LEMMA BaseType ==
  ASSUME TypeOK, NEW q \in Request
  PROVE  Base(q) \in Row
BY FreshType DEF TypeOK, Request, Base

(* A column is written with what is assigned to it, or keeps its value.    *)
LEMMA WrittenEffect ==
  ASSUME TypeOK, NEW q \in Request
  PROVE  /\ Written(q) \in Row
         /\ \A col \in Columns :
              Written(q)[col] =
                IF Assigned(q, col) \in {Unset, Base(q)[col]}
                THEN Stored(row[q.user], col) ELSE Assigned(q, col)
<1> DEFINE current == IF row[q.user] = NoRow THEN Fresh ELSE row[q.user]
<1>1. q.user \in Admins /\ row[q.user] \in Row \cup {NoRow}
  BY DEF Request, TypeOK
<1>2. \A col \in Columns : current[col] = Stored(row[q.user], col)
  BY FreshType DEF Stored
<1>3. Written(q) = [col \in Columns |->
                      IF Assigned(q, col) \in {Unset, Base(q)[col]}
                      THEN current[col] ELSE Assigned(q, col)]
  BY DEF Written
<1> HIDE DEF current
<1>4. \A col \in Columns :
        Written(q)[col] =
          IF Assigned(q, col) \in {Unset, Base(q)[col]}
          THEN Stored(row[q.user], col) ELSE Assigned(q, col)
  BY <1>2, <1>3
<1>5. \A col \in Columns : Written(q)[col] \in Values(col) \cup {Null}
  BY <1>1, <1>4, StoredTypes, AssignedTypes
<1>6. Written(q) \in [Columns -> Value \cup {Null}]
  BY <1>3, <1>5, ValuesAreValues
<1> QED
  BY <1>4, <1>5, <1>6 DEF Row

----------------------------------------------------------------------------
(* Types.                                                                  *)

LEMMA InitTypes == Init => TypeOK
<1> SUFFICES ASSUME Init
             PROVE  TypeOK
  OBVIOUS
<1>1. row \in [Admins -> Row \cup {NoRow}]
  BY LegacyType, SettingsAssumption DEF Init
<1> QED
  BY <1>1 DEF Init, TypeOK

LEMMA NextTypes == TypeOK /\ [Next]_vars => TypeOK'
<1> SUFFICES ASSUME TypeOK, [Next]_vars
             PROVE  TypeOK'
  OBVIOUS
<1>1. ASSUME NEW u \in Admins, NEW c \in Categories, NEW path \in Paths,
             Validate(u, c, path)
      PROVE  TypeOK'
  <2>1. Normal(path) \in Places
    BY SettingsAssumption DEF Normal
  <2>2. [user |-> u, category |-> c, place |-> Normal(path),
         expired |-> FALSE] \in Proof
    BY <2>1 DEF Proof
  <2> QED
    BY <1>1, <2>2 DEF Validate, TypeOK
<1>2. ASSUME NEW v \in Proofs, Expire(v)
      PROVE  TypeOK'
  <2>1. [proof[v] EXCEPT !.expired = TRUE] \in Proof
    BY <1>2 DEF Expire, Issued, Proof, TypeOK
  <2> QED
    BY <1>2, <2>1 DEF Expire, TypeOK
<1>4. ASSUME NEW r \in Requests, NEW u \in Admins, NEW p \in Patch,
             PatchBegin(r, u, p)
      PROVE  TypeOK'
  <2>1. Pending(row[u], p) \in SUBSET Probe
    BY DEF Pending
  <2>2. row[u] \in Row \cup {NoRow}
    BY DEF TypeOK
  <2>3. [step |-> "patch", user |-> u, patch |-> p, saw |-> row[u],
         pending |-> Pending(row[u], p)] \in Request
    BY <2>1, <2>2 DEF Request
  <2> QED
    BY <1>4, <2>3 DEF PatchBegin, TypeOK
<1>5. ASSUME NEW r \in Requests, ProbeAnswered(r)
      PROVE  TypeOK'
  <2>1. [req[r] EXCEPT !.pending = {}] \in Request /\ req[r].pending \in SUBSET Probe
    BY <1>5, RequestTypes DEF ProbeAnswered, Request
  <2>2. /\ req' = [req EXCEPT ![r] = [req[r] EXCEPT !.pending = {}]]
        /\ probed' = probed \cup req[r].pending
        /\ UNCHANGED <<proof, row>>
    BY <1>5 DEF ProbeAnswered
  <2> QED
    BY <2>1, <2>2 DEF TypeOK
<1>6. ASSUME NEW r \in Requests, PatchCommit(r)
      PROVE  TypeOK'
  <2>1. req[r] \in Request /\ Written(req[r]) \in Row
    BY <1>6, RequestTypes, WrittenEffect DEF PatchCommit
  <2> QED
    BY <1>6, <2>1 DEF PatchCommit, TypeOK
<1>7. ASSUME NEW r \in Requests, PatchAbort(r)
      PROVE  TypeOK'
  BY <1>7 DEF PatchAbort, TypeOK
<1>8. CASE UNCHANGED vars
  BY <1>8 DEF vars, TypeOK
<1> QED
  BY <1>1, <1>2, <1>4, <1>5, <1>6, <1>7, <1>8, OfferedType DEF Next

----------------------------------------------------------------------------
(* The invariant, part by part.                                            *)

LEMMA InitInv == Init => Inv
<1> SUFFICES ASSUME Init
             PROVE  Inv
  OBVIOUS
<1>1. TypeOK
  BY InitTypes
<1>3. ASSUME NEW u \in Admins, NEW c \in Categories
      PROVE  Stored(row[u], <<"proof", c>>) = Null
  BY LegacyType, SettingsAssumption DEF Init, Stored
<1>4. ProofsHavePaths
  BY <1>3 DEF ProofsHavePaths
<1>5. PathsStay /\ NeededProofsAreBacked /\ NeededProbesAreMade
  BY DEF Init, PathsStay, NeededProofsAreBacked, NeededProbesAreMade
<1> QED
  BY <1>1, <1>4, <1>5 DEF Inv

(* The steps that change no row and no request keep what was issued.       *)
LEMMA ProofStepKeepsInv ==
  ASSUME Inv, TypeOK', UNCHANGED <<row, req, probed>>,
         \A v \in Proofs : Issued(v) =>
           /\ Issued(v)'
           /\ proof'[v].user = proof[v].user
           /\ proof'[v].category = proof[v].category
           /\ proof'[v].place = proof[v].place
  PROVE  Inv'
<1>1. ProofsHavePaths' /\ PathsStay' /\ NeededProbesAreMade'
  BY DEF Inv, ProofsHavePaths, PathsStay, NeededProbesAreMade
<1>2. \A v, u, c, path : Backed(v, u, c, path) => Backed(v, u, c, path)'
  BY DEF Backed, ProofOf
<1>3. NeededProofsAreBacked'
  BY <1>2 DEF Inv, NeededProofsAreBacked
<1> QED
  BY <1>1, <1>3 DEF Inv

LEMMA ValidateKeepsInv ==
  ASSUME Inv, NEW u \in Admins, NEW c \in Categories, NEW path \in Paths,
         Validate(u, c, path)
  PROVE  Inv'
<1> DEFINE x == [user |-> u, category |-> c, place |-> Normal(path),
                 expired |-> FALSE]
<1>1. PICK v \in Proofs : ~Issued(v) /\ proof' = [proof EXCEPT ![v] = x]
  BY DEF Validate
<1>2. UNCHANGED <<row, req, probed>>
  BY DEF Validate
<1> HIDE DEF x
<1>3. \A w \in Proofs : proof'[w] = IF w = v THEN x ELSE proof[w]
  BY <1>1 DEF Inv, TypeOK
<1>4. TypeOK'
  BY NextTypes DEF Inv, Next
<1>5. \A w \in Proofs : Issued(w) => Issued(w)' /\ proof'[w] = proof[w]
  BY <1>1, <1>3 DEF Issued
<1> QED
  BY <1>2, <1>4, <1>5, ProofStepKeepsInv

LEMMA ExpireKeepsInv ==
  ASSUME Inv, NEW v \in Proofs, Expire(v)
  PROVE  Inv'
<1> DEFINE x == [proof[v] EXCEPT !.expired = TRUE]
<1>1. /\ Issued(v) /\ proof' = [proof EXCEPT ![v] = x]
      /\ UNCHANGED <<row, req, probed>>
  BY DEF Expire
<1>2. proof[v] \in Proof
  BY <1>1 DEF Inv, TypeOK, Issued
<1>3. /\ x # NoProof /\ x.user = proof[v].user /\ x.category = proof[v].category
      /\ x.place = proof[v].place
  BY <1>2 DEF Proof, NoProof
<1> HIDE DEF x
<1>4. \A w \in Proofs : proof'[w] = IF w = v THEN x ELSE proof[w]
  BY <1>1 DEF Inv, TypeOK
<1>5. TypeOK'
  BY NextTypes DEF Inv, Next
<1> QED
  BY <1>1, <1>3, <1>4, <1>5, ProofStepKeepsInv DEF Issued

LEMMA BeginKeepsInv ==
  ASSUME Inv, NEW r \in Requests, NEW u \in Admins, NEW p \in Patch,
         PatchBegin(r, u, p), TypeOK'
  PROVE  Inv'
<1> DEFINE q == [step |-> "patch", user |-> u, patch |-> p, saw |-> row[u],
                 pending |-> Pending(row[u], p)]
<1>1. /\ req' = [req EXCEPT ![r] = q] /\ UNCHANGED <<proof, row, probed>>
      /\ \A c \in Categories :
           NeedsValidation(row[u], p, c) =>
             Proves(p[<<"proof", c>>], u, c, EffectivePath(row[u], p, c))
  BY DEF PatchBegin
<1>2. /\ q.user = u /\ q.patch = p /\ q.saw = row[u]
      /\ q.pending = Pending(row[u], p)
  OBVIOUS
<1> HIDE DEF q
<1>3. \A s \in Requests : req'[s] = IF s = r THEN q ELSE req[s]
  BY <1>1 DEF Inv, TypeOK
<1>4. ProofsHavePaths'
  BY <1>1 DEF Inv, ProofsHavePaths
<1>5. PathsStay'
  BY <1>1, <1>2, <1>3 DEF Inv, PathsStay
<1>6. \A v, w, c, path : Proves(v, w, c, path) => Backed(v, w, c, path)
  BY DEF Proves, Backed
<1>7. \A v, w, c, path : Backed(v, w, c, path) <=> Backed(v, w, c, path)'
  BY <1>1 DEF Backed, ProofOf, Issued
<1>8. NeededProofsAreBacked'
  BY <1>1, <1>2, <1>3, <1>6, <1>7 DEF Inv, NeededProofsAreBacked
<1>9. NeededProbesAreMade'
  BY <1>1, <1>2, <1>3 DEF Inv, NeededProbesAreMade
<1> QED
  BY <1>4, <1>5, <1>8, <1>9 DEF Inv

LEMMA ProbeKeepsInv ==
  ASSUME Inv, NEW r \in Requests, ProbeAnswered(r), TypeOK'
  PROVE  Inv'
<1> DEFINE q == [req[r] EXCEPT !.pending = {}]
<1>1. /\ req[r] # Idle /\ req' = [req EXCEPT ![r] = q]
      /\ probed' = probed \cup req[r].pending /\ UNCHANGED <<proof, row>>
  BY DEF ProbeAnswered
<1>2. req[r] \in Request
  BY <1>1, RequestTypes DEF Inv
<1>3. /\ q.user = req[r].user /\ q.patch = req[r].patch /\ q.saw = req[r].saw
      /\ q.pending = {}
  BY <1>2 DEF Request
<1> HIDE DEF q
<1>4. \A s \in Requests : req'[s] = IF s = r THEN q ELSE req[s]
  BY <1>1 DEF Inv, TypeOK
<1>5. ProofsHavePaths'
  BY <1>1 DEF Inv, ProofsHavePaths
<1>6. PathsStay'
  BY <1>1, <1>3, <1>4 DEF Inv, PathsStay
<1>7. \A v, w, c, path : Backed(v, w, c, path) <=> Backed(v, w, c, path)'
  BY <1>1 DEF Backed, ProofOf, Issued
<1>8. NeededProofsAreBacked'
  BY <1>1, <1>3, <1>4, <1>7 DEF Inv, NeededProofsAreBacked
<1>9. NeededProbesAreMade'
  BY <1>1, <1>3, <1>4 DEF Inv, NeededProbesAreMade
<1> QED
  BY <1>5, <1>6, <1>8, <1>9 DEF Inv

(* No column but a provider is ever cleared.                               *)
LEMMA CommitClearsNothing ==
  ASSUME TypeOK, NEW r \in Requests, PatchCommit(r),
         NEW u \in Admins, NEW col \in Columns, col[1] # "provider",
         Stored(row[u], col) # Null
  PROVE  Stored(row'[u], col) # Null
<1>1. /\ req[r] \in Request
      /\ row' = [row EXCEPT ![req[r].user] = Written(req[r])]
  BY RequestTypes DEF PatchCommit
<1>2. Written(req[r]) \in Row
  BY <1>1, WrittenEffect
<1>3. CASE u = req[r].user
  <2>1. row'[u] = Written(req[r])
    BY <1>1, <1>3 DEF TypeOK
  <2>2. Written(req[r])[col] # Null
    BY <1>1, <1>3, WrittenEffect, AssignedTypes
  <2> QED
    BY <1>2, <2>1, <2>2, NothingIsNoValue DEF Stored
<1>4. CASE u # req[r].user
  BY <1>1, <1>4 DEF TypeOK
<1> QED
  BY <1>3, <1>4

LEMMA CommitKeepsInv ==
  ASSUME Inv, NEW r \in Requests, PatchCommit(r), TypeOK'
  PROVE  Inv'
<1> DEFINE q == req[r]
           w == q.user
<1>1. /\ q \in Request /\ w \in Admins /\ q # Idle
      /\ row' = [row EXCEPT ![w] = Written(q)]
      /\ req' = [req EXCEPT ![r] = Idle]
      /\ UNCHANGED <<proof, probed>>
  BY RequestTypes DEF PatchCommit, Inv
<1>2. \A s \in Requests : req'[s] = IF s = r THEN Idle ELSE req[s]
  BY <1>1 DEF Inv, TypeOK
<1>3. /\ row'[w] = Written(q) /\ Written(q) \in Row
      /\ \A u \in Admins : u # w => row'[u] = row[u]
      /\ \A col \in Columns : Stored(row'[w], col) = Written(q)[col]
  <2>1. row'[w] = Written(q) /\ Written(q) \in Row
    BY <1>1, WrittenEffect DEF Inv, TypeOK
  <2> QED
    BY <1>1, <2>1, NothingIsNoValue DEF Inv, TypeOK, Stored
<1>5. PathsStay'
  <2>1. ASSUME NEW s \in Requests, req'[s] # Idle, NEW c \in Categories,
               Stored(req'[s].saw, <<"path", c>>) # Null
        PROVE  Stored(row'[req'[s].user], <<"path", c>>) # Null
    <3>1. req'[s] = req[s] /\ req[s] # Idle
      BY <1>2, <2>1
    <3>2. req[s].user \in Admins
      BY <3>1, RequestTypes DEF Inv
    <3>3. Stored(row[req[s].user], <<"path", c>>) # Null
      BY <2>1, <3>1 DEF Inv, PathsStay
    <3> QED
      BY <3>1, <3>2, <3>3, CommitClearsNothing, ColumnsOf DEF Inv
  <2> QED
    BY <2>1 DEF PathsStay
<1>6. ProofsHavePaths'
  <2>1. ASSUME NEW u \in Admins, NEW c \in Categories,
               Stored(row'[u], <<"proof", c>>) # Null
        PROVE  Stored(row'[u], <<"path", c>>) # Null
    <3>1. CASE Stored(row[u], <<"path", c>>) # Null
      BY <3>1, CommitClearsNothing, ColumnsOf DEF Inv
    <3>2. CASE Stored(row[u], <<"path", c>>) = Null
      <4>1. Stored(row[u], <<"proof", c>>) = Null
        BY <3>2 DEF Inv, ProofsHavePaths
      <4>2. u = w
        BY <1>3, <2>1, <4>1
      <4>3. NeedsValidation(q.saw, q.patch, c)
        <5>1. /\ Written(q)[<<"proof", c>>] # Null
              /\ Stored(row[q.user], <<"proof", c>>) = Null
          BY <1>3, <2>1, <4>1, <4>2, ColumnsOf
        <5>2. Assigned(q, <<"proof", c>>) # Unset
          BY <1>1, <5>1, WrittenEffect, ColumnsOf DEF Inv
        <5> QED
          BY <1>1, <5>2, AssignedTypes, ColumnsOf
      <4>4. EffectivePath(q.saw, q.patch, c) # Null
        BY <1>1, <4>3 DEF Inv, NeededProofsAreBacked, Backed
      <4>5. Stored(q.saw, <<"path", c>>) = Null
        BY <1>1, <3>2, <4>2 DEF Inv, PathsStay
      <4>6. Given(q.patch[<<"path", c>>])
        BY <4>4, <4>5 DEF EffectivePath, Given
      <4>7. /\ Assigned(q, <<"path", c>>) = q.patch[<<"path", c>>]
            /\ Assigned(q, <<"path", c>>) \notin {Null, Unset}
        BY <4>6 DEF Assigned, Given
      <4>8. Base(q)[<<"path", c>>] = Null
        BY <3>2, <4>2, <4>5, FreshType, ColumnsOf DEF Base, Stored
      <4>9. Written(q)[<<"path", c>>] # Null
        BY <1>1, <4>7, <4>8, WrittenEffect, ColumnsOf DEF Inv
      <4> QED
        BY <1>3, <4>2, <4>9, ColumnsOf
    <3> QED
      BY <3>1, <3>2
  <2> QED
    BY <2>1 DEF ProofsHavePaths
<1>7. NeededProofsAreBacked'
  <2>1. \A v, u, c, path : Backed(v, u, c, path) <=> Backed(v, u, c, path)'
    BY <1>1 DEF Backed, ProofOf, Issued
  <2> QED
    BY <1>2, <2>1 DEF Inv, NeededProofsAreBacked
<1>8. NeededProbesAreMade'
  BY <1>1, <1>2 DEF Inv, NeededProbesAreMade
<1> QED
  BY <1>5, <1>6, <1>7, <1>8 DEF Inv

LEMMA AbortKeepsInv ==
  ASSUME Inv, NEW r \in Requests, PatchAbort(r), TypeOK'
  PROVE  Inv'
<1>1. UNCHANGED <<proof, row, probed>>
  BY DEF PatchAbort
<1>2. \A s \in Requests : req'[s] # Idle => req'[s] = req[s]
  BY DEF Inv, TypeOK, PatchAbort
<1>3. ProofsHavePaths'
  BY <1>1 DEF Inv, ProofsHavePaths
<1>4. PathsStay' /\ NeededProbesAreMade'
  BY <1>1, <1>2 DEF Inv, PathsStay, NeededProbesAreMade
<1>5. \A v, u, c, path : Backed(v, u, c, path) <=> Backed(v, u, c, path)'
  BY <1>1 DEF Backed, ProofOf, Issued
<1>6. NeededProofsAreBacked'
  BY <1>2, <1>5 DEF Inv, NeededProofsAreBacked
<1> QED
  BY <1>3, <1>4, <1>6 DEF Inv

LEMMA NextKeepsInv == Inv /\ [Next]_vars => Inv'
<1> SUFFICES ASSUME Inv, [Next]_vars
             PROVE  Inv'
  OBVIOUS
<1>1. TypeOK'
  BY NextTypes DEF Inv
<1>2. CASE UNCHANGED vars
  <2>1. UNCHANGED <<row, req, probed, proof>>
    BY <1>2 DEF vars
  <2> QED
    BY <1>1, <2>1, ProofStepKeepsInv DEF Issued
<1>3. CASE Next
  BY <1>1, <1>3, ValidateKeepsInv, ExpireKeepsInv, BeginKeepsInv, ProbeKeepsInv,
     CommitKeepsInv, AbortKeepsInv, OfferedType DEF Next
<1> QED
  BY <1>2, <1>3

----------------------------------------------------------------------------
(* Every variable keeps its type.                                          *)
THEOREM TypeCorrect == Spec => []TypeOK
BY InitTypes, NextTypes, PTL DEF Spec

(* The inductive invariant: a stored validation has a stored path, and a   *)
(* request in progress has the validations its change needs and has made,  *)
(* or will make, the probes it needs.                                      *)
THEOREM InvHolds == Spec => []Inv
BY InitInv, NextKeepsInv, PTL DEF Spec

(* The settings page and the adapter of a job agree on the provider and    *)
(* the model, for every row and every environment but in the named cases.  *)
THEOREM PageShowsWhatIsUsed == Spec => []ShownIsUsed
<1>1. ASSUME Inv
      PROVE  ShownIsUsed
  <2> SUFFICES ASSUME NEW u \in Admins, NEW c \in Categories,
                      NEW env \in EnvProviders
               PROVE  LET s(col) == Stored(row[u], col)
                          provider == s(<<"provider", c>>)
                      IN \/ Shown(u, c, env) = Used(u, c, env)
                         \/ provider = "cloud" /\ s(Key) = Null
                         \/ provider = "ollama" /\ c = "transcription"
                         \/ provider = Null /\ \/ s(<<"model", c>>) # Null \/ s(Ollama) # Null
                                               \/ EnvProvider(env, c) = "local"
                         \/ provider = "local" /\ s(<<"proof", c>>) = Null
    BY DEF ShownIsUsed
  <2> DEFINE provider == Stored(row[u], <<"provider", c>>)
             model == Stored(row[u], <<"model", c>>)
             ollama == Stored(row[u], Ollama)
             path == Stored(row[u], <<"path", c>>)
             key == Stored(row[u], Key)
             valid == Stored(row[u], <<"proof", c>>)
             given == Or(provider, EnvProvider(env, c))
  <2>1. provider \in Providers \cup {Null} /\ Null \notin Providers
    BY <1>1, StoredTypes, ColumnsOf, ValuesOf, SettingsAssumption DEF Inv, TypeOK, Value
  <2>2. EnvProvider(env, c) \in {"local", "cloud", "ollama"}
    BY DEF EnvProvider
  <2>3. valid # Null => path # Null
    BY <1>1 DEF Inv, ProofsHavePaths
  <2>4. Shown(u, c, env) =
          [provider |-> given,
           model |-> CASE given = "cloud" -> Or(model, "env")
                       [] given = "ollama" -> Or(ollama, "env")
                       [] given = "local" -> path]
    BY DEF Shown
  <2>5. Used(u, c, env) =
          CASE provider = "cloud" /\ key # Null ->
                 [provider |-> "cloud", model |-> Or(model, "env")]
            [] provider = "ollama" /\ c = "summary" ->
                 [provider |-> "ollama", model |-> Or(ollama, "env")]
            [] provider = "local" ->
                 IF path = Null \/ valid = Null
                 THEN NotRunnable ELSE [provider |-> "local", model |-> path]
            [] OTHER -> [provider |-> EnvProvider(env, c), model |-> "env"]
    BY DEF Used, EnvAdapter
  <2>6. ASSUME provider = "cloud", key # Null
        PROVE  Shown(u, c, env) = Used(u, c, env)
    <3>1. given = "cloud"
      BY <2>1, <2>6 DEF Or, Providers
    <3> HIDE DEF provider, given, model, ollama, path, key, valid
    <3>2. Shown(u, c, env) = [provider |-> "cloud", model |-> Or(model, "env")]
      BY <2>4, <3>1
    <3>3. Used(u, c, env) = [provider |-> "cloud", model |-> Or(model, "env")]
      BY <2>5, <2>6
    <3> QED
      BY <3>2, <3>3
  <2>7. ASSUME provider = "ollama", c = "summary"
        PROVE  Shown(u, c, env) = Used(u, c, env)
    <3>1. given = "ollama"
      BY <2>1, <2>7 DEF Or, Providers
    <3> HIDE DEF provider, given, model, ollama, path, key, valid
    <3>2. Shown(u, c, env) = [provider |-> "ollama", model |-> Or(ollama, "env")]
      BY <2>4, <3>1
    <3>3. Used(u, c, env) = [provider |-> "ollama", model |-> Or(ollama, "env")]
      BY <2>5, <2>7
    <3> QED
      BY <3>2, <3>3
  <2>8. ASSUME provider = "local", valid # Null
        PROVE  Shown(u, c, env) = Used(u, c, env)
    <3>1. given = "local"
      BY <2>1, <2>8 DEF Or, Providers
    <3> HIDE DEF provider, given, model, ollama, path, key, valid
    <3>2. Shown(u, c, env) = [provider |-> "local", model |-> path]
      BY <2>4, <3>1
    <3>3. Used(u, c, env) = [provider |-> "local", model |-> path]
      BY <2>3, <2>5, <2>8
    <3> QED
      BY <3>2, <3>3
  <2>9. ASSUME provider = Null, model = Null, ollama = Null,
               EnvProvider(env, c) # "local"
        PROVE  Shown(u, c, env) = Used(u, c, env)
    <3>1. /\ given = EnvProvider(env, c)
          /\ Or(model, "env") = "env" /\ Or(ollama, "env") = "env"
      BY <2>9 DEF Or
    <3>2. provider \notin Providers
      BY <2>1, <2>9
    <3> HIDE DEF provider, given, model, ollama, path, key, valid
    <3>3. Shown(u, c, env) = [provider |-> EnvProvider(env, c), model |-> "env"]
      BY <2>2, <2>4, <2>9, <3>1
    <3>4. Used(u, c, env) = [provider |-> EnvProvider(env, c), model |-> "env"]
      BY <2>5, <3>2 DEF Providers
    <3> QED
      BY <3>3, <3>4
  <2>10. \/ provider = "cloud" /\ key # Null
         \/ provider = "ollama" /\ c = "summary"
         \/ provider = "local" /\ valid # Null
         \/ /\ provider = Null /\ model = Null /\ ollama = Null
            /\ EnvProvider(env, c) # "local"
         \/ provider = "cloud" /\ key = Null
         \/ provider = "ollama" /\ c = "transcription"
         \/ provider = Null /\ \/ model # Null \/ ollama # Null
                               \/ EnvProvider(env, c) = "local"
         \/ provider = "local" /\ valid = Null
    BY <2>1 DEF Providers, Categories
  <2> QED
    BY <2>6, <2>7, <2>8, <2>9, <2>10
<1> QED
  BY <1>1, InvHolds, PTL

----------------------------------------------------------------------------
(* What a step that changes a row is: the commit of a request.             *)
LEMMA RowsChangeByCommits ==
  ASSUME TypeOK, Next, NEW u \in Admins, row'[u] # row[u]
  PROVE  \E r \in Requests :
           /\ PatchCommit(r) /\ Commits(r, u) /\ req[r] \in Request
           /\ req[r].pending = {}
           /\ row'[u] = Written(req[r]) /\ Written(req[r]) \in Row
           /\ UNCHANGED <<proof, probed>>
<1>1. PICK r \in Requests : PatchCommit(r)
  BY DEF Next, Validate, Expire, PatchBegin, ProbeAnswered, PatchAbort
<1>2. /\ req[r] # Idle /\ req[r].pending = {}
      /\ row' = [row EXCEPT ![req[r].user] = Written(req[r])]
      /\ req' = [req EXCEPT ![r] = Idle] /\ UNCHANGED <<proof, probed>>
  BY <1>1 DEF PatchCommit
<1>3. req[r] \in Request /\ Written(req[r]) \in Row
  BY <1>2, RequestTypes, WrittenEffect
<1>4. u = req[r].user /\ row'[u] = Written(req[r])
  BY <1>2 DEF TypeOK
<1>5. req'[r] = Idle
  BY <1>2 DEF TypeOK
<1> QED
  BY <1>1, <1>2, <1>3, <1>4, <1>5 DEF Commits

(* A column of the row changes only to what the request that commits gave: *)
(* requests that overlap do not undo each other's settings.                *)
THEOREM NoSettingIsLost == Spec => NoLostSetting
<1> DEFINE Kept ==
      \A u \in Admins, col \in Columns :
        Stored(row[u], col) # Stored(row'[u], col) =>
          \E r \in Requests : /\ Commits(r, u)
                              /\ req[r].patch[col] = Stored(row'[u], col)
<1>1. ASSUME TypeOK, [Next]_vars
      PROVE  [Kept]_vars
  <2> SUFFICES ASSUME Next, NEW u \in Admins, NEW col \in Columns,
                      Stored(row[u], col) # Stored(row'[u], col)
               PROVE  \E r \in Requests :
                        /\ Commits(r, u)
                        /\ req[r].patch[col] = Stored(row'[u], col)
    BY <1>1
  <2>1. PICK r \in Requests :
          /\ Commits(r, u) /\ req[r] \in Request
          /\ row'[u] = Written(req[r]) /\ Written(req[r]) \in Row
    BY <1>1, RowsChangeByCommits
  <2>2. Stored(row'[u], col) = Written(req[r])[col]
    BY <2>1, NothingIsNoValue DEF Stored
  <2>3. req[r].user = u
    BY <2>1 DEF Commits
  <2>4. Written(req[r])[col] = Assigned(req[r], col) /\ Assigned(req[r], col) # Unset
    BY <1>1, <2>1, <2>2, <2>3, WrittenEffect
  <2> QED
    BY <2>1, <2>2, <2>4, AssignedTypes
<1> QED
  BY <1>1, TypeCorrect, PTL DEF Spec, NoLostSetting

(* A column that the request has seen as it is, it writes with what it     *)
(* asked for.                                                              *)
LEMMA FreshColumn ==
  ASSUME TypeOK, NEW q \in Request, NEW col \in Columns,
         Stored(q.saw, col) = Stored(row[q.user], col)
  PROVE  Written(q)[col] = IF Assigned(q, col) = Unset THEN Stored(q.saw, col)
                           ELSE Assigned(q, col)
<1>1. Base(q)[col] = Stored(q.saw, col)
  BY FreshType DEF Base, Stored
<1> QED
  BY <1>1, WrittenEffect

(* The provider and the path it leaves are those its proof was needed for, *)
(* if it has seen the columns of the local model as they are.              *)
LEMMA FreshCommitOfLocal ==
  ASSUME Inv, NEW r \in Requests, req[r] # Idle, NEW c \in Categories,
         ~Overtaken(r, LocalColumns(c)),
         Written(req[r])[<<"provider", c>>] = "local"
  PROVE  \/ /\ NeedsValidation(req[r].saw, req[r].patch, c)
            /\ Written(req[r])[<<"proof", c>>] = req[r].patch[<<"proof", c>>]
            /\ Written(req[r])[<<"path", c>>] =
                 EffectivePath(req[r].saw, req[r].patch, c)
         \/ /\ ~ NeedsValidation(req[r].saw, req[r].patch, c)
            /\ Stored(req[r].saw, <<"provider", c>>) = "local"
            /\ Written(req[r])[<<"proof", c>>] = Stored(req[r].saw, <<"proof", c>>)
            /\ Written(req[r])[<<"path", c>>] = Stored(req[r].saw, <<"path", c>>)
<1> DEFINE q == req[r]
           provider == q.patch[<<"provider", c>>]
           path == q.patch[<<"path", c>>]
           p == q.patch[<<"proof", c>>]
           effective == IF Given(provider) THEN provider
                        ELSE CurrentProvider(q.saw, c)
<1>1. \A col \in LocalColumns(c) :
        Written(q)[col] = IF Assigned(q, col) = Unset THEN Stored(q.saw, col)
                          ELSE Assigned(q, col)
  <2>1. q \in Request
    BY RequestTypes DEF Inv
  <2>2. \A col \in LocalColumns(c) :
          col \in Columns /\ Stored(q.saw, col) = Stored(row[q.user], col)
    BY ColumnsOf DEF Overtaken, LocalColumns
  <2> QED
    BY <2>1, <2>2, FreshColumn DEF Inv
<1>2. /\ Assigned(q, <<"provider", c>>) = provider
      /\ Assigned(q, <<"path", c>>) = IF Given(path) THEN path ELSE Unset
      /\ ~ NeedsValidation(q.saw, q.patch, c)
           => Assigned(q, <<"proof", c>>) = Unset
      /\ NeedsValidation(q.saw, q.patch, c)
           => Assigned(q, <<"proof", c>>) = IF Given(p) THEN p ELSE Unset
  BY DEF Assigned
<1>3. /\ "local" # Null /\ "local" # Unset /\ Null # Unset
      /\ \A x \in Proofs \cup Paths : Given(x)
  BY SettingsAssumption DEF Value, Providers, Given
<1>4. /\ Written(q)[<<"provider", c>>] =
           IF provider = Unset THEN Stored(q.saw, <<"provider", c>>) ELSE provider
      /\ Written(q)[<<"path", c>>] =
           IF Given(path) THEN path ELSE Stored(q.saw, <<"path", c>>)
  BY <1>1, <1>2 DEF LocalColumns, Given
<1>5. effective = "local"
  <2>1. CASE provider = Unset
    <3>1. Stored(q.saw, <<"provider", c>>) = "local"
      BY <1>4, <2>1
    <3>2. CurrentProvider(q.saw, c) = "local"
      BY <1>3, <3>1 DEF Stored, CurrentProvider
    <3> QED
      BY <2>1, <3>2 DEF Given
  <2>2. CASE provider # Unset
    BY <1>3, <1>4, <2>2 DEF Given
  <2> QED
    BY <2>1, <2>2
<1>6. NeedsValidation(q.saw, q.patch, c) <=>
        \/ EffectivePath(q.saw, q.patch, c) # Stored(q.saw, <<"path", c>>)
        \/ CurrentProvider(q.saw, c) # "local"
        \/ Stored(q.saw, <<"proof", c>>) = Null
  BY <1>5 DEF NeedsValidation
<1>7. EffectivePath(q.saw, q.patch, c) =
        IF path = Unset THEN Stored(q.saw, <<"path", c>>) ELSE path
  BY DEF EffectivePath
<1>8. CASE NeedsValidation(q.saw, q.patch, c)
  <2>1. EffectivePath(q.saw, q.patch, c) # Null /\ p \in Proofs
    BY <1>8 DEF Inv, NeededProofsAreBacked, Backed
  <2>2. Written(q)[<<"proof", c>>] = p
    BY <1>1, <1>2, <1>3, <1>8, <2>1 DEF LocalColumns, Given
  <2>3. Written(q)[<<"path", c>>] = EffectivePath(q.saw, q.patch, c)
    BY <1>4, <1>7, <2>1 DEF Given
  <2> QED
    BY <1>8, <2>2, <2>3
<1>9. CASE ~ NeedsValidation(q.saw, q.patch, c)
  <2>1. Written(q)[<<"proof", c>>] = Stored(q.saw, <<"proof", c>>)
    BY <1>1, <1>2, <1>9 DEF LocalColumns
  <2>2. Written(q)[<<"path", c>>] = Stored(q.saw, <<"path", c>>)
    BY <1>4, <1>6, <1>7, <1>9 DEF Given
  <2>3. q.saw # NoRow
    BY <1>6, <1>9 DEF Stored
  <2>4. Stored(q.saw, <<"provider", c>>) = "local"
    BY <1>6, <1>9, <2>3 DEF Stored, CurrentProvider
  <2> QED
    BY <1>9, <2>1, <2>2, <2>4
<1> QED
  BY <1>8, <1>9

(* What was issued stays a validation for its user, category and place.    *)
LEMMA IssuedStays ==
  ASSUME TypeOK, Next, NEW v \in Proofs, NEW u, NEW c, NEW place,
         ProofOf(v, u, c, place)
  PROVE  ProofOf(v, u, c, place)'
<1>1. proof[v] \in Proof
  BY DEF ProofOf, Issued, TypeOK
<1>2. ASSUME NEW w \in Proofs, Expire(w), proof'[v] # proof[v]
      PROVE  proof'[v] = [proof[v] EXCEPT !.expired = TRUE]
  BY <1>2 DEF Expire, TypeOK
<1>3. ASSUME NEW w \in Admins, NEW d \in Categories, NEW path \in Paths,
             Validate(w, d, path)
      PROVE  proof'[v] = proof[v]
  BY <1>3 DEF Validate, ProofOf, TypeOK
<1>4. \/ proof'[v] = proof[v]
      \/ proof'[v] = [proof[v] EXCEPT !.expired = TRUE]
  BY <1>2, <1>3 DEF Next, PatchBegin, ProbeAnswered, PatchCommit, PatchAbort
<1>5. /\ proof'[v] # NoProof
      /\ proof'[v].user = proof[v].user /\ proof'[v].place = proof[v].place
      /\ proof'[v].category = proof[v].category
  BY <1>1, <1>4 DEF Proof, NoProof
<1> QED
  BY <1>5 DEF ProofOf, Issued

LEMMA UntriedStep == Inv /\ [Next]_vars =>
  \A u \in Admins, c \in Categories :
    ~RunsUntried(u, c) /\ RunsUntried(u, c)' =>
      \/ ~SpelledOut(u, c)'
      \/ \E r \in Requests : Commits(r, u) /\ Overtaken(r, LocalColumns(c))
<1> SUFFICES ASSUME Inv, [Next]_vars, NEW u \in Admins, NEW c \in Categories,
                    ~RunsUntried(u, c), RunsUntried(u, c)', SpelledOut(u, c)',
                    \A r \in Requests :
                      Commits(r, u) => ~Overtaken(r, LocalColumns(c))
             PROVE  FALSE
  OBVIOUS
<1> DEFINE valid == Stored(row'[u], <<"proof", c>>)
           path == Stored(row'[u], <<"path", c>>)
<1>1. TypeOK /\ TypeOK'
  BY NextTypes DEF Inv
<1>2. Next
  BY DEF vars, RunsUntried, ProofOf, Issued
<1>3. /\ Stored(row'[u], <<"provider", c>>) = "local" /\ valid # Null
      /\ Opens(path) = Normal(path)
  BY DEF RunsUntried, SpelledOut
<1>4. valid \in Proofs
  <2>1. row'[u] \in Row \cup {NoRow}
    BY <1>1 DEF TypeOK
  <2> QED
    BY <1>3, <2>1, StoredTypes, ColumnsOf, ValuesOf
<1>5. ~ProofOf(valid, u, c, Normal(path))
  <2>1. PICK v \in Proofs : v = valid
    BY <1>4
  <2>2. PICK place : place = Opens(path)
    OBVIOUS
  <2>3. ~ProofOf(v, u, c, place)'
    BY <2>1, <2>2 DEF RunsUntried, ProofOf, Issued
  <2>4. ~ProofOf(v, u, c, place)
    BY <1>1, <1>2, <2>3, IssuedStays
  <2> QED
    BY <1>3, <2>1, <2>2, <2>4
<1>6. ASSUME Stored(row[u], <<"provider", c>>) = "local",
             Stored(row[u], <<"proof", c>>) = valid,
             Stored(row[u], <<"path", c>>) = path
      PROVE  FALSE
  BY <1>3, <1>5, <1>6 DEF RunsUntried
<1>7. CASE row'[u] = row[u]
  BY <1>3, <1>6, <1>7
<1>8. CASE row'[u] # row[u]
  <2>1. PICK r \in Requests :
          /\ Commits(r, u) /\ req[r] \in Request
          /\ row'[u] = Written(req[r]) /\ Written(req[r]) \in Row
    BY <1>1, <1>2, <1>8, RowsChangeByCommits
  <2>2. req[r] # Idle /\ req[r].user = u /\ ~Overtaken(r, LocalColumns(c))
    BY <2>1 DEF Commits
  <2>3. \A col \in Columns : Stored(row'[u], col) = Written(req[r])[col]
    BY <2>1, NothingIsNoValue DEF Stored
  <2>4. Written(req[r])[<<"provider", c>>] = "local"
    BY <1>3, <2>3, ColumnsOf
  <2>5. CASE /\ NeedsValidation(req[r].saw, req[r].patch, c)
             /\ Written(req[r])[<<"proof", c>>] = req[r].patch[<<"proof", c>>]
             /\ Written(req[r])[<<"path", c>>] =
                  EffectivePath(req[r].saw, req[r].patch, c)
    <3>1. Backed(req[r].patch[<<"proof", c>>], u, c,
                 EffectivePath(req[r].saw, req[r].patch, c))
      BY <2>2, <2>5 DEF Inv, NeededProofsAreBacked
    <3>2. /\ valid = req[r].patch[<<"proof", c>>]
          /\ path = EffectivePath(req[r].saw, req[r].patch, c)
      BY <2>3, <2>5, ColumnsOf
    <3> QED
      BY <1>5, <3>1, <3>2 DEF Backed
  <2>6. CASE /\ Stored(req[r].saw, <<"provider", c>>) = "local"
             /\ Written(req[r])[<<"proof", c>>] = Stored(req[r].saw, <<"proof", c>>)
             /\ Written(req[r])[<<"path", c>>] = Stored(req[r].saw, <<"path", c>>)
    <3>1. \A col \in LocalColumns(c) : Stored(req[r].saw, col) = Stored(row[u], col)
      BY <2>2 DEF Overtaken
    <3>2. /\ Stored(row[u], <<"provider", c>>) = "local"
          /\ Stored(row[u], <<"proof", c>>) = valid
          /\ Stored(row[u], <<"path", c>>) = path
      BY <2>3, <2>6, <3>1, ColumnsOf DEF LocalColumns
    <3> QED
      BY <1>6, <3>2
  <2> QED
    BY <2>2, <2>4, <2>5, <2>6, FreshCommitOfLocal
<1> QED
  BY <1>7, <1>8

LEMMA ProbedStep == Inv /\ [Next]_vars =>
  \A u \in Admins, c \in Categories :
    /\ Pair(row'[u], c) # Pair(row[u], c)
    /\ Pair(row'[u], c) \in Probe
    => \/ Pair(row'[u], c) \in probed
       \/ \E r \in Requests :
            /\ Commits(r, u)
            /\ \/ Overtaken(r, {Key, <<"model", c>>})
               \/ req[r].patch[<<"model", c>>] = Null
<1> SUFFICES ASSUME Inv, [Next]_vars, NEW u \in Admins, NEW c \in Categories,
                    Pair(row'[u], c) # Pair(row[u], c),
                    Pair(row'[u], c) \in Probe,
                    \A r \in Requests : Commits(r, u) =>
                      /\ ~Overtaken(r, {Key, <<"model", c>>})
                      /\ req[r].patch[<<"model", c>>] # Null
             PROVE  Pair(row'[u], c) \in probed
  OBVIOUS
<1>1. TypeOK /\ Next /\ row'[u] # row[u]
  BY DEF Inv, vars
<1>2. PICK r \in Requests :
        /\ Commits(r, u) /\ req[r] \in Request /\ req[r].pending = {}
        /\ row'[u] = Written(req[r]) /\ Written(req[r]) \in Row
  BY <1>1, RowsChangeByCommits
<1> DEFINE q == req[r]
           model == q.patch[<<"model", c>>]
           newKey == Stored(row'[u], Key)
           newModel == Stored(row'[u], <<"model", c>>)
<1>3. q # Idle /\ q.user = u /\ model # Null
  BY <1>2 DEF Commits
<1> DEFINE pair == {Key, <<"model", c>>}
<1>4. \A col \in pair :
        /\ Stored(q.saw, col) = Stored(row[u], col)
        /\ Stored(row'[u], col) =
             IF Assigned(q, col) = Unset THEN Stored(q.saw, col) ELSE Assigned(q, col)
  <2>1. \A col \in pair :
          col \in Columns /\ Stored(q.saw, col) = Stored(row[q.user], col)
    BY <1>2, <1>3, ColumnsOf DEF Overtaken
  <2>2. \A col \in pair : Stored(row'[u], col) = Written(q)[col]
    BY <1>2, <2>1, NothingIsNoValue DEF Stored
  <2> QED
    BY <1>1, <1>2, <1>3, <2>1, <2>2, FreshColumn
<1>5. /\ Assigned(q, Key) = IF Given(q.patch[Key]) THEN q.patch[Key] ELSE Unset
      /\ Assigned(q, <<"model", c>>) = IF Given(model) THEN model ELSE Unset
  BY DEF Assigned, Key
<1>6. /\ newKey = IF Given(q.patch[Key]) THEN q.patch[Key] ELSE Stored(q.saw, Key)
      /\ newModel = IF model = Unset THEN Stored(q.saw, <<"model", c>>) ELSE model
      /\ Given(model) <=> model # Unset
  BY <1>3, <1>4, <1>5 DEF Given
<1>7. Pair(row'[u], c) = <<c, newKey, newModel>>
  BY DEF Pair
<1>8. newKey \in ApiKeys /\ newModel \in Models
  BY <1>7 DEF Probe
<1>9. \/ Given(q.patch[Key])
      \/ /\ q.saw # NoRow /\ Given(model)
         /\ model # q.saw[<<"model", c>>]
  <2>1. ASSUME ~ Given(q.patch[Key])
        PROVE  q.saw # NoRow /\ Given(model) /\ model # q.saw[<<"model", c>>]
    <3>1. newKey = Stored(q.saw, Key)
      BY <1>6, <2>1
    <3>2. newKey # Null
      BY <1>8, SettingsAssumption DEF Value
    <3>3. q.saw # NoRow
      BY <3>1, <3>2 DEF Stored
    <3>4. newModel # Stored(row[u], <<"model", c>>)
      BY <1>4, <1>7, <3>1 DEF Pair
    <3>5. Given(model) /\ model # Stored(q.saw, <<"model", c>>)
      BY <1>4, <1>6, <3>4
    <3> QED
      BY <3>3, <3>5 DEF Stored
  <2> QED
    BY <2>1
<1>10. <<c, newKey, newModel>> \in Pending(q.saw, q.patch)
  <2> DEFINE x == <<c, newKey, newModel>>
  <2>1. x \in Probe /\ x[1] = c /\ x[2] = newKey /\ x[3] = newModel
    BY <1>8 DEF Probe
  <2> HIDE DEF x, newKey, newModel
  <2> QED
    BY <1>6, <1>9, <2>1 DEF Pending, x
<1>11. Pending(q.saw, q.patch) \subseteq probed
  BY <1>2, <1>3 DEF Inv, NeededProbesAreMade
<1> QED
  BY <1>7, <1>10, <1>11

(* Jobs come to run a local model that no probe has loaded only when the   *)
(* runtime does not understand the spelling of its path, or when a request *)
(* overtakes another on the columns of that model; and a pair of key and   *)
(* cloud model that was not probed is stored only by requests that overlap *)
(* on the two (and by an explicit null, which clears nothing).             *)
THEOREM TriedBeforeChosen == Spec => OnlyTriedModelsAreChosen
<1>1. Spec => UntriedOnlyByRaceOrSpelling
  BY UntriedStep, InvHolds, PTL DEF Spec, UntriedOnlyByRaceOrSpelling
<1>2. Spec => NewPairIsProbed
  BY ProbedStep, InvHolds, PTL DEF Spec, NewPairIsProbed
<1> QED
  BY <1>1, <1>2 DEF OnlyTriedModelsAreChosen
=============================================================================
