-------------------------- MODULE ArtifactsProofs --------------------------
(***************************************************************************)
(* Proofs about Artifacts, for any number of jobs, requests, characters    *)
(* and versions, with or without a scheduler and under any set of faults;  *)
(* the last part is about a deployment without concurrency.                *)
(***************************************************************************)
EXTENDS Artifacts, JobQueueProofs

USE DEF RqStatus, States, Kinds, ArtifactJobKinds, JobKinds, Artifact, NoArtifact, Read,
        NothingRead

----------------------------------------------------------------------------
(* Type correctness.                                                       *)

\* Sources, generations and drops are well typed.
LEMMA SourceType ==
  ASSUME TypeOK
  PROVE  Source \in Nat
BY DEF TypeOK, Source

LEMMA GeneratedType ==
  ASSUME TypeOK, NEW w \in Workers
  PROVE  Generated(w) \in [Kinds -> Artifact]
BY DEF TypeOK, Generated

LEMMA DroppedType ==
  ASSUME TypeOK, NEW ks
  PROVE  Dropped(ks) \in [Kinds -> Artifact]
BY DEF TypeOK, Dropped

LEMMA LoadSourceType ==
  ASSUME TypeOK, NEW w \in Workers, LoadSource(w)
  PROVE  wread' \in [Workers -> Read]
<1>1. wread \in [Workers -> Read] /\ wread[w] \in Read
  BY DEF TypeOK
<1>2. [wread[w] EXCEPT !.from = Source] \in Read
  BY <1>1, SourceType
<1>3. CASE wread' = [wread EXCEPT ![w] = [wread[w] EXCEPT !.from = Source]]
  BY <1>1, <1>2, <1>3
<1>4. CASE UNCHANGED wread
  BY <1>1, <1>4
<1> QED BY <1>3, <1>4 DEF LoadSource

\* A step of a request keeps the session's rows and the requests well typed.
LEMMA RequestType ==
  ASSUME TypeOK, NEW r \in Requests, Request(r)
  PROVE  TypeOK'
<1> USE DEF RequestBegins, RequestEnds, queueVars, sessionVars, sourceVars,
            jobVars, requestVars, horseVars
<1>1. CASE PostCheck(r)
  <2>1. PICK kind \in ArtifactJobKinds, force \in Forces :
          RequestBegins(r, "post_enqueue", kind, force)
    BY <1>1 DEF PostCheck
  <2> QED BY <1>1, <2>1, QueueUnchanged, ArtifactsAssumption DEF TypeOK, PostCheck
<1>2. CASE PostEnqueue(r)
  <2>1. PICK j \in JobIds :
          NewJob(j, rkind[r], rforce[r]) /\ rjob' = [rjob EXCEPT ![r] = j]
    BY <1>2 DEF PostEnqueue
  <2>2. QueueTypeOK'
    BY <2>1, QueueStepType DEF TypeOK, QueueStep, NewJob
  <2> QED BY <1>2, <2>1, <2>2 DEF TypeOK, PostEnqueue, NewJob
<1>3. CASE PostCommit(r)
  BY <1>3, QueueUnchanged DEF TypeOK, PostCommit
<1>4. CASE EditCheck(r)
  BY <1>4, QueueUnchanged DEF TypeOK, EditCheck
<1>5. CASE EditCommit(r)
  <2>1. \A x \in Artifact : [x EXCEPT !.edited = TRUE] \in Artifact
    OBVIOUS
  <2>2. artifact' \in [Kinds -> Artifact]
    BY <1>5, <2>1 DEF TypeOK, EditCommit, EditedArtifact
  <2> QED BY <1>5, <2>2, QueueUnchanged DEF TypeOK, EditCommit
<1>6. CASE TranscriptEditCheck(r)
  BY <1>6, QueueUnchanged DEF TypeOK, TranscriptEditCheck
<1>7. CASE TranscriptEditCommit(r)
  BY <1>7, QueueUnchanged DEF TypeOK, TranscriptEditCommit
<1>8. CASE MappingCheck(r)
  BY <1>8, QueueUnchanged DEF TypeOK, MappingCheck
<1>9. CASE MappingCommit(r)
  BY <1>9, QueueUnchanged, DroppedType DEF TypeOK, MappingCommit, Mapped
<1>10. CASE PurgeCheck(r)
  BY <1>10, QueueUnchanged DEF TypeOK, PurgeCheck
<1>11. CASE PurgeCommit(r)
  <2>1. CASE exists
    BY <1>11, <2>1, QueueUnchanged, DroppedType DEF TypeOK, PurgeCommit, OutputsDropped
  <2>2. CASE ~exists
    BY <1>11, <2>2, QueueUnchanged DEF TypeOK, PurgeCommit
  <2> QED BY <2>1, <2>2
<1>12. CASE RestartCheck(r)
  BY <1>12, QueueUnchanged DEF TypeOK, RestartCheck
<1>13. CASE RestartCommit(r)
  <2>1. PICK j \in JobIds :
          /\ NewJob(j, "transcription", FALSE)
          /\ \/ /\ exists
                /\ OutputsDropped
                /\ who' = IF mode = "diarised" THEN {} ELSE who
                /\ state' = "audio_uploaded"
                /\ currentJob' = j
             \/ /\ ~exists
                /\ UNCHANGED <<state, currentJob, sourceVars, artifact>>
    BY <1>13 DEF RestartCommit
  <2>2. QueueTypeOK'
    BY <2>1, QueueStepType DEF TypeOK, QueueStep, NewJob
  <2> QED BY <1>13, <2>1, <2>2, DroppedType
          DEF TypeOK, RestartCommit, NewJob, OutputsDropped
<1>14. CASE DeleteAbort(r)
  <2>1. QueueTypeOK'
    BY <1>14, QueueStepType DEF TypeOK, QueueStep, DeleteAbort
  <2> QED BY <1>14, <2>1 DEF TypeOK, DeleteAbort
<1>15. CASE DeleteCommit(r)
  BY <1>15, QueueUnchanged, DroppedType DEF TypeOK, DeleteCommit, OutputsDropped
<1>16. CASE ApiCrash(r)
  BY <1>16, QueueUnchanged DEF TypeOK, ApiCrash
<1> QED
  BY <1>1, <1>2, <1>3, <1>4, <1>5, <1>6, <1>7, <1>8, <1>9, <1>10, <1>11, <1>12, <1>13, <1>14, <1>15, <1>16
  DEF Request, RequestContinues

\* So do the steps of the horses and of Redis.
LEMMA HorseType ==
  ASSUME TypeOK, NEW w \in Workers, Horse(w)
  PROVE  TypeOK'
<1> USE DEF HorseGoes, HorseEnds, queueVars, sessionVars, sourceVars, jobVars,
            requestVars, horseVars
<1>1. CASE HorseStart(w)
  <2>1. QueueTypeOK'
    BY <1>1, QueueStepType DEF TypeOK, QueueStep, HorseStart
  <2> QED BY <1>1, <2>1 DEF TypeOK, HorseStart
<1>2. CASE LoadText(w)
  <2>1. wread' \in [Workers -> Read] BY <1>2, LoadSourceType DEF LoadText
  <2> QED BY <1>2, <2>1, QueueUnchanged DEF TypeOK, LoadText, LoadSource
<1>3. CASE LoadCharacters(w)
  <2>1. wread \in [Workers -> Read] /\ wread[w] \in Read
    BY DEF TypeOK
  <2>2. [wread[w] EXCEPT !.who = who] \in Read
    BY <2>1 DEF TypeOK
  <2>3. wread' \in [Workers -> Read]
    BY <1>3, <2>1, <2>2 DEF LoadCharacters
  <2> QED BY <1>3, <2>3, QueueUnchanged DEF TypeOK, LoadCharacters
<1>4. CASE LoadCharactersSource(w)
  <2>1. wread' \in [Workers -> Read] BY <1>4, LoadSourceType DEF LoadCharactersSource
  <2> QED BY <1>4, <2>1, QueueUnchanged DEF TypeOK, LoadCharactersSource, LoadSource
<1>5. CASE LoadSummary(w)
  <2> DEFINE from == IF edit # 0 THEN edit ELSE base
             chunks == IF edit # 0 THEN 0 ELSE base
  <2>1. wread \in [Workers -> Read] /\ wread[w] \in Read
    BY DEF TypeOK
  <2>2. [wread[w] EXCEPT !.from = from, !.chunks = chunks] \in Read
    BY <2>1 DEF TypeOK
  <2>3. wread' \in [Workers -> Read]
    BY <1>5, <2>1, <2>2 DEF LoadSummary
  <2> QED BY <1>5, <2>3, QueueUnchanged DEF TypeOK, LoadSummary, LoadSums
<1>6. CASE HorseCall(w)
  BY <1>6, QueueUnchanged DEF TypeOK, HorseCall
<1>7. CASE HorsePersist(w)
  BY <1>7, QueueUnchanged, GeneratedType DEF TypeOK, HorsePersist
<1>8. CASE TranscriptionClaim(w)
  BY <1>8, QueueUnchanged DEF TypeOK, TranscriptionClaim
<1>9. CASE TranscriptionEnds(w)
  BY <1>9, QueueUnchanged DEF TypeOK, TranscriptionEnds
<1>10. CASE HorseRaise(w)
  <2>1. QueueTypeOK'
    BY <1>10, QueueStepType DEF TypeOK, QueueStep, HorseRaise
  <2> QED BY <1>10, <2>1 DEF TypeOK, HorseRaise
<1>11. CASE HorseFinish(w)
  <2>1. QueueTypeOK'
    BY <1>11, QueueStepType DEF TypeOK, QueueStep, HorseFinish
  <2> QED BY <1>11, <2>1 DEF TypeOK, HorseFinish
<1>12. CASE HorseKilled(w)
  <2>1. QueueTypeOK'
    BY <1>12, QueueStepType DEF TypeOK, QueueStep, HorseKilled
  <2> QED BY <1>12, <2>1 DEF TypeOK, HorseKilled
<1> QED
  BY <1>1, <1>2, <1>3, <1>4, <1>5, <1>6, <1>7, <1>8, <1>9, <1>10, <1>11, <1>12
  DEF Horse

LEMMA RedisType ==
  ASSUME TypeOK, NEW j \in JobIds, Redis(j)
  PROVE  TypeOK'
<1>1. QueueTypeOK' BY QueueStepType DEF TypeOK, QueueStep, Redis
<1> QED BY <1>1 DEF TypeOK, Redis, sessionVars, sourceVars, jobVars, requestVars,
                    horseVars

\* Every variable keeps its type: in particular an artifact row, once stored,
\* always names a version of a source.
THEOREM TypeCorrect == Spec => []TypeOK
<1>1. ASSUME Init PROVE TypeOK
  <2>1. QueueTypeOK
    BY <1>1, QueueAssumption DEF Init, QueueInit, QueueTypeOK
  <2> QED BY <1>1, <2>1 DEF Init, TypeOK
<1>2. TypeOK /\ [Next]_vars => TypeOK'
  <2>1. ASSUME TypeOK, UNCHANGED vars PROVE TypeOK'
    BY <2>1 DEF TypeOK, QueueTypeOK, vars, queueVars, sessionVars, sourceVars,
                jobVars, requestVars, horseVars
  <2> QED BY <2>1, RequestType, HorseType, RedisType DEF Next
<1> QED BY <1>1, <1>2, PTL DEF Spec

----------------------------------------------------------------------------
(* Horses and their jobs.                                                  *)

\* A job's kind is fixed when it is enqueued, before any horse runs it.
LEMMA KindStays ==
  ASSUME TypeOK, HorsesKnowTheirJob, NEW w \in Workers, wstep[w] # "idle",
         UNCHANGED running,
         \/ UNCHANGED jkind
         \/ \E j \in JobIds : \E kind, force : NewJob(j, kind, force)
  PROVE  Kind(w)' = Kind(w)
BY DEF TypeOK, HorsesKnowTheirJob, Kind, NewJob, Enqueue

\* A request leaves the horses alone.
LEMMA RequestLeavesHorses ==
  ASSUME TypeOK, HorsesKnowTheirJob, NEW r \in Requests, Request(r)
  PROVE  /\ UNCHANGED <<wstep, wread>>
         /\ \A w \in Workers : wstep[w] # "idle" => Kind(w)' = Kind(w)
         /\ HorsesKnowTheirJob'
<1> USE DEF queueVars, jobVars, horseVars
<1>1. CASE \E j \in JobIds : /\ \E kind, force : NewJob(j, kind, force)
                             /\ UNCHANGED horseVars
  <2>1. PICK j \in JobIds : \E kind, force : NewJob(j, kind, force)
    BY <1>1
  <2>2. /\ UNCHANGED <<running, wstep, wread>>
        /\ rq' = [rq EXCEPT ![j] = "queued"]
    BY <1>1, <2>1 DEF NewJob, Enqueue
  <2>3. \A w \in Workers : wstep[w] # "idle" => Kind(w)' = Kind(w)
    BY <2>1, <2>2, KindStays
  <2> QED BY <2>2, <2>3 DEF HorsesKnowTheirJob, TypeOK, QueueTypeOK
<1>2. CASE DeleteAbort(r)
  <2>1. UNCHANGED <<running, jkind, wstep, wread>>
    BY <1>2 DEF DeleteAbort, Abort
  <2>2. \A j \in JobIds : rq[j] # "none" => rq'[j] # "none"
    BY <1>2 DEF DeleteAbort, Abort, TypeOK, QueueTypeOK
  <2> QED BY <2>1, <2>2 DEF HorsesKnowTheirJob, Kind
<1>3. CASE UNCHANGED <<queueVars, jobVars, horseVars>>
  BY <1>3 DEF HorsesKnowTheirJob, Kind
<1> QED
  BY <1>1, <1>2, <1>3
  DEF Request, RequestContinues, PostCheck, PostEnqueue, PostCommit, EditCheck,
      EditCommit, TranscriptEditCheck, TranscriptEditCommit, MappingCheck,
      MappingCommit, PurgeCheck, PurgeCommit, RestartCheck, RestartCommit,
      DeleteCommit, ApiCrash

LEMMA HorseKnowsJob ==
  ASSUME TypeOK, HorsesKnowTheirJob, NEW w \in Workers, Horse(w)
  PROVE  HorsesKnowTheirJob'
<1> USE DEF HorsesKnowTheirJob, Kind, TypeOK, QueueTypeOK, HorseGoes, HorseEnds,
            queueVars, jobVars
<1>1. CASE HorseStart(w)
  BY <1>1, QueueAssumption DEF HorseStart, Dequeue
<1>2. CASE LoadText(w) \/ LoadCharacters(w) \/ LoadCharactersSource(w)
  BY <1>2 DEF LoadText, LoadCharacters, LoadCharactersSource, LoadSource
<1>3. CASE LoadSummary(w)
  BY <1>3 DEF LoadSummary
<1>4. CASE HorseCall(w) \/ HorsePersist(w)
  BY <1>4 DEF HorseCall, HorsePersist
<1>5. CASE TranscriptionClaim(w) \/ TranscriptionEnds(w)
  BY <1>5 DEF TranscriptionClaim, TranscriptionEnds
<1>6. CASE HorseRaise(w)
  BY <1>6 DEF HorseRaise, JobRaises, Failure
<1>7. CASE HorseFinish(w)
  BY <1>7 DEF HorseFinish, Complete
<1>8. CASE HorseKilled(w)
  BY <1>8 DEF HorseKilled, JobRaises, Failure, WorkerDies, StopDelivered
<1> QED BY <1>1, <1>2, <1>3, <1>4, <1>5, <1>6, <1>7, <1>8 DEF Horse

LEMMA RedisKnowsJob ==
  ASSUME TypeOK, HorsesKnowTheirJob, NEW j \in JobIds, Redis(j)
  PROVE  HorsesKnowTheirJob'
BY DEF HorsesKnowTheirJob, Kind, TypeOK, QueueTypeOK, Redis, Reap, Failure,
       Requeue, JobLost, jobVars, horseVars

----------------------------------------------------------------------------
(* Versions.                                                               *)

VersionsInv == VersionsKnown /\ CurrentIsNewest /\ ReadsAreNewest

\* What a step leaves alone when it stores nothing: artifacts are dropped or
\* keep their source, and a source held afterwards was held before, or is current.
DropsAtMost ==
  /\ UNCHANGED exists
  /\ \A k \in Kinds : artifact'[k].from \in {0, artifact[k].from}
  /\ ~exists => UNCHANGED artifact

ReadStays(w) == Holding(w) /\ wread'[w] = wread[w] /\ Kind(w)' = Kind(w)

ReadIsCurrent(w) ==
  /\ wread'[w].from \in 1 .. clock
  /\ \A k \in Written(w)' : k \in Kinds /\ CurrentFor(k) = wread'[w].from

ReadsStay == \A w \in Workers : Holding(w)' => ReadStays(w)
ReadsStayOrAreCurrent ==
  \A w \in Workers : Holding(w)' => ReadStays(w) \/ ReadIsCurrent(w)

LEMMA WrittenStays ==
  ASSUME NEW w \in Workers, wread'[w] = wread[w], Kind(w)' = Kind(w)
  PROVE  Written(w)' = Written(w)
BY DEF Written

LEMMA WrittenKinds ==
  ASSUME TypeOK, HorsesKnowTheirJob, NEW w \in Workers, Holding(w)
  PROVE  Written(w) \subseteq Kinds
BY DEF TypeOK, HorsesKnowTheirJob, Holding, Written

LEMMA CurrentForType ==
  ASSUME TypeOK, NEW k
  PROVE  CurrentFor(k) \in Nat
BY DEF TypeOK, CurrentFor

LEMMA ArtifactFrom ==
  ASSUME TypeOK, NEW k \in Kinds
  PROVE  artifact[k].from \in Nat
BY DEF TypeOK

\* A step that changes no source and stores nothing.
LEMMA QuietStep ==
  ASSUME TypeOK, TypeOK', HorsesKnowTheirJob, VersionsInv, DropsAtMost,
         ReadsStayOrAreCurrent, UNCHANGED <<mode, clock, base, sums, edit>>
  PROVE  VersionsInv'
<1>1. VersionsKnown'
  BY DEF TypeOK, VersionsInv, VersionsKnown, DropsAtMost
<1>2. \A w \in Workers : Holding(w) => Written(w) \subseteq Kinds
  BY WrittenKinds
<1>3. \A w \in Workers : ReadStays(w) => Written(w)' = Written(w)
  BY WrittenStays DEF ReadStays
<1>4. \A k : CurrentFor(k)' = CurrentFor(k)
  BY DEF CurrentFor
<1>5. \A k \in Kinds : CurrentFor(k) # 0 => artifact[k].from <= CurrentFor(k)
  BY DEF VersionsInv, CurrentIsNewest
<1>6. CurrentIsNewest'
  <2> SUFFICES ASSUME NEW k \in Kinds, CurrentFor(k)' # 0
               PROVE  /\ artifact'[k].from <= CurrentFor(k)'
                      /\ \A w \in Workers : Holding(w)' /\ k \in Written(w)'
                           => wread'[w].from <= CurrentFor(k)'
    BY DEF CurrentIsNewest
  <2>1. CurrentFor(k)' = CurrentFor(k) /\ CurrentFor(k) \in Nat
    BY <1>4, CurrentForType
  <2>2. artifact'[k].from \in {0, artifact[k].from}
    BY DEF DropsAtMost
  <2>3. artifact'[k].from <= CurrentFor(k)'
    BY <1>5, <2>1, <2>2, ArtifactFrom
  <2>4. ASSUME NEW w \in Workers, Holding(w)', k \in Written(w)'
        PROVE  wread'[w].from <= CurrentFor(k)'
    <3>1. CASE ReadStays(w)
      BY <1>3, <2>1, <2>4, <3>1 DEF ReadStays, VersionsInv, CurrentIsNewest
    <3>2. CASE ReadIsCurrent(w)
      BY <2>1, <2>4, <3>2 DEF ReadIsCurrent
    <3> QED BY <2>4, <3>1, <3>2 DEF ReadsStayOrAreCurrent
  <2> QED BY <2>3, <2>4
<1>7. ReadsAreNewest'
  <2> SUFFICES ASSUME NEW w \in Workers, Holding(w)'
               PROVE  /\ wread'[w].from \in 1 .. clock'
                      /\ \A k \in Written(w)' : artifact'[k].from <= wread'[w].from
    BY DEF ReadsAreNewest
  <2>1. CASE ReadStays(w)
    <3>1. /\ wread[w].from \in 1 .. clock
          /\ \A k \in Written(w) : artifact[k].from <= wread[w].from
      BY <2>1 DEF ReadStays, VersionsInv, ReadsAreNewest
    <3>2. wread'[w] = wread[w] /\ Written(w)' = Written(w) /\ Written(w) \subseteq Kinds
      BY <1>2, <1>3, <2>1 DEF ReadStays
    <3>3. ASSUME NEW k \in Written(w)'
          PROVE  artifact'[k].from <= wread'[w].from
      <4>1. k \in Kinds /\ artifact[k].from <= wread[w].from BY <3>1, <3>2
      <4>2. artifact'[k].from \in {0, artifact[k].from} BY <4>1 DEF DropsAtMost
      <4>3. wread[w].from \in Nat BY DEF TypeOK
      <4> QED BY <3>2, <4>1, <4>2, <4>3, ArtifactFrom
    <3> QED BY <3>1, <3>2, <3>3
  <2>2. CASE ReadIsCurrent(w)
    <3>1. wread'[w].from \in 1 .. clock BY <2>2 DEF ReadIsCurrent
    <3>2. ASSUME NEW k \in Written(w)'
          PROVE  artifact'[k].from <= wread'[w].from
      <4>1. k \in Kinds /\ CurrentFor(k) = wread'[w].from
        BY <2>2 DEF ReadIsCurrent
      <4>2. artifact[k].from <= wread'[w].from
        BY <1>5, <3>1, <4>1
      <4>3. artifact'[k].from \in {0, artifact[k].from} BY <4>1 DEF DropsAtMost
      <4> QED BY <3>1, <4>1, <4>2, <4>3, ArtifactFrom
    <3> QED BY <3>1, <3>2
  <2> QED BY <2>1, <2>2 DEF ReadsStayOrAreCurrent
<1> QED BY <1>1, <1>6, <1>7 DEF VersionsInv

\* A source takes the next version: what is current afterwards was so before, or
\* is newer than everything.
LEMMA NewVersion ==
  ASSUME TypeOK, TypeOK', HorsesKnowTheirJob, VersionsInv, ReadsStay,
         clock' = clock + 1, UNCHANGED <<exists, artifact>>,
         base' <= clock' /\ sums' <= clock' /\ edit' <= clock',
         \A k \in Kinds : CurrentFor(k)' \in {clock + 1, CurrentFor(k)}
  PROVE  VersionsInv'
<1> clock \in Nat BY DEF TypeOK
<1>1. VersionsKnown'
  <2>1. ASSUME NEW k \in Kinds PROVE artifact[k].from <= clock + 1
    <3>1. artifact[k].from <= clock BY DEF VersionsInv, VersionsKnown
    <3> QED BY <3>1, ArtifactFrom
  <2> QED BY <2>1 DEF VersionsInv, VersionsKnown
<1>2. \A w \in Workers : Holding(w)' =>
        /\ Holding(w) /\ wread'[w] = wread[w] /\ Written(w)' = Written(w)
        /\ Written(w) \subseteq Kinds
        /\ wread[w].from \in 1 .. clock
  BY WrittenStays, WrittenKinds DEF ReadsStay, ReadStays, VersionsInv, ReadsAreNewest
<1>3. CurrentIsNewest'
  <2> SUFFICES ASSUME NEW k \in Kinds, CurrentFor(k)' # 0
               PROVE  /\ artifact[k].from <= CurrentFor(k)'
                      /\ \A w \in Workers : Holding(w)' /\ k \in Written(w)'
                           => wread'[w].from <= CurrentFor(k)'
    BY DEF CurrentIsNewest
  <2>1. CASE CurrentFor(k)' = clock + 1
    <3>1. artifact[k].from <= clock BY DEF VersionsInv, VersionsKnown
    <3> QED BY <1>2, <2>1, <3>1, ArtifactFrom
  <2>2. CASE CurrentFor(k)' = CurrentFor(k)
    BY <1>2, <2>2 DEF VersionsInv, CurrentIsNewest
  <2> QED BY <2>1, <2>2
<1>4. ReadsAreNewest'
  <2> SUFFICES ASSUME NEW w \in Workers, Holding(w)'
               PROVE  /\ wread'[w].from \in 1 .. clock'
                      /\ \A k \in Written(w)' : artifact[k].from <= wread'[w].from
    BY DEF ReadsAreNewest
  <2>1. wread'[w].from \in 1 .. clock'
    BY <1>2
  <2> QED BY <1>2, <2>1 DEF VersionsInv, ReadsAreNewest
<1> QED BY <1>1, <1>3, <1>4 DEF VersionsInv

\* Every source and every artifact goes; horses still hold what they read.
LEMMA OutputsGone ==
  ASSUME TypeOK, TypeOK', HorsesKnowTheirJob, VersionsInv, ReadsStay, OutputsDropped
  PROVE  VersionsInv'
<1>1. artifact' = [k \in Kinds |-> NoArtifact]
  BY DEF OutputsDropped, Dropped
<1>2. VersionsKnown'
  <2>1. clock' \in Nat /\ base' = 0 /\ sums' = 0 /\ edit' = 0
    BY DEF TypeOK, OutputsDropped
  <2>2. \A k \in Kinds : artifact'[k].from = 0
    BY <1>1
  <2> QED BY <1>1, <2>1, <2>2 DEF VersionsKnown
<1>3. CurrentIsNewest'
  <2>1. \A k : CurrentFor(k)' = 0 BY DEF CurrentFor, OutputsDropped
  <2> QED BY <2>1 DEF CurrentIsNewest
<1>4. ReadsAreNewest'
  <2> SUFFICES ASSUME NEW w \in Workers, Holding(w)'
               PROVE  /\ wread'[w].from \in 1 .. clock'
                      /\ \A k \in Written(w)' : artifact'[k].from <= wread'[w].from
    BY DEF ReadsAreNewest
  <2>1. wread'[w] = wread[w] /\ Written(w)' = Written(w) /\ Holding(w)
    BY WrittenStays DEF ReadsStay, ReadStays
  <2>2. wread'[w].from \in 1 .. clock'
    BY <2>1 DEF VersionsInv, ReadsAreNewest, OutputsDropped
  <2>3. \A k \in Written(w)' : artifact'[k].from = 0
    BY <1>1, <2>1, WrittenKinds
  <2>4. clock \in Nat BY DEF TypeOK
  <2> QED BY <2>2, <2>3, <2>4 DEF OutputsDropped
<1> QED BY <1>2, <1>3, <1>4 DEF VersionsInv

\* A request gives a source a new version, drops outputs, or leaves both alone.
LEMMA RequestVersions ==
  ASSUME TypeOK, TypeOK', SourcesInv, NEW r \in Requests, Request(r)
  PROVE  VersionsInv'
<1> USE DEF sessionVars, sourceVars
<1>1. HorsesKnowTheirJob /\ VersionsInv
  BY DEF SourcesInv, VersionsInv
<1>2. ReadsStay
  <2> SUFFICES ASSUME NEW w \in Workers, Holding(w)' PROVE ReadStays(w)
    BY DEF ReadsStay
  <2> QED BY <1>1, RequestLeavesHorses DEF ReadStays, Holding
<1>3. ReadsStayOrAreCurrent
  BY <1>2 DEF ReadsStay, ReadsStayOrAreCurrent
<1>4. CASE UNCHANGED sessionVars
  <2>1. DropsAtMost BY <1>4 DEF DropsAtMost
  <2> QED BY <1>1, <1>3, <1>4, <2>1, QuietStep
<1>5. CASE EditCommit(r)
  <2>1. DropsAtMost
    <3>1. artifact \in [Kinds -> Artifact] BY DEF TypeOK
    <3>2. \A x \in Artifact : [x EXCEPT !.edited = TRUE].from = x.from
      OBVIOUS
    <3>3. \A k \in Kinds : artifact'[k].from = artifact[k].from
      BY <1>5, <3>1, <3>2 DEF EditCommit, EditedArtifact
    <3>4. ~exists => UNCHANGED artifact
      <4>1. CASE rkind[r] \in Kinds
        <5> SUFFICES ASSUME ~exists PROVE UNCHANGED artifact
          OBVIOUS
        <5>1. artifact = [k \in Kinds |-> NoArtifact]
          BY <1>1 DEF VersionsInv, VersionsKnown
        <5>2. ~Has(rkind[r])
          BY <4>1, <5>1 DEF Has
        <5> QED BY <1>5, <5>2 DEF EditCommit, EditedArtifact
      <4>2. CASE rkind[r] \notin Kinds
        <5>1. [artifact EXCEPT ![rkind[r]] = [artifact[rkind[r]] EXCEPT !.edited = TRUE]]
                = artifact
          BY <3>1, <4>2
        <5> QED BY <1>5, <5>1 DEF EditCommit, EditedArtifact
      <4> QED BY <4>1, <4>2
    <3> QED BY <1>5, <3>3, <3>4 DEF DropsAtMost, EditCommit
  <2> QED BY <1>1, <1>3, <1>5, <2>1, QuietStep DEF EditCommit
<1>6. CASE TranscriptEditCommit(r) /\ exists
  <2>1. base' <= clock' /\ sums' <= clock' /\ edit' <= clock'
    BY <1>1, <1>6 DEF TypeOK, TranscriptEditCommit, VersionsInv, VersionsKnown
  <2>2. \A k \in Kinds : CurrentFor(k)' = clock + 1
    BY <1>6 DEF TypeOK, TranscriptEditCommit, CurrentFor
  <2> QED BY <1>1, <1>2, <1>6, <2>1, <2>2, NewVersion DEF TranscriptEditCommit
<1>7. CASE MappingCommit(r)
  <2>1. DropsAtMost
    BY <1>7 DEF DropsAtMost, MappingCommit, Mapped, Dropped, TypeOK
  <2> QED BY <1>1, <1>3, <1>7, <2>1, QuietStep DEF MappingCommit
<1>8. CASE OutputsDropped
  BY <1>1, <1>2, <1>8, OutputsGone
<1>9. CASE PostCommit(r)
  <2>1. DropsAtMost BY <1>9 DEF PostCommit, DropsAtMost
  <2> QED BY <1>1, <1>3, <1>9, <2>1, QuietStep DEF PostCommit
<1>10. CASE UNCHANGED <<exists, mode, clock, base, sums, edit, artifact>>
  <2>1. DropsAtMost BY <1>10 DEF DropsAtMost
  <2> QED BY <1>1, <1>3, <1>10, <2>1, QuietStep
<1>11. CASE TranscriptEditCommit(r) /\ ~exists
  BY <1>10, <1>11 DEF TranscriptEditCommit
<1>12. CASE PurgeCommit(r)
  BY <1>8, <1>10, <1>12 DEF PurgeCommit
<1>13. CASE RestartCommit(r)
  BY <1>8, <1>10, <1>13 DEF RestartCommit
<1>14. CASE DeleteCommit(r)
  BY <1>8, <1>14 DEF DeleteCommit
<1> QED
  BY <1>4, <1>5, <1>6, <1>7, <1>9, <1>11, <1>12, <1>13, <1>14
  DEF Request, RequestContinues, PostCheck, PostEnqueue, EditCheck,
      TranscriptEditCheck, MappingCheck, PurgeCheck, RestartCheck, DeleteAbort,
      ApiCrash

\* The source of a derived artifact is the current one of each of them.
LEMMA SourceIsCurrent ==
  ASSUME NEW k \in Texts \cup Pjs
  PROVE  CurrentFor(k) = Source
BY ArtifactsAssumption DEF CurrentFor, Source

\* What a horse loads is current and leaves the rest as it was.
LEMMA LoadVersions ==
  ASSUME TypeOK, TypeOK', SourcesInv, OneWorker,
         NEW w \in Workers,
         LoadText(w) \/ LoadCharacters(w) \/ LoadCharactersSource(w) \/ LoadSummary(w)
  PROVE  VersionsInv'
<1> USE DEF sessionVars, sourceVars
<1>1. HorsesKnowTheirJob /\ VersionsInv
  BY DEF SourcesInv, VersionsInv
<1>2. DropsAtMost /\ UNCHANGED <<mode, clock, base, sums, edit>>
  BY DEF DropsAtMost, LoadText, LoadCharacters, LoadCharactersSource, LoadSummary,
         LoadSums
<1>3. Kind(w)' = Kind(w)
  BY DEF Kind, LoadText, LoadCharacters, LoadCharactersSource, LoadSummary,
         queueVars, jobVars
<1>4. ASSUME Holding(w)' PROVE ReadIsCurrent(w)
  <2>1. wstep \in [Workers -> {"idle", "load", "source", "call", "persist",
                               "transcribe", "raise", "finish"}]
        /\ wread \in [Workers -> Read] /\ clock \in Nat /\ base \in Nat /\ edit \in Nat
    BY DEF TypeOK
  <2>2. CASE LoadText(w) \/ LoadCharactersSource(w)
    <3>1. LoadSource(w) /\ Kind(w) \in Texts \cup {"povs"}
      BY <1>1, <2>2 DEF LoadText, LoadCharactersSource, HorsesKnowTheirJob
    <3>2. wread'[w].from = Source /\ wread'[w].who = wread[w].who /\ Source # 0
      BY <1>4, <2>1, <3>1 DEF LoadSource, HorseGoes, Holding
    <3>3. Source \in 1 .. clock
      BY <1>1, <2>1, <3>2, SourceType DEF VersionsInv, VersionsKnown, Source
    <3>4. Written(w)' \subseteq Texts \cup Pjs
      BY <1>3, <2>1, <3>1, <3>2 DEF Written
    <3> QED BY <3>2, <3>3, <3>4, SourceIsCurrent DEF ReadIsCurrent
  <2>3. CASE LoadCharacters(w)
    BY <1>4, <2>1, <2>3 DEF LoadCharacters, HorseGoes, Holding
  <2>4. CASE LoadSummary(w)
    <3>1. Kind(w) = "summary" /\ Prerequisites("summary")
      BY <1>4, <2>1, <2>4 DEF LoadSummary, HorseGoes, Holding
    <3>2. wread'[w].from = IF edit # 0 THEN edit ELSE base
      BY <2>1, <2>4, <3>1 DEF LoadSummary
    <3>3. wread'[w].from = CurrentFor("summary") /\ wread'[w].from # 0
      BY <3>1, <3>2 DEF CurrentFor, Prerequisites
    <3>4. wread'[w].from \in 1 .. clock
      BY <1>1, <2>1, <3>2, <3>3 DEF VersionsInv, VersionsKnown
    <3>5. Written(w)' = {"summary"}
      BY <1>3, <3>1 DEF Written
    <3> QED BY <3>3, <3>4, <3>5 DEF ReadIsCurrent
  <2> QED BY <2>2, <2>3, <2>4
<1>5. ReadsStayOrAreCurrent
  BY <1>4 DEF ReadsStayOrAreCurrent, OneWorker
<1> QED BY <1>1, <1>2, <1>5, QuietStep

\* The only worker stores what it holds: nothing newer was stored meanwhile.
LEMMA PersistVersions ==
  ASSUME TypeOK, TypeOK', SourcesInv, OneWorker, NEW w \in Workers,
         HorsePersist(w), Stores(w)
  PROVE  VersionsInv'
<1> USE DEF Stores
<1>1. HorsesKnowTheirJob /\ VersionsInv /\ Holding(w)
  BY DEF SourcesInv, VersionsInv, HorsePersist, Holding
<1>2. ~ \E v \in Workers : Holding(v)'
  BY DEF HorsePersist, HorseGoes, Holding, OneWorker, TypeOK
<1>3. /\ artifact' = Generated(w)
      /\ UNCHANGED <<exists, mode, base, edit>> /\ exists
  BY DEF HorsePersist
<1>4. /\ wread[w].from \in 1 .. clock /\ clock \in Nat
      /\ base <= clock /\ sums <= clock /\ edit <= clock
      /\ base \in Nat /\ sums \in Nat /\ edit \in Nat
  BY <1>1 DEF TypeOK, VersionsInv, VersionsKnown, ReadsAreNewest
<1>5. \/ clock' = clock + 1 /\ sums' = clock + 1 /\ Kind(w) = "summary"
      \/ clock' = clock /\ sums' = 0 /\ Kind(w) = "summary"
      \/ clock' = clock /\ sums' = sums /\ Kind(w) # "summary"
  BY DEF HorsePersist
<1>6. \A k \in Kinds : artifact[k].from \in Nat /\ artifact[k].from <= clock
  BY <1>1, ArtifactFrom DEF VersionsInv, VersionsKnown
<1>7. \A k \in Kinds : artifact'[k].from =
         IF k \in Written(w) THEN wread[w].from
         ELSE IF Kind(w) = "summary" THEN 0 ELSE artifact[k].from
  BY <1>3 DEF Generated
<1>8. VersionsKnown'
  <2>1. base' <= clock' /\ sums' <= clock' /\ edit' <= clock' /\ clock <= clock'
        /\ clock' \in Nat
    BY <1>3, <1>4, <1>5
  <2>2. ASSUME NEW k \in Kinds PROVE artifact'[k].from <= clock'
    <3>1. artifact'[k].from \in {wread[w].from, 0, artifact[k].from}
      BY <1>7
    <3> QED BY <1>4, <1>6, <2>1, <3>1
  <2> QED BY <1>3, <2>1, <2>2 DEF VersionsKnown
<1>9. CurrentIsNewest'
  <2> SUFFICES ASSUME NEW k \in Kinds, CurrentFor(k)' # 0
               PROVE  artifact'[k].from <= CurrentFor(k)'
    BY <1>2 DEF CurrentIsNewest
  <2>1. CASE Kind(w) = "summary" /\ k # "summary"
    <3>1. artifact'[k].from = 0
      BY <1>7, <2>1 DEF Written
    <3>2. CurrentFor(k)' \in Nat
      BY <1>3, <1>4, <1>5 DEF CurrentFor
    <3> QED BY <3>1, <3>2
  <2>2. CASE Kind(w) # "summary" \/ k = "summary"
    <3>1. CurrentFor(k)' = CurrentFor(k)
      BY <1>3, <1>5, <2>2 DEF CurrentFor
    <3>2. /\ artifact[k].from <= CurrentFor(k)
          /\ k \in Written(w) => wread[w].from <= CurrentFor(k)
      BY <1>1, <3>1 DEF VersionsInv, CurrentIsNewest
    <3>3. Kind(w) = "summary" => k \in Written(w)
      BY <2>2 DEF Written
    <3> QED BY <1>7, <3>1, <3>2, <3>3
  <2> QED BY <2>1, <2>2
<1>10. ReadsAreNewest'
  BY <1>2 DEF ReadsAreNewest
<1> QED BY <1>8, <1>9, <1>10 DEF VersionsInv

\* With one worker no horse disturbs what another one holds.
LEMMA HorseVersions ==
  ASSUME TypeOK, TypeOK', SourcesInv, OneWorker, NEW w \in Workers, Horse(w)
  PROVE  VersionsInv'
<1> USE DEF sessionVars, sourceVars, HorseGoes, HorseEnds
<1>1. HorsesKnowTheirJob /\ VersionsInv
  BY DEF SourcesInv, VersionsInv
<1>2. CASE LoadText(w) \/ LoadCharacters(w) \/ LoadCharactersSource(w) \/ LoadSummary(w)
  BY <1>2, LoadVersions
<1>3. CASE HorsePersist(w) /\ Stores(w)
  BY <1>3, PersistVersions
<1>4. CASE TranscriptionEnds(w) /\ UNCHANGED <<clock, base>>
  <2>1. DropsAtMost BY <1>4 DEF TranscriptionEnds, DropsAtMost
  <2>2. ReadsStayOrAreCurrent
    BY <1>4 DEF TranscriptionEnds, ReadsStayOrAreCurrent, Holding, OneWorker, TypeOK
  <2> QED BY <1>1, <1>4, <2>1, <2>2, QuietStep DEF TranscriptionEnds
<1>5. CASE TranscriptionEnds(w) /\ ~ UNCHANGED <<clock, base>>
  <2>1. clock' = clock + 1 /\ base' = clock + 1
        /\ UNCHANGED <<exists, mode, sums, edit, artifact>>
    BY <1>5 DEF TranscriptionEnds
  <2>2. ReadsStay
    BY <1>5 DEF TranscriptionEnds, ReadsStay, Holding, OneWorker, TypeOK
  <2>3. base' <= clock' /\ sums' <= clock' /\ edit' <= clock'
    BY <1>1, <2>1 DEF TypeOK, VersionsInv, VersionsKnown
  <2>4. \A k \in Kinds : CurrentFor(k)' \in {clock + 1, CurrentFor(k)}
    BY <2>1 DEF CurrentFor
  <2> QED BY <1>1, <2>1, <2>2, <2>3, <2>4, NewVersion
<1>6. CASE \/ HorseStart(w) \/ HorseRaise(w) \/ HorseFinish(w) \/ HorseKilled(w)
           \/ TranscriptionClaim(w) \/ (HorsePersist(w) /\ ~Stores(w))
  <2>1. DropsAtMost /\ UNCHANGED <<mode, clock, base, sums, edit>>
    BY <1>6 DEF DropsAtMost, HorseStart, HorseRaise, HorseFinish, HorseKilled,
                TranscriptionClaim, HorsePersist
  <2>2. ~Holding(w)'
    BY <1>6 DEF Holding, HorseStart, HorseRaise, HorseFinish, HorseKilled,
                TranscriptionClaim, HorsePersist, TypeOK
  <2>3. ReadsStayOrAreCurrent
    BY <2>2 DEF ReadsStayOrAreCurrent, OneWorker
  <2> QED BY <1>1, <2>1, <2>3, QuietStep
<1>7. CASE HorseCall(w)
  <2>1. DropsAtMost /\ UNCHANGED <<mode, clock, base, sums, edit>>
    BY <1>7 DEF DropsAtMost, HorseCall
  <2>2. Holding(w) /\ wread' = wread /\ Kind(w)' = Kind(w)
    BY <1>7 DEF HorseCall, Holding, Kind, queueVars, jobVars
  <2>3. ReadsStayOrAreCurrent
    BY <2>2 DEF ReadsStayOrAreCurrent, ReadStays, OneWorker
  <2> QED BY <1>1, <2>1, <2>3, QuietStep
<1>8. CASE HorsePersist(w)
  BY <1>3, <1>6, <1>8
<1>9. CASE TranscriptionEnds(w)
  BY <1>4, <1>5, <1>9
<1> QED BY <1>2, <1>6, <1>7, <1>8, <1>9 DEF Horse

LEMMA RedisVersions ==
  ASSUME TypeOK, TypeOK', SourcesInv, NEW j \in JobIds, Redis(j)
  PROVE  VersionsInv'
<1>1. DropsAtMost /\ UNCHANGED <<mode, clock, base, sums, edit>>
  BY DEF DropsAtMost, Redis, sessionVars, sourceVars
<1>2. ReadsStayOrAreCurrent
  BY DEF ReadsStayOrAreCurrent, ReadStays, Holding, Kind, Redis, Reap, Requeue,
         JobLost, jobVars, horseVars
<1> QED BY <1>1, <1>2, QuietStep DEF SourcesInv, VersionsInv

\* With one worker, and whatever requests, retries and faults come in between:
\* no artifact, stored or about to be, is newer than the current source, and none
\* a horse is about to replace is newer than what the horse has read.
THEOREM SourcesHold ==
  ASSUME OneWorker
  PROVE  Spec => []SourcesInv
<1>1. Init => SourcesInv
  BY DEF Init, SourcesInv, HorsesKnowTheirJob, VersionsKnown, CurrentIsNewest,
         ReadsAreNewest, Holding, CurrentFor
<1>2. TypeOK /\ TypeOK' /\ SourcesInv /\ [Next]_vars => SourcesInv'
  <2> SUFFICES ASSUME TypeOK, TypeOK', SourcesInv, [Next]_vars
               PROVE  HorsesKnowTheirJob' /\ VersionsInv'
    BY DEF SourcesInv, VersionsInv
  <2>1. HorsesKnowTheirJob /\ VersionsInv
    BY DEF SourcesInv, VersionsInv
  <2>2. CASE UNCHANGED vars
    <3>1. HorsesKnowTheirJob'
      BY <2>1, <2>2 DEF HorsesKnowTheirJob, Kind, vars, queueVars, jobVars, horseVars
    <3>2. DropsAtMost /\ ReadsStayOrAreCurrent /\ UNCHANGED <<mode, clock, base, sums, edit>>
      BY <2>2 DEF DropsAtMost, ReadsStayOrAreCurrent, ReadStays, Holding, Kind, vars,
                  queueVars, sessionVars, sourceVars, jobVars, horseVars
    <3> QED BY <2>1, <3>1, <3>2, QuietStep
  <2>3. ASSUME NEW r \in Requests, Request(r)
        PROVE  HorsesKnowTheirJob' /\ VersionsInv'
    BY <2>1, <2>3, RequestLeavesHorses, RequestVersions
  <2>4. ASSUME NEW w \in Workers, Horse(w)
        PROVE  HorsesKnowTheirJob' /\ VersionsInv'
    BY <2>1, <2>4, HorseKnowsJob, HorseVersions
  <2>5. ASSUME NEW j \in JobIds, Redis(j)
        PROVE  HorsesKnowTheirJob' /\ VersionsInv'
    BY <2>1, <2>5, RedisKnowsJob, RedisVersions
  <2> QED BY <2>2, <2>3, <2>4, <2>5 DEF Next
<1> QED BY <1>1, <1>2, TypeCorrect, PTL DEF Spec

----------------------------------------------------------------------------
(* Artifacts implements DerivedContent.                                    *)

LEMMA NewVersionChanges ==
  ASSUME TypeOK, exists, clock' = clock + 1, UNCHANGED <<exists, artifact>>
  PROVE  Derived!Next
<1>1. clock' > clock BY DEF TypeOK
<1> QED BY <1>1 DEF Derived!Next, Derived!Change

LEMMA DroppedDrops ==
  ASSUME exists, NEW ks \in SUBSET Kinds, artifact' = Dropped(ks),
         UNCHANGED <<exists, clock>>
  PROVE  Derived!Next
<1>1. Derived!Drop(ks) BY DEF Derived!Drop, Derived!None, Dropped
<1> QED BY <1>1 DEF Derived!Next

\* What a request does to the artifacts, seen from DerivedContent.
LEMMA RequestRefines ==
  ASSUME TypeOK, SourcesInv, NEW r \in Requests, Request(r)
  PROVE  [Derived!Next]_Derived!vars
<1> USE DEF Derived!vars, sessionVars, sourceVars
<1>1. ~exists => artifact = [k \in Kinds |-> NoArtifact]
  BY DEF SourcesInv, VersionsKnown
<1>2. artifact \in [Kinds -> Artifact]
  BY DEF TypeOK
<1>3. CASE EditCommit(r)
  <2>1. CASE rkind[r] \in Kinds /\ Has(rkind[r])
    <3>1. exists
      <4> SUFFICES ASSUME ~exists PROVE ~Has(rkind[r])
        BY <2>1
      <4>1. artifact = [k \in Kinds |-> NoArtifact] BY <1>1
      <4> QED BY <2>1, <4>1 DEF Has
    <3>2. artifact[rkind[r]] # Derived!None BY <2>1 DEF Has, Derived!None
    <3>3. Derived!Edit(rkind[r])
      BY <1>3, <2>1, <3>1, <3>2 DEF EditCommit, EditedArtifact, Derived!Edit
    <3> QED BY <2>1, <3>3 DEF Derived!Next
  <2>2. CASE ~Has(rkind[r])
    BY <1>3, <2>2 DEF EditCommit, EditedArtifact
  <2>3. CASE rkind[r] \notin Kinds
    <3>1. [artifact EXCEPT ![rkind[r]] = [artifact[rkind[r]] EXCEPT !.edited = TRUE]]
            = artifact
      BY <1>2, <2>3
    <3> QED BY <1>3, <3>1 DEF EditCommit, EditedArtifact
  <2> QED BY <2>1, <2>2, <2>3
<1>4. CASE TranscriptEditCommit(r)
  <2>1. CASE exists
    BY <1>4, <2>1, NewVersionChanges DEF TranscriptEditCommit
  <2>2. CASE ~exists
    BY <1>4, <2>2 DEF TranscriptEditCommit
  <2> QED BY <2>1, <2>2
<1>5. CASE MappingCommit(r)
  <2>1. CASE exists /\ mode = "diarised"
    BY <1>5, <2>1, DroppedDrops DEF MappingCommit, Mapped
  <2>2. CASE ~exists \/ mode # "diarised"
    BY <1>5, <2>2 DEF MappingCommit, Mapped
  <2> QED BY <2>1, <2>2
<1>6. CASE OutputsDropped /\ exists /\ UNCHANGED exists
  BY <1>6, DroppedDrops DEF OutputsDropped
<1>7. CASE PurgeCommit(r)
  BY <1>6, <1>7 DEF PurgeCommit
<1>8. CASE RestartCommit(r)
  BY <1>6, <1>8 DEF RestartCommit
<1>9. CASE DeleteCommit(r)
  <2>1. artifact' = [k \in Kinds |-> NoArtifact] /\ ~exists' /\ clock' = clock
    BY <1>9 DEF DeleteCommit, OutputsDropped, Dropped
  <2>2. CASE exists
    <3>1. Derived!Delete
      BY <1>9, <2>1, <2>2
         DEF DeleteCommit, Derived!Delete, Derived!Nothing, Derived!None
    <3> QED BY <3>1 DEF Derived!Next
  <2>3. CASE ~exists
    BY <1>1, <1>9, <2>1, <2>3 DEF DeleteCommit, TypeOK
  <2> QED BY <2>2, <2>3
<1>10. CASE UNCHANGED <<exists, clock, artifact>>
  BY <1>10
<1> QED
  BY <1>3, <1>4, <1>5, <1>7, <1>8, <1>9, <1>10
  DEF Request, RequestContinues, PostCheck, PostEnqueue, PostCommit, EditCheck,
      TranscriptEditCheck, MappingCheck, PurgeCheck, RestartCheck, DeleteAbort,
      ApiCrash

\* Storing is generating from the version that was read.
LEMMA PersistRefines ==
  ASSUME TypeOK, SourcesInv, NEW w \in Workers, HorsePersist(w), Stores(w)
  PROVE  Derived!Next
<1>1. HorsesKnowTheirJob /\ Holding(w)
  BY DEF SourcesInv, HorsePersist, Holding
<1>2. Written(w) \subseteq Kinds
  BY <1>1, WrittenKinds
<1>3. /\ wread[w].from \in 1 .. clock
      /\ \A k \in Written(w) : artifact[k].from <= wread[w].from
  BY <1>1 DEF SourcesInv, ReadsAreNewest
<1>4. /\ artifact' = Generated(w)
      /\ exists /\ UNCHANGED exists
      /\ clock' = clock \/ clock' = clock + 1
  BY DEF HorsePersist, Stores
<1>5. clock' >= clock /\ wread[w].from <= clock
  BY <1>3, <1>4 DEF TypeOK
<1>6. \A k \in Written(w) : artifact'[k] = [from |-> wread[w].from, edited |-> FALSE]
  BY <1>2, <1>4 DEF Generated
<1>7. \A k \in Kinds \ Written(w) : artifact'[k] \in {artifact[k], Derived!None}
  BY <1>4 DEF Generated, Derived!None
<1>8. DOMAIN artifact' = Kinds
  BY <1>4 DEF Generated
<1>9. Derived!Generate(Written(w), wread[w].from)
  BY <1>3, <1>4, <1>5, <1>6, <1>7, <1>8 DEF Derived!Generate
<1> QED BY <1>2, <1>3, <1>9 DEF Derived!Next

LEMMA HorseRefines ==
  ASSUME TypeOK, SourcesInv, NEW w \in Workers, Horse(w)
  PROVE  [Derived!Next]_Derived!vars
<1> USE DEF Derived!vars, sessionVars, sourceVars
<1>1. CASE HorsePersist(w) /\ Stores(w)
  BY <1>1, PersistRefines
<1>2. CASE HorsePersist(w) /\ ~Stores(w)
  BY <1>2 DEF HorsePersist
<1>3. CASE TranscriptionEnds(w)
  <2>1. CASE exists /\ clock' = clock + 1
    BY <1>3, <2>1, NewVersionChanges DEF TranscriptionEnds
  <2>2. CASE UNCHANGED clock
    BY <1>3, <2>2 DEF TranscriptionEnds
  <2> QED BY <1>3, <2>1, <2>2 DEF TranscriptionEnds
<1>4. CASE UNCHANGED <<exists, clock, artifact>>
  BY <1>4
<1> QED
  BY <1>1, <1>2, <1>3, <1>4
  DEF Horse, HorseStart, LoadText, LoadCharacters, LoadCharactersSource,
      LoadSummary, LoadSums, HorseCall, TranscriptionClaim, HorseRaise,
      HorseFinish, HorseKilled

\* With one worker the artifacts of a session change by the steps of
\* DerivedContent only: no generation replaces an artifact by one from an older
\* source, no edit creates one, and a deleted session has none and gets none.
THEOREM DerivedRefinement ==
  ASSUME OneWorker
  PROVE  Spec => RefinesDerived
<1>1. Init => Derived!Init
  BY DEF Init, Derived!Init, Derived!Nothing, Derived!None
<1>2. TypeOK /\ SourcesInv /\ [Next]_vars => [Derived!Next]_Derived!vars
  <2>1. ASSUME UNCHANGED vars PROVE UNCHANGED Derived!vars
    BY <2>1 DEF vars, sessionVars, sourceVars, Derived!vars
  <2>2. ASSUME NEW j \in JobIds, Redis(j) PROVE UNCHANGED Derived!vars
    BY <2>2 DEF Redis, sessionVars, sourceVars, Derived!vars
  <2> QED BY <2>1, <2>2, RequestRefines, HorseRefines DEF Next
<1> QED
  BY <1>1, <1>2, TypeCorrect, SourcesHold, PTL DEF Spec, RefinesDerived, Derived!Spec
----------------------------------------------------------------------------
(* What is derived from a summary.                                         *)

\* A published transcription has rows or chunks.
PublishedHasBase == exists /\ state = "transcribed" => base # 0

\* Chunk summaries are of the chunks that are there: they go together.
SumsFollowBase == mode = "non_diarised" /\ sums # 0 => base # 0 /\ base < sums

\* A summary that will find neither an edited transcript nor bare chunks has
\* read the chunks that are there.
SummaryReadsBase ==
  \A w \in Workers : Holding(w) /\ Kind(w) = "summary" /\ base # 0 /\ edit = 0
    => wread[w].chunks = base

\* Without an edited transcript, a summary of the chunks has left theirs.
SummaryHasSums ==
  /\ mode = "non_diarised" /\ edit = 0 /\ base # 0
  /\ Has("summary") /\ base <= artifact["summary"].from
  => sums # 0

\* What a derivation has read is at least as recent as the summary.
ReadFollowsSummary ==
  \A w \in Workers : Holding(w) /\ Kind(w) # "summary"
    => artifact["summary"].from <= wread[w].from

DerivationInv ==
  /\ PublishedHasBase
  /\ SumsFollowBase
  /\ SummaryReadsBase
  /\ SummaryHasSums
  /\ ReadFollowsSummary
  /\ DerivedFollowsSummary

LEMMA SummaryKind == "summary" \in Kinds /\ "summary" \notin Downstream
BY ArtifactsAssumption DEF Downstream

LEMMA DownstreamKinds == Downstream \subseteq Kinds
BY DEF Downstream

\* The summary keeps its source, and what is derived keeps its own or goes.
SummaryStays ==
  /\ artifact'["summary"].from = artifact["summary"].from
  /\ \A k \in Downstream : artifact'[k].from \in {0, artifact[k].from}

ReadFollows(w) ==
  /\ Kind(w)' = "summary" /\ base # 0 /\ edit = 0 => wread'[w].chunks = base
  /\ Kind(w)' # "summary" => artifact["summary"].from <= wread'[w].from

\* A step that changes no source and stores nothing.
LEMMA QuietDerivation ==
  ASSUME TypeOK, DerivationInv, SummaryStays,
         \A w \in Workers : Holding(w)' => ReadStays(w) \/ ReadFollows(w),
         UNCHANGED <<exists, mode, base, sums, edit>>,
         state' = state \/ state' # "transcribed"
  PROVE  DerivationInv'
<1>1. /\ PublishedHasBase' /\ SumsFollowBase'
  BY DEF DerivationInv, PublishedHasBase, SumsFollowBase
<1>2. SummaryReadsBase'
  BY DEF DerivationInv, SummaryReadsBase, ReadStays, ReadFollows
<1>3. SummaryHasSums'
  BY DEF DerivationInv, SummaryHasSums, SummaryStays, Has
<1>4. ReadFollowsSummary'
  BY DEF DerivationInv, ReadFollowsSummary, ReadStays, ReadFollows, SummaryStays
<1>5. DerivedFollowsSummary'
  <2> SUFFICES ASSUME Has("summary")', NEW k \in Downstream, Has(k)'
               PROVE  artifact'[k].from >= artifact'["summary"].from
    BY DEF DerivedFollowsSummary
  <2>1. Has("summary") /\ Has(k) /\ artifact'[k].from = artifact[k].from
    BY DEF Has, SummaryStays
  <2> QED BY <2>1 DEF DerivationInv, DerivedFollowsSummary, SummaryStays
<1> QED BY <1>1, <1>2, <1>3, <1>4, <1>5 DEF DerivationInv

\* Every output is dropped, from a session that is not published any more.
LEMMA OutputsGoneDerivation ==
  ASSUME TypeOK, TypeOK', OutputsDropped, ~ (exists /\ state = "transcribed")'
  PROVE  DerivationInv'
<1>1. base' = 0 /\ sums' = 0
  BY DEF OutputsDropped
<1>2. \A k \in Kinds : artifact'[k].from = 0
  BY DEF OutputsDropped, Dropped
<1>3. \A w \in Workers : wread'[w].from \in Nat
  BY DEF TypeOK
<1>4. ReadFollowsSummary'
  BY <1>2, <1>3, SummaryKind DEF ReadFollowsSummary
<1>5. DerivedFollowsSummary'
  BY <1>2, SummaryKind DEF DerivedFollowsSummary, Has
<1> QED
  BY <1>1, <1>4, <1>5
  DEF DerivationInv, PublishedHasBase, SumsFollowBase, SummaryReadsBase, SummaryHasSums

LEMMA RequestDerivation ==
  ASSUME TypeOK, TypeOK', SourcesInv, DerivationInv, NEW r \in Requests, Request(r)
  PROVE  DerivationInv'
<1> USE DEF sessionVars, sourceVars
<1>1. \A w \in Workers : Holding(w)' => ReadStays(w)
  <2>1. HorsesKnowTheirJob BY DEF SourcesInv
  <2> QED BY <2>1, RequestLeavesHorses DEF ReadStays, Holding
<1>2. CASE UNCHANGED <<exists, mode, state, base, sums, edit, artifact>>
  <2>1. SummaryStays BY <1>2 DEF SummaryStays
  <2> QED BY <1>1, <1>2, <2>1, QuietDerivation
<1>3. CASE EditCommit(r)
  <2>1. \A x \in Artifact : [x EXCEPT !.edited = TRUE].from = x.from
    OBVIOUS
  <2>2. \A k \in Kinds : artifact'[k].from = artifact[k].from
    BY <1>3, <2>1 DEF EditCommit, EditedArtifact, TypeOK
  <2>3. SummaryStays BY <2>2, SummaryKind, DownstreamKinds DEF SummaryStays
  <2> QED BY <1>1, <1>3, <2>3, QuietDerivation DEF EditCommit
<1>4. CASE TranscriptEditCommit(r) /\ exists
  <2>1. edit' # 0 BY <1>4 DEF TranscriptEditCommit, TypeOK
  <2>2. UNCHANGED <<exists, mode, state, base, sums, artifact>>
    BY <1>4 DEF TranscriptEditCommit
  <2>3. ReadFollowsSummary'
    BY <1>1, <2>2 DEF ReadFollowsSummary, ReadStays, DerivationInv
  <2>4. DerivedFollowsSummary'
    BY <2>2 DEF DerivedFollowsSummary, Has, DerivationInv
  <2> QED
    BY <2>1, <2>2, <2>3, <2>4
    DEF DerivationInv, PublishedHasBase, SumsFollowBase, SummaryReadsBase, SummaryHasSums
<1>5. CASE MappingCommit(r)
  <2>1. ASSUME artifact' = Dropped(Pjs)
        PROVE  SummaryStays
    <3>1. \A k \in Kinds : artifact'[k].from = IF k \in Pjs THEN 0 ELSE artifact[k].from
      BY <2>1 DEF Dropped
    <3>2. "summary" \notin Pjs
      BY ArtifactsAssumption
    <3> QED BY <3>1, <3>2, SummaryKind, DownstreamKinds DEF SummaryStays
  <2>2. ASSUME artifact' = artifact
        PROVE  SummaryStays
    BY <2>2 DEF SummaryStays
  <2>3. SummaryStays
    BY <1>5, <2>1, <2>2 DEF MappingCommit, Mapped
  <2> QED BY <1>1, <1>5, <2>3, QuietDerivation DEF MappingCommit
<1>6. CASE PurgeCommit(r)
  BY <1>2, <1>6, OutputsGoneDerivation DEF PurgeCommit
<1>7. CASE RestartCommit(r)
  BY <1>2, <1>7, OutputsGoneDerivation DEF RestartCommit
<1>8. CASE DeleteCommit(r)
  BY <1>8, OutputsGoneDerivation DEF DeleteCommit
<1>9. CASE TranscriptEditCommit(r) /\ ~exists
  BY <1>2, <1>9 DEF TranscriptEditCommit
<1> QED
  BY <1>2, <1>3, <1>4, <1>5, <1>6, <1>7, <1>8, <1>9
  DEF Request, RequestContinues, PostCheck, PostEnqueue, PostCommit, EditCheck,
      TranscriptEditCheck, MappingCheck, PurgeCheck, RestartCheck, DeleteAbort, ApiCrash

\* What is loaded is at least as recent as the summary.
LEMMA SourceFollowsSummary ==
  ASSUME TypeOK, SourcesInv, DerivationInv, Source # 0
  PROVE  artifact["summary"].from <= Source
<1> USE SummaryKind
<1>1. /\ artifact["summary"].from \in Nat
      /\ base \in Nat /\ sums \in Nat /\ edit \in Nat /\ mode \in Modes
  BY ArtifactFrom DEF TypeOK
<1>2. CurrentFor("summary") # 0 => artifact["summary"].from <= CurrentFor("summary")
  BY DEF SourcesInv, CurrentIsNewest
<1>3. CASE edit # 0 \/ mode = "diarised"
  BY <1>2, <1>3 DEF CurrentFor, Source
<1>4. CASE edit = 0 /\ mode # "diarised"
  <2>1. mode = "non_diarised" /\ sums # 0 /\ Source = sums
    BY <1>1, <1>4, ArtifactsAssumption DEF Source
  <2>2. base # 0 /\ base < sums
    BY <2>1 DEF DerivationInv, SumsFollowBase
  <2>3. CurrentFor("summary") = base
    BY <1>4 DEF CurrentFor
  <2> QED BY <1>1, <1>2, <2>1, <2>2, <2>3
<1> QED BY <1>3, <1>4

LEMMA LoadDerivation ==
  ASSUME TypeOK, SourcesInv, DerivationInv, OneWorker, NEW w \in Workers,
         LoadText(w) \/ LoadCharacters(w) \/ LoadCharactersSource(w) \/ LoadSummary(w)
  PROVE  DerivationInv'
<1> USE DEF sessionVars, sourceVars
<1>1. UNCHANGED <<exists, mode, state, base, sums, edit, artifact>>
  BY DEF LoadText, LoadCharacters, LoadCharactersSource, LoadSummary, LoadSums
<1>2. Kind(w)' = Kind(w)
  BY DEF Kind, LoadText, LoadCharacters, LoadCharactersSource, LoadSummary,
         queueVars, jobVars
<1>3. wstep \in [Workers -> {"idle", "load", "source", "call", "persist",
                             "transcribe", "raise", "finish"}]
      /\ wread \in [Workers -> Read]
  BY DEF TypeOK
<1>4. ASSUME Holding(w)' PROVE ReadFollows(w)
  <2>1. CASE LoadText(w) \/ LoadCharactersSource(w)
    <3>1. LoadSource(w) /\ Kind(w) # "summary"
      BY <2>1, ArtifactsAssumption
      DEF LoadText, LoadCharactersSource, SourcesInv, HorsesKnowTheirJob
    <3>2. wread'[w].from = Source /\ Source # 0
      BY <1>3, <1>4, <3>1 DEF LoadSource, HorseGoes, Holding
    <3> QED BY <1>2, <3>1, <3>2, SourceFollowsSummary DEF ReadFollows
  <2>2. CASE LoadCharacters(w)
    BY <1>3, <1>4, <2>2 DEF LoadCharacters, HorseGoes, Holding
  <2>3. CASE LoadSummary(w)
    <3>1. Kind(w) = "summary" /\ Prerequisites("summary")
      BY <1>3, <1>4, <2>3 DEF LoadSummary, HorseGoes, Holding
    <3>2. edit = 0 => wread'[w].chunks = base
      BY <1>3, <2>3, <3>1 DEF LoadSummary
    <3> QED BY <1>2, <3>1, <3>2 DEF ReadFollows
  <2> QED BY <2>1, <2>2, <2>3
<1>5. \A v \in Workers : Holding(v)' => ReadStays(v) \/ ReadFollows(v)
  BY <1>4 DEF OneWorker
<1>6. SummaryStays
  BY <1>1 DEF SummaryStays
<1> QED BY <1>1, <1>5, <1>6, QuietDerivation

LEMMA PersistDerivation ==
  ASSUME TypeOK, TypeOK', SourcesInv, DerivationInv, OneWorker, NEW w \in Workers,
         HorsePersist(w), Stores(w)
  PROVE  DerivationInv'
<1> USE SummaryKind, DownstreamKinds
<1>1. HorsesKnowTheirJob /\ Holding(w) /\ Kind(w) \in ArtifactJobKinds
  BY DEF SourcesInv, HorsePersist, Holding, HorsesKnowTheirJob
<1>2. ~ \E v \in Workers : Holding(v)'
  BY DEF HorsePersist, HorseGoes, Holding, OneWorker, TypeOK
<1>3. UNCHANGED <<exists, mode, state, base, edit>> /\ artifact' = Generated(w)
  BY DEF HorsePersist, Stores
<1>4. base \in Nat /\ clock \in Nat /\ base <= clock
  BY DEF TypeOK, SourcesInv, VersionsKnown
<1>5. \A k \in Kinds : artifact'[k].from =
         IF k \in Written(w) THEN wread[w].from
         ELSE IF Kind(w) = "summary" THEN 0 ELSE artifact[k].from
  BY <1>3 DEF Generated
<1>6. PublishedHasBase' /\ SummaryReadsBase' /\ ReadFollowsSummary'
  BY <1>2, <1>3
  DEF DerivationInv, PublishedHasBase, SummaryReadsBase, ReadFollowsSummary
<1>7. CASE Kind(w) = "summary"
  <2>1. IF wread[w].chunks # 0 /\ wread[w].chunks = base
        THEN sums' = clock + 1 ELSE sums' = 0
    BY <1>7 DEF HorsePersist, Stores
  <2>2. SumsFollowBase'
    BY <1>3, <1>4, <2>1 DEF SumsFollowBase
  <2>3. base # 0 /\ edit = 0 => wread[w].chunks = base
    BY <1>1, <1>7 DEF DerivationInv, SummaryReadsBase
  <2>4. SummaryHasSums'
    BY <1>3, <1>4, <2>1, <2>3 DEF SummaryHasSums
  <2>5. \A k \in Downstream : artifact'[k].from = 0
    BY <1>5, <1>7 DEF Written
  <2>6. DerivedFollowsSummary'
    BY <2>5 DEF DerivedFollowsSummary, Has
  <2> QED BY <1>6, <2>2, <2>4, <2>6 DEF DerivationInv
<1>8. CASE Kind(w) # "summary"
  <2>1. UNCHANGED sums
    BY <1>8 DEF HorsePersist, Stores
  <2>2. "summary" \notin Written(w)
    BY <1>8, ArtifactsAssumption DEF Written, TypeOK
  <2>3. artifact'["summary"].from = artifact["summary"].from
    BY <1>5, <1>8, <2>2
  <2>4. SumsFollowBase' /\ SummaryHasSums'
    BY <1>3, <2>1, <2>3 DEF DerivationInv, SumsFollowBase, SummaryHasSums, Has
  <2>5. DerivedFollowsSummary'
    <3> SUFFICES ASSUME Has("summary")', NEW k \in Downstream, Has(k)'
                 PROVE  artifact'[k].from >= artifact["summary"].from
      BY <2>3 DEF DerivedFollowsSummary
    <3>1. CASE k \in Written(w)
      <4>1. artifact["summary"].from <= wread[w].from
        BY <1>1, <1>8 DEF DerivationInv, ReadFollowsSummary
      <4>2. artifact["summary"].from \in Nat /\ wread[w].from \in Nat
        BY ArtifactFrom DEF TypeOK
      <4> QED BY <1>5, <3>1, <4>1, <4>2
    <3>2. CASE k \notin Written(w)
      <4>1. artifact'[k].from = artifact[k].from
        BY <1>5, <1>8, <3>2
      <4> QED BY <2>3, <4>1 DEF DerivationInv, DerivedFollowsSummary, Has
    <3> QED BY <3>1, <3>2
  <2> QED BY <1>6, <2>4, <2>5 DEF DerivationInv
<1> QED BY <1>7, <1>8

LEMMA HorseDerivation ==
  ASSUME TypeOK, TypeOK', SourcesInv, DerivationInv, OneWorker, NEW w \in Workers, Horse(w)
  PROVE  DerivationInv'
<1> USE DEF sessionVars, sourceVars, HorseGoes, HorseEnds
<1>1. CASE LoadText(w) \/ LoadCharacters(w) \/ LoadCharactersSource(w) \/ LoadSummary(w)
  BY <1>1, LoadDerivation
<1>2. CASE HorsePersist(w) /\ Stores(w)
  BY <1>2, PersistDerivation
<1>3. CASE TranscriptionEnds(w) /\ UNCHANGED <<clock, base>>
  <2>1. SummaryStays /\ UNCHANGED <<exists, mode, base, sums, edit>>
    BY <1>3 DEF TranscriptionEnds, SummaryStays
  <2>2. state' = state \/ state' # "transcribed"
    BY <1>3 DEF TranscriptionEnds, TypeOK
  <2>3. \A v \in Workers : Holding(v)' => ReadStays(v)
    BY <1>3 DEF TranscriptionEnds, Holding, OneWorker, TypeOK
  <2> QED BY <2>1, <2>2, <2>3, QuietDerivation
<1>4. CASE TranscriptionEnds(w) /\ ~ UNCHANGED <<clock, base>>
  <2>1. /\ base' = clock + 1 /\ clock \in Nat
        /\ mode = "non_diarised" => base = 0
        /\ UNCHANGED <<exists, mode, sums, edit, artifact>>
    BY <1>4 DEF TranscriptionEnds, TypeOK
  <2>2. ~ \E v \in Workers : Holding(v)'
    BY <1>4 DEF TranscriptionEnds, Holding, OneWorker, TypeOK
  <2>3. mode = "non_diarised" => sums = 0
    BY <2>1 DEF DerivationInv, SumsFollowBase
  <2>4. artifact["summary"].from <= clock /\ artifact["summary"].from \in Nat
    BY SummaryKind, ArtifactFrom DEF SourcesInv, VersionsKnown
  <2>5. SummaryHasSums'
    BY <2>1, <2>4 DEF SummaryHasSums
  <2>6. PublishedHasBase' /\ SumsFollowBase' /\ SummaryReadsBase' /\ ReadFollowsSummary'
    BY <2>1, <2>2, <2>3
    DEF PublishedHasBase, SumsFollowBase, SummaryReadsBase, ReadFollowsSummary
  <2>7. DerivedFollowsSummary'
    BY <2>1 DEF DerivationInv, DerivedFollowsSummary, Has
  <2> QED BY <2>5, <2>6, <2>7 DEF DerivationInv
<1>5. CASE \/ HorseStart(w) \/ HorseRaise(w) \/ HorseFinish(w) \/ HorseKilled(w)
           \/ TranscriptionClaim(w) \/ (HorsePersist(w) /\ ~Stores(w))
  <2>1. /\ SummaryStays /\ UNCHANGED <<exists, mode, base, sums, edit>>
        /\ state' = state \/ state' # "transcribed"
    BY <1>5 DEF SummaryStays, HorseStart, HorseRaise, HorseFinish, HorseKilled,
                TranscriptionClaim, HorsePersist
  <2>2. ~Holding(w)'
    BY <1>5 DEF Holding, HorseStart, HorseRaise, HorseFinish, HorseKilled,
                TranscriptionClaim, HorsePersist, TypeOK
  <2>3. \A v \in Workers : Holding(v)' => ReadStays(v)
    BY <2>2 DEF OneWorker
  <2> QED BY <2>1, <2>3, QuietDerivation
<1>6. CASE HorseCall(w)
  <2>1. SummaryStays /\ UNCHANGED <<exists, mode, state, base, sums, edit>>
    BY <1>6 DEF SummaryStays, HorseCall
  <2>2. Holding(w) /\ wread' = wread /\ Kind(w)' = Kind(w)
    BY <1>6 DEF HorseCall, Holding, Kind, queueVars, jobVars
  <2>3. \A v \in Workers : Holding(v)' => ReadStays(v)
    BY <2>2 DEF ReadStays, OneWorker
  <2> QED BY <2>1, <2>3, QuietDerivation
<1> QED BY <1>1, <1>2, <1>3, <1>4, <1>5, <1>6 DEF Horse

LEMMA RedisDerivation ==
  ASSUME TypeOK, DerivationInv, NEW j \in JobIds, Redis(j)
  PROVE  DerivationInv'
<1>1. SummaryStays /\ UNCHANGED <<exists, mode, state, base, sums, edit>>
  BY DEF SummaryStays, Redis, sessionVars, sourceVars
<1>2. \A v \in Workers : Holding(v)' => ReadStays(v)
  BY DEF ReadStays, Holding, Kind, Redis, Reap, Requeue, JobLost, jobVars, horseVars
<1> QED BY <1>1, <1>2, QuietDerivation

\* With one worker: chunk summaries go with their chunks, a summary under way
\* has read the chunks it will find, and a derivation under way has a source no
\* older than the summary.
THEOREM DerivationHolds ==
  ASSUME OneWorker
  PROVE  Spec => []DerivationInv
<1>1. Init => DerivationInv
  BY DEF Init, DerivationInv, PublishedHasBase, SumsFollowBase, SummaryReadsBase,
         SummaryHasSums, ReadFollowsSummary, DerivedFollowsSummary, Has, Holding
<1>2. TypeOK /\ TypeOK' /\ SourcesInv /\ DerivationInv /\ [Next]_vars => DerivationInv'
  <2>1. ASSUME TypeOK, DerivationInv, UNCHANGED vars PROVE DerivationInv'
    <3>1. SummaryStays /\ UNCHANGED <<exists, mode, state, base, sums, edit>>
      BY <2>1 DEF SummaryStays, vars, sessionVars, sourceVars
    <3>2. \A v \in Workers : Holding(v)' => ReadStays(v)
      BY <2>1 DEF ReadStays, Holding, Kind, vars, queueVars, jobVars, horseVars
    <3> QED BY <2>1, <3>1, <3>2, QuietDerivation
  <2> QED BY <2>1, RequestDerivation, HorseDerivation, RedisDerivation DEF Next
<1> QED BY <1>1, <1>2, TypeCorrect, SourcesHold, PTL DEF Spec

\* With one worker, whatever edits, restarts, retries and faults come between,
\* nothing derived is from a source older than the summary of its session.
THEOREM SummaryComesFirst ==
  ASSUME OneWorker
  PROVE  Spec => []DerivedFollowsSummary
<1>1. DerivationInv => DerivedFollowsSummary
  BY DEF DerivationInv
<1> QED BY <1>1, DerivationHolds, PTL

\* With one worker, a derivation that the endpoint accepts finds its source.
THEOREM AcceptedFindsSource ==
  ASSUME OneWorker
  PROVE  Spec => []AcceptedDerivationHasSource
<1>1. TypeOK /\ DerivationInv => AcceptedDerivationHasSource
  <2> SUFFICES ASSUME TypeOK, DerivationInv, Prerequisites("narrative"),
                      artifact["summary"].from >= base, edit = 0
               PROVE  Source # 0
    BY DEF AcceptedDerivationHasSource, Source
  <2>1. base # 0 /\ base \in Nat /\ artifact["summary"].from \in Nat
    BY SummaryKind, ArtifactFrom
    DEF TypeOK, DerivationInv, PublishedHasBase, Prerequisites
  <2>2. CASE mode = "diarised"
    BY <2>1, <2>2 DEF Source
  <2>3. CASE mode = "non_diarised"
    <3>1. Has("summary")
      BY <2>3 DEF Prerequisites
    <3>2. sums # 0
      BY <2>1, <2>3, <3>1 DEF DerivationInv, SummaryHasSums
    <3> QED BY <2>3, <3>2 DEF Source
  <2> QED BY <2>2, <2>3, ArtifactsAssumption DEF TypeOK
<1> QED BY <1>1, TypeCorrect, DerivationHolds, PTL

----------------------------------------------------------------------------
(* A deployment with one worker, no scheduler and one API request at a     *)
(* time: what is read belongs to the published transcription, and manual   *)
(* edits survive the jobs that may not replace them.  The queue, first in, *)
(* first out, is what the second rests on.                                 *)

OneRequest == \A q, r \in Requests : q = r
Serial == OneWorker /\ OneRequest /\ ~WithScheduler

----------------------------------------------------------------------------
(* Publication.                                                            *)

\* A horse runs a job that Redis knows to have started.
HorsesRun ==
  \A w \in Workers :
    /\ wstep[w] = "idle" <=> running[w] = NoJob
    /\ wstep[w] # "idle" => rq[running[w]] = "started"
    /\ wstep[w] = "transcribe" => Kind(w) = "transcription"

\* A transcription that will still publish, or fail.
Pending(j) ==
  /\ jkind[j] = "transcription"
  /\ \/ rq[j] = "queued"
     \/ \E w \in Workers : running[w] = j /\ wstep[w] \in {"load", "transcribe"}

\* There is one at most, and none once the session is transcribed or has failed.
PendingOnce ==
  /\ \A i, j \in JobIds : Pending(i) /\ Pending(j) => i = j
  /\ state \in {"transcribed", "transcription_failed"} => \A j \in JobIds : ~Pending(j)

\* What the check of a request has seen still holds when it commits.
RequestsAct ==
  \A r \in Requests :
    /\ rstep[r] = "transcript" => exists /\ state = "transcribed"
    /\ rstep[r] = "restart" =>
         exists /\ state \in {"transcribed", "transcription_failed"}

\* An edited transcript is of the published transcription.
EditIsPublished == edit # 0 => state = "transcribed" /\ base <= edit

PublishedInv == HorsesRun /\ PendingOnce /\ RequestsAct /\ EditIsPublished

----------------------------------------------------------------------------
(* Edits.                                                                  *)

InLine(j) == rq[j] = "queued" \/ \E w \in Workers : running[w] = j

Waiting(j) ==
  \/ rq[j] = "queued"
  \/ \E w \in Workers : running[w] = j /\ wstep[w] \in {"load", "source", "call", "persist"}

Generates(j) == jkind[j] \in ArtifactJobKinds

\* Identifiers are taken in order, and jobs run in that order.
IdsInOrder == \A i, j \in JobIds : i < j /\ rq[i] = "none" => rq[j] = "none"

FirstInFirstOut ==
  \A i, j \in JobIds : InLine(i) /\ i < j => rq[j] \in {"none", "queued", "canceled"}

\* No generation waits behind a transcription.
TranscriptionsLast ==
  \A i, j \in JobIds : Pending(j) /\ Waiting(i) /\ Generates(i) => i < j

\* Only a deletion cancels jobs.
NothingCanceled ==
  exists /\ (\A r \in Requests : rstep[r] # "delete") => \A j \in JobIds : rq[j] # "canceled"

Unedited(kind) == \A k \in Affected(kind) : ~artifact[k].edited

RequestsKnow ==
  \A r \in Requests :
    /\ rstep[r] = "post_enqueue" =>
         exists /\ state = "transcribed" /\ (rforce[r] \/ Unedited(rkind[r]))
    /\ rstep[r] = "post_commit" =>
         /\ exists
         /\ rjob[r] \in JobIds /\ Generates(rjob[r])
         /\ rq[rjob[r]] \notin {"none", "canceled"}
         /\ \A j \in JobIds : InLine(j) => j <= rjob[r]
    /\ rstep[r] = "edit" => rkind[r] \in Kinds /\ ~GenerationBusy

\* Why no edit can be lost to job j: it will find no transcribed session; or
\* edits are refused until it is done; or it will find nothing edited, since
\* everything was dropped under its hands and an edit creates nothing.
Hopeless(j) ==
  /\ state # "transcribed"
  /\ \A w \in Workers : running[w] = j => ~Holding(w)

Covered(j) ==
  \/ \E r \in Requests : rstep[r] \in {"delete", "post_commit"}
  \/ GenerationBusy /\ j <= currentJob

Bare(j) ==
  /\ artifact = [k \in Kinds |-> NoArtifact]
  /\ \E w \in Workers : running[w] = j /\ Holding(w)

Safe(j) == Hopeless(j) \/ (Unedited(jkind[j]) /\ Covered(j)) \/ Bare(j)

UnforcedJobsAreSafe ==
  \A j \in JobIds : Waiting(j) /\ Generates(j) /\ ~jforce[j] => Safe(j)

EditsInv ==
  /\ IdsInOrder
  /\ FirstInFirstOut
  /\ TranscriptionsLast
  /\ NothingCanceled
  /\ RequestsKnow
  /\ UnforcedJobsAreSafe

----------------------------------------------------------------------------
(* Horses and their jobs.                                                  *)

Steps == {"idle", "load", "source", "call", "persist", "transcribe", "raise", "finish"}

\* A request only adds jobs that were not there, and cancels queued ones.
LEMMA RequestQueue ==
  ASSUME TypeOK, NEW r \in Requests, Request(r)
  PROVE  /\ UNCHANGED <<running, wstep, wread>>
         /\ \A j \in JobIds : rq[j] = "started" => rq'[j] = "started"
<1>1. UNCHANGED <<running, wstep, wread>>
  BY DEF Request, RequestContinues, PostCheck, PostEnqueue, PostCommit, EditCheck,
      EditCommit, TranscriptEditCheck, TranscriptEditCommit, MappingCheck,
      MappingCommit, PurgeCheck, PurgeCommit, RestartCheck, RestartCommit,
      DeleteAbort, DeleteCommit, ApiCrash, NewJob, Enqueue, Abort, queueVars, horseVars
<1>2. \/ \E j \in JobIds : rq[j] = "none" /\ rq' = [rq EXCEPT ![j] = "queued"]
      \/ DeleteAbort(r)
      \/ UNCHANGED rq
  BY DEF Request, RequestContinues, PostCheck, PostEnqueue, PostCommit, EditCheck,
      EditCommit, TranscriptEditCheck, TranscriptEditCommit, MappingCheck,
      MappingCommit, PurgeCheck, PurgeCommit, RestartCheck, RestartCommit,
      DeleteCommit, ApiCrash, NewJob, Enqueue, queueVars
<1>3. rq \in [JobIds -> RqStatus]
  BY DEF TypeOK, QueueTypeOK
<1>4. ASSUME NEW j \in JobIds, rq[j] = "started"
      PROVE  rq'[j] = "started"
  <2>1. CASE DeleteAbort(r)
    BY <1>3, <1>4, <2>1 DEF DeleteAbort, Abort
  <2> QED BY <1>2, <1>3, <1>4, <2>1
<1> QED BY <1>1, <1>4

\* How the queue moves under a horse: its job starts, stays, or leaves.
Starts(w, j) ==
  /\ wstep[w] = "idle" /\ wstep' = [wstep EXCEPT ![w] = "load"]
  /\ running[w] = NoJob /\ running' = [running EXCEPT ![w] = j]
  /\ rq[j] = "queued" /\ rq' = [rq EXCEPT ![j] = "started"]
  /\ NextQueued(j)
  /\ UNCHANGED <<sessionVars, jobVars, requestVars, wread>>

Stays(w) ==
  /\ wstep[w] # "idle" /\ \E to \in Steps \ {"idle"} : wstep' = [wstep EXCEPT ![w] = to]
  /\ UNCHANGED <<queueVars, jobVars, requestVars>>

Leaves(w) ==
  /\ wstep[w] # "idle" /\ wstep' = [wstep EXCEPT ![w] = "idle"]
  /\ running[w] # NoJob /\ running' = [running EXCEPT ![w] = NoJob]
  /\ \E status \in {"scheduled", "failed", "finished", "stopped"} :
       rq' = [rq EXCEPT ![running[w]] = status] \/ UNCHANGED rq
  /\ UNCHANGED <<sessionVars, jobVars, requestVars>>

LEMMA HorseMoves ==
  ASSUME TypeOK, HorsesKnowTheirJob, NEW w \in Workers, Horse(w)
  PROVE  (\E j \in JobIds : Starts(w, j)) \/ Stays(w) \/ Leaves(w)
<1> USE DEF HorseGoes, HorseEnds, Steps
<1>1. wstep[w] # "idle" => running[w] # NoJob
  BY QueueAssumption DEF HorsesKnowTheirJob
<1>2. CASE HorseStart(w)
  BY <1>2 DEF HorseStart, Dequeue, Starts
<1>3. CASE LoadText(w) \/ LoadCharacters(w) \/ LoadCharactersSource(w)
  BY <1>3 DEF LoadText, LoadCharacters, LoadCharactersSource, LoadSource, Stays
<1>4. CASE LoadSummary(w)
  BY <1>4 DEF LoadSummary, Stays
<1>5. CASE HorseCall(w) \/ HorsePersist(w)
  BY <1>5 DEF HorseCall, HorsePersist, Stays
<1>6. CASE TranscriptionClaim(w) \/ TranscriptionEnds(w)
  BY <1>6 DEF TranscriptionClaim, TranscriptionEnds, Stays
<1>7. CASE HorseRaise(w)
  BY <1>7 DEF HorseRaise, JobRaises, Failure, Leaves
<1>8. CASE HorseFinish(w)
  BY <1>8 DEF HorseFinish, Complete, Leaves
<1>9. CASE HorseKilled(w)
  BY <1>1, <1>9 DEF HorseKilled, JobRaises, Failure, WorkerDies, StopDelivered, Leaves
<1> QED BY <1>2, <1>3, <1>4, <1>5, <1>6, <1>7, <1>8, <1>9 DEF Horse

\* A job Redis handles on its own is run by no horse, and not queued again
\* without a scheduler.
LEMMA RedisMoves ==
  ASSUME TypeOK, ~WithScheduler, NEW j \in JobIds, Redis(j)
  PROVE  /\ UNCHANGED <<running, sessionVars, jobVars, requestVars, horseVars>>
         /\ rq[j] \in {"queued", "scheduled"} \/ Abandoned(j)
         /\ \E status \in {"scheduled", "failed", "gone"} : rq' = [rq EXCEPT ![j] = status]
BY DEF Redis, Reap, Failure, Requeue, JobLost

LEMMA HorsesRunStep ==
  ASSUME TypeOK, HorsesKnowTheirJob, HorsesRun, OneWorker, ~WithScheduler, Next
  PROVE  HorsesRun'
<1>1. /\ rq \in [JobIds -> RqStatus]
      /\ running \in [Workers -> JobIds \cup {NoJob}]
      /\ wstep \in [Workers -> Steps]
      /\ NoJob \notin JobIds
  BY QueueAssumption DEF TypeOK, QueueTypeOK, Steps
<1>2. ASSUME NEW r \in Requests, Request(r) PROVE HorsesRun'
  <2>1. \A w \in Workers : wstep[w] # "idle" => Kind(w)' = Kind(w)
    BY <1>2, RequestLeavesHorses
  <2>2. \A w \in Workers : wstep[w] # "idle" => running[w] \in JobIds
    BY DEF HorsesKnowTheirJob
  <2> QED BY <1>2, <2>1, <2>2, RequestQueue DEF HorsesRun
<1>3. ASSUME NEW w \in Workers, Horse(w) PROVE HorsesRun'
  <2>1. CASE \E j \in JobIds : Starts(w, j)
    BY <1>1, <2>1 DEF HorsesRun, Starts, OneWorker
  <2>2. CASE Stays(w)
    <3>1. UNCHANGED <<rq, running, jkind>> /\ wstep[w] # "idle" /\ wstep'[w] # "idle"
      BY <1>1, <2>2 DEF Stays, queueVars, jobVars
    <3>2. wstep'[w] = "transcribe" => Kind(w) = "transcription"
      BY <1>1, <1>3, <2>2
      DEF Horse, HorseStart, LoadText, LoadCharacters, LoadCharactersSource, LoadSource,
          LoadSummary, HorseCall, HorsePersist, TranscriptionClaim, TranscriptionEnds,
          HorseRaise, HorseFinish, HorseKilled, HorseGoes, HorseEnds
    <3> QED BY <3>1, <3>2 DEF HorsesRun, OneWorker, Kind
  <2>3. CASE Leaves(w)
    BY <1>1, <2>3 DEF HorsesRun, Leaves, OneWorker
  <2> QED BY <1>3, <2>1, <2>2, <2>3, HorseMoves
<1>4. ASSUME NEW j \in JobIds, Redis(j) PROVE HorsesRun'
  <2>1. \A w \in Workers : wstep[w] # "idle" => running[w] # j
    BY <1>4, RedisMoves DEF HorsesRun, Abandoned
  <2>2. \A w \in Workers : wstep[w] # "idle" => running[w] \in JobIds
    BY DEF HorsesKnowTheirJob
  <2>3. UNCHANGED <<running, wstep, jkind>>
    BY <1>4, RedisMoves DEF jobVars, horseVars
  <2>4. \A i \in JobIds \ {j} : rq'[i] = rq[i]
    BY <1>1, <1>4, RedisMoves
  <2> QED BY <2>1, <2>2, <2>3, <2>4 DEF HorsesRun, Kind
<1> QED BY <1>2, <1>3, <1>4 DEF Next

----------------------------------------------------------------------------
(* One transcription at a time.                                            *)

FewerPending == \A j \in JobIds : Pending(j)' => Pending(j)

LEMMA FewerPendingStep ==
  ASSUME PendingOnce, FewerPending,
         \/ state' = state
         \/ state' \notin {"transcribed", "transcription_failed"}
         \/ \A j \in JobIds : ~Pending(j)'
  PROVE  PendingOnce'
BY DEF PendingOnce, FewerPending

\* An edit of the transcript, or its removal, is of the published transcription.
LEMMA RequestPublished ==
  ASSUME TypeOK, TypeOK', HorsesKnowTheirJob, VersionsKnown, PublishedInv, Serial,
         NEW r \in Requests, Request(r)
  PROVE  PendingOnce' /\ RequestsAct' /\ EditIsPublished'
<1> USE DEF sessionVars, sourceVars
<1>1. \A q \in Requests : q = r
  BY DEF Serial, OneRequest
<1>2. /\ HorsesRun /\ PendingOnce /\ RequestsAct /\ EditIsPublished
      /\ UNCHANGED <<running, wstep>>
  BY RequestQueue DEF PublishedInv
<1>3. /\ rq \in [JobIds -> RqStatus] /\ jkind \in [JobIds -> JobKinds \cup {"none"}]
      /\ rstep \in [Requests -> {"idle", "post_enqueue", "post_commit", "edit",
                                 "transcript", "mapping", "purge", "restart", "delete"}]
      /\ base \in Nat /\ edit \in Nat /\ clock \in Nat
  BY DEF TypeOK, QueueTypeOK
<1>4. ASSUME rstep'[r] = "idle"
      PROVE  RequestsAct'
  BY <1>1, <1>4 DEF RequestsAct
<1>5. ASSUME UNCHANGED <<rq, jkind>>
      PROVE  FewerPending
  BY <1>2, <1>5 DEF FewerPending, Pending
<1>6. CASE PostEnqueue(r)
  <2>1. PICK j \in JobIds : NewJob(j, rkind[r], rforce[r])
    BY <1>6 DEF PostEnqueue
  <2>2. rkind[r] # "transcription"
    BY <1>6, ArtifactsAssumption DEF PostEnqueue, TypeOK
  <2>3. /\ rq' = [rq EXCEPT ![j] = "queued"]
        /\ jkind' = [jkind EXCEPT ![j] = rkind[r]]
    BY <2>1 DEF NewJob, Enqueue
  <2>4. FewerPending
    BY <1>2, <1>3, <2>2, <2>3 DEF FewerPending, Pending
  <2>5. UNCHANGED <<exists, state, base, edit>> /\ rstep' = [rstep EXCEPT ![r] = "post_commit"]
    BY <1>6 DEF PostEnqueue
  <2>6. RequestsAct'
    BY <1>1, <1>3, <2>5 DEF RequestsAct
  <2> QED BY <1>2, <2>4, <2>5, <2>6, FewerPendingStep DEF EditIsPublished
<1>7. CASE RestartCommit(r)
  <2>1. /\ exists /\ \A j \in JobIds : ~Pending(j)
    BY <1>2, <1>7 DEF RestartCommit, RequestsAct, PendingOnce
  <2>2. PICK j \in JobIds : /\ NewJob(j, "transcription", FALSE)
                            /\ OutputsDropped /\ state' = "audio_uploaded"
    BY <1>7, <2>1 DEF RestartCommit
  <2>3. /\ rq' = [rq EXCEPT ![j] = "queued"]
        /\ jkind' = [jkind EXCEPT ![j] = "transcription"]
    BY <2>2 DEF NewJob, Enqueue
  <2>4. \A i \in JobIds : Pending(i)' => i = j
    BY <1>2, <1>3, <2>1, <2>3 DEF Pending
  <2>5. PendingOnce' /\ EditIsPublished'
    BY <2>2, <2>4 DEF PendingOnce, EditIsPublished, OutputsDropped
  <2>6. rstep'[r] = "idle"
    BY <1>3, <1>7 DEF RestartCommit, RequestEnds
  <2> QED BY <1>4, <2>5, <2>6
<1>8. CASE DeleteAbort(r)
  <2>1. \A j \in JobIds : rq'[j] = "queued" => rq[j] = "queued"
    BY <1>3, <1>8 DEF DeleteAbort, Abort
  <2>2. FewerPending
    BY <1>2, <1>8, <2>1 DEF FewerPending, Pending, DeleteAbort, jobVars
  <2>3. UNCHANGED <<exists, state, base, edit>> /\ rstep'[r] = "delete"
    BY <1>3, <1>8 DEF DeleteAbort, RequestBegins
  <2>4. RequestsAct'
    BY <1>1, <2>3 DEF RequestsAct
  <2> QED BY <1>2, <2>2, <2>3, <2>4, FewerPendingStep DEF EditIsPublished
<1>9. CASE PostCheck(r) \/ EditCheck(r) \/ TranscriptEditCheck(r) \/ MappingCheck(r)
           \/ PurgeCheck(r) \/ RestartCheck(r)
  <2>1. UNCHANGED <<rq, jkind, exists, state, base, edit>>
    BY <1>9 DEF PostCheck, EditCheck, TranscriptEditCheck, MappingCheck, PurgeCheck,
                RestartCheck, queueVars, jobVars
  <2>2. /\ rstep'[r] = "transcript" => exists /\ state = "transcribed"
        /\ rstep'[r] = "restart" =>
             exists /\ state \in {"transcribed", "transcription_failed"}
    BY <1>3, <1>9 DEF PostCheck, EditCheck, TranscriptEditCheck, MappingCheck, PurgeCheck,
                RestartCheck, RequestBegins
  <2>3. RequestsAct'
    BY <1>1, <2>1, <2>2 DEF RequestsAct
  <2> QED BY <1>2, <1>5, <2>1, <2>3, FewerPendingStep DEF EditIsPublished
<1>10. CASE PostCommit(r) \/ EditCommit(r) \/ MappingCommit(r) \/ ApiCrash(r)
  <2>1. UNCHANGED <<rq, jkind, exists, state, base, edit>> /\ rstep'[r] = "idle"
    BY <1>3, <1>10 DEF PostCommit, EditCommit, MappingCommit, ApiCrash, RequestEnds,
                queueVars, jobVars
  <2> QED BY <1>2, <1>4, <1>5, <2>1, FewerPendingStep DEF EditIsPublished
<1>11. CASE TranscriptEditCommit(r)
  <2>1. UNCHANGED <<rq, jkind, state, base>> /\ rstep'[r] = "idle"
    BY <1>3, <1>11 DEF TranscriptEditCommit, RequestEnds, queueVars, jobVars
  <2>2. exists /\ state = "transcribed" /\ edit' = clock + 1
    BY <1>2, <1>11 DEF TranscriptEditCommit, RequestsAct
  <2>3. base <= clock
    BY DEF VersionsKnown
  <2>4. EditIsPublished'
    BY <1>3, <2>1, <2>2, <2>3 DEF EditIsPublished
  <2> QED BY <1>2, <1>4, <1>5, <2>1, <2>4, FewerPendingStep
<1>12. CASE PurgeCommit(r) \/ DeleteCommit(r)
  <2>1. UNCHANGED <<rq, jkind>> /\ rstep'[r] = "idle"
    BY <1>3, <1>12 DEF PurgeCommit, DeleteCommit, RequestEnds, queueVars, jobVars
  <2>2. \/ state' = "created" /\ edit' = 0
        \/ UNCHANGED <<state, base, edit>>
    BY <1>12 DEF PurgeCommit, DeleteCommit, OutputsDropped
  <2>3. EditIsPublished'
    BY <1>2, <2>2 DEF EditIsPublished
  <2> QED BY <1>2, <1>4, <1>5, <2>1, <2>2, <2>3, FewerPendingStep
<1> QED
  BY <1>6, <1>7, <1>8, <1>9, <1>10, <1>11, <1>12 DEF Request, RequestContinues

\* Only the pending transcription publishes or fails.
LEMMA HorsePublished ==
  ASSUME TypeOK, TypeOK', HorsesKnowTheirJob, PublishedInv, Serial,
         NEW w \in Workers, Horse(w)
  PROVE  PendingOnce' /\ RequestsAct' /\ EditIsPublished'
<1> USE DEF sessionVars, sourceVars
<1>1. \A v \in Workers : v = w
  BY DEF Serial, OneWorker
<1>2. HorsesRun /\ PendingOnce /\ RequestsAct /\ EditIsPublished
  BY DEF PublishedInv
<1>3. /\ rq \in [JobIds -> RqStatus] /\ NoJob \notin JobIds
      /\ running \in [Workers -> JobIds \cup {NoJob}] /\ wstep \in [Workers -> Steps]
  BY QueueAssumption DEF TypeOK, QueueTypeOK, Steps
<1>4. CASE TranscriptionClaim(w) \/ TranscriptionEnds(w)
  <2>1. /\ UNCHANGED <<rq, running, jkind, rstep, exists, edit>>
        /\ wstep[w] \in {"load", "transcribe"} /\ wstep'[w] # "idle"
    BY <1>3, <1>4
    DEF TranscriptionClaim, TranscriptionEnds, HorseGoes, queueVars, jobVars, requestVars
  <2>2. running[w] \in JobIds /\ Pending(running[w])
    BY <1>2, <1>4, <2>1
    DEF HorsesKnowTheirJob, HorsesRun, Pending, Kind, TranscriptionClaim, TranscriptionEnds
  <2>3. state \notin {"transcribed", "transcription_failed"}
    BY <1>2, <2>2 DEF PendingOnce
  <2>4. FewerPending
    BY <1>1, <2>1, <2>2 DEF FewerPending, Pending
  <2>5. RequestsAct' /\ EditIsPublished'
    BY <1>2, <2>1, <2>3 DEF RequestsAct, EditIsPublished
  <2>6. ASSUME TranscriptionEnds(w), NEW j \in JobIds
        PROVE  ~Pending(j)'
    <3>1. wstep'[w] \notin {"load", "transcribe"}
      BY <1>3, <2>6 DEF TranscriptionEnds, HorseGoes
    <3>2. rq[running[w]] = "started"
      BY <1>2, <2>1 DEF HorsesRun
    <3>3. Pending(j) => j = running[w]
      BY <1>2, <2>2 DEF PendingOnce
    <3> QED BY <1>1, <2>1, <2>4, <3>1, <3>2, <3>3 DEF Pending, FewerPending
  <2>7. CASE TranscriptionEnds(w)
    BY <1>2, <2>4, <2>5, <2>6, <2>7, FewerPendingStep
  <2>8. CASE TranscriptionClaim(w)
    <3>1. state' \in {state, "transcribing"}
      BY <2>8 DEF TranscriptionClaim
    <3> QED BY <1>2, <2>4, <2>5, <3>1, FewerPendingStep
  <2> QED BY <1>4, <2>7, <2>8
<1>5. CASE ~ (TranscriptionClaim(w) \/ TranscriptionEnds(w))
  <2>1. UNCHANGED <<state, exists, base, edit, rstep, jkind>>
    BY <1>5 DEF Horse, HorseStart, LoadText, LoadCharacters, LoadCharactersSource,
          LoadSource, LoadSummary, LoadSums, HorseCall, HorsePersist, HorseRaise,
          HorseFinish, HorseKilled, jobVars, requestVars
  <2>2. RequestsAct' /\ EditIsPublished'
    BY <1>2, <2>1 DEF RequestsAct, EditIsPublished
  <2>3. CASE \E j \in JobIds : Starts(w, j)
    <3>1. FewerPending
      BY <1>1, <1>3, <2>1, <2>3 DEF Starts, FewerPending, Pending
    <3> QED BY <1>2, <2>1, <2>2, <3>1, FewerPendingStep
  <2>4. CASE Stays(w)
    <3>1. wstep'[w] \notin {"load", "transcribe"}
      BY <1>3, <1>5, <2>4
      DEF Stays, Horse, HorseStart, LoadText, LoadCharacters, LoadCharactersSource,
          LoadSource, LoadSummary, HorseCall, HorsePersist, HorseRaise,
          HorseFinish, HorseKilled, HorseGoes, HorseEnds
    <3>2. FewerPending
      BY <1>1, <2>1, <2>4, <3>1 DEF Stays, FewerPending, Pending, queueVars
    <3> QED BY <1>2, <2>1, <2>2, <3>2, FewerPendingStep
  <2>5. CASE Leaves(w)
    <3>1. FewerPending
      BY <1>1, <1>3, <2>1, <2>5 DEF Leaves, FewerPending, Pending
    <3> QED BY <1>2, <2>1, <2>2, <3>1, FewerPendingStep
  <2> QED BY <2>3, <2>4, <2>5, HorseMoves
<1> QED BY <1>4, <1>5

LEMMA RedisPublished ==
  ASSUME TypeOK, PublishedInv, Serial, NEW j \in JobIds, Redis(j)
  PROVE  PendingOnce' /\ RequestsAct' /\ EditIsPublished'
<1>1. HorsesRun /\ PendingOnce /\ RequestsAct /\ EditIsPublished
  BY DEF PublishedInv
<1>2. UNCHANGED <<running, jkind, wstep, rstep, exists, state, base, edit>>
  BY RedisMoves DEF Serial, sessionVars, sourceVars, jobVars, requestVars, horseVars
<1>3. \A i \in JobIds : rq'[i] = "queued" => rq[i] = "queued"
  BY RedisMoves DEF Serial, TypeOK, QueueTypeOK
<1>4. FewerPending
  BY <1>2, <1>3 DEF FewerPending, Pending
<1> QED BY <1>1, <1>2, <1>4, FewerPendingStep DEF RequestsAct, EditIsPublished

\* With one worker, no scheduler and one request at a time, whatever else fails:
\* one transcription is pending at most, and an edited transcript, or the request
\* that stores one, is of the published one.
THEOREM PublishedHolds ==
  ASSUME Serial
  PROVE  Spec => []PublishedInv
<1>1. OneWorker /\ ~WithScheduler
  BY DEF Serial
<1>2. Init => PublishedInv
  BY DEF Init, QueueInit, PublishedInv, HorsesRun, PendingOnce, RequestsAct,
         EditIsPublished, Pending
<1>3. TypeOK /\ TypeOK' /\ SourcesInv /\ PublishedInv /\ [Next]_vars => PublishedInv'
  <2> SUFFICES ASSUME TypeOK, TypeOK', SourcesInv, PublishedInv, [Next]_vars
               PROVE  PublishedInv'
    OBVIOUS
  <2>1. HorsesKnowTheirJob /\ VersionsKnown /\ HorsesRun
    BY DEF SourcesInv, PublishedInv
  <2>2. CASE UNCHANGED vars
    BY <2>2
    DEF PublishedInv, HorsesRun, PendingOnce, RequestsAct, EditIsPublished, Pending, Kind,
        vars, queueVars, sessionVars, sourceVars, jobVars, requestVars, horseVars
  <2>3. CASE Next
    <3>1. HorsesRun'
      BY <1>1, <2>1, <2>3, HorsesRunStep
    <3>2. PendingOnce' /\ RequestsAct' /\ EditIsPublished'
      BY <2>1, <2>3, RequestPublished, HorsePublished, RedisPublished DEF Next
    <3> QED BY <3>1, <3>2 DEF PublishedInv
  <2> QED BY <2>2, <2>3
<1> QED BY <1>1, <1>2, <1>3, TypeCorrect, SourcesHold, PTL DEF Spec

\* With one worker, no scheduler and one request at a time: what a generation
\* reads is of the published transcription, never of an earlier one.
THEOREM SourcesAreOfTheirTranscription ==
  ASSUME Serial
  PROVE  Spec => []SourceIsOfThisTranscription
<1>1. OneWorker
  BY DEF Serial
<1>2. TypeOK /\ DerivationInv /\ PublishedInv => SourceIsOfThisTranscription
  <2> SUFFICES ASSUME TypeOK, DerivationInv, PublishedInv, Source # 0
               PROVE  Source >= base
    BY DEF SourceIsOfThisTranscription
  <2>1. base \in Nat /\ sums \in Nat /\ edit \in Nat /\ mode \in {"diarised", "non_diarised"}
    BY ArtifactsAssumption DEF TypeOK
  <2> QED
    BY <2>1 DEF Source, PublishedInv, EditIsPublished, DerivationInv, SumsFollowBase
<1> QED BY <1>1, <1>2, TypeCorrect, DerivationHolds, PublishedHolds, PTL

----------------------------------------------------------------------------
(* The order of the queue.                                                 *)

Order == IdsInOrder /\ FirstInFirstOut /\ TranscriptionsLast

LEMMA InLineStatus ==
  ASSUME TypeOK, HorsesRun, NEW j \in JobIds
  PROVE  /\ Waiting(j) => InLine(j)
         /\ InLine(j) => rq[j] \in {"queued", "started"}
BY QueueAssumption DEF HorsesRun, Waiting, InLine

LEMMA OrderUnchanged ==
  ASSUME Order, UNCHANGED <<rq, running, wstep, jkind>>
  PROVE  Order'
BY DEF Order, IdsInOrder, FirstInFirstOut, TranscriptionsLast, InLine, Waiting,
       Generates, Pending

\* The next identifier is after all those in use.
LEMMA NewJobIsLast ==
  ASSUME TypeOK, IdsInOrder, NEW n \in JobIds, NEW kind, NEW force, NewJob(n, kind, force),
         NEW j \in JobIds, rq[j] # "none"
  PROVE  j < n
<1>1. j \in Nat /\ n \in Nat /\ j # n /\ rq[n] = "none"
  BY ArtifactsAssumption DEF NewJob, Enqueue
<1>2. ~ (n < j)
  BY <1>1 DEF IdsInOrder
<1> QED BY <1>1, <1>2

\* A job is enqueued when no transcription is pending.
LEMMA OrderEnqueued ==
  ASSUME TypeOK, HorsesRun, Order, NEW n \in JobIds, NEW kind, NEW force,
         NewJob(n, kind, force), UNCHANGED wstep, \A j \in JobIds : ~Pending(j)
  PROVE  Order'
<1>1. /\ rq[n] = "none" /\ rq' = [rq EXCEPT ![n] = "queued"]
      /\ jkind' = [jkind EXCEPT ![n] = kind]
      /\ UNCHANGED <<running, wstep>>
      /\ \A i \in JobIds : rq[i] = "none" => n <= i
  BY DEF NewJob, Enqueue
<1>2. /\ rq \in [JobIds -> RqStatus] /\ jkind \in [JobIds -> JobKinds \cup {"none"}]
      /\ JobIds \subseteq Nat
  BY ArtifactsAssumption DEF TypeOK, QueueTypeOK
<1>3. IdsInOrder'
  <2> SUFFICES ASSUME NEW i \in JobIds, NEW j \in JobIds, i < j, rq'[i] = "none"
               PROVE  rq'[j] = "none"
    BY DEF IdsInOrder
  <2>1. i # n /\ rq[i] = "none" /\ n <= i
    BY <1>1, <1>2
  <2>2. j # n /\ rq[j] = "none"
    BY <1>2, <2>1 DEF Order, IdsInOrder
  <2> QED BY <1>1, <1>2, <2>2
<1>4. FirstInFirstOut'
  <2> SUFFICES ASSUME NEW i \in JobIds, NEW j \in JobIds, InLine(i)', i < j
               PROVE  rq'[j] \in {"none", "queued", "canceled"}
    BY DEF FirstInFirstOut
  <2>1. CASE j = n
    BY <1>1, <1>2, <2>1
  <2>2. CASE j # n /\ i = n
    BY <1>1, <1>2, <2>2 DEF Order, IdsInOrder
  <2>3. CASE j # n /\ i # n
    <3>1. InLine(i) /\ rq'[j] = rq[j]
      BY <1>1, <1>2, <2>3 DEF InLine
    <3> QED BY <3>1 DEF Order, FirstInFirstOut
  <2> QED BY <2>1, <2>2, <2>3
<1>5. TranscriptionsLast'
  <2> SUFFICES ASSUME NEW i \in JobIds, NEW j \in JobIds,
                      Pending(j)', Waiting(i)', Generates(i)'
               PROVE  i < j
    BY DEF TranscriptionsLast
  <2>1. j = n /\ kind = "transcription"
    BY <1>1, <1>2 DEF Pending
  <2>2. i # n
    BY <1>2, <1>1, <2>1, ArtifactsAssumption DEF Generates
  <2>3. rq[i] # "none"
    <3>1. Waiting(i)
      BY <1>1, <1>2, <2>2 DEF Waiting
    <3> QED BY <3>1, InLineStatus
  <2> QED BY <2>1, <2>3, NewJobIsLast DEF Order
<1> QED BY <1>3, <1>4, <1>5 DEF Order

\* Jobs before the one that runs have left the line.
LEMMA RunningIsFirst ==
  ASSUME TypeOK, HorsesRun, Order, OneWorker, NEW w \in Workers, running[w] # NoJob,
         NEW j \in JobIds, InLine(j)
  PROVE  running[w] <= j
<1>1. running[w] \in JobIds /\ rq[running[w]] = "started" /\ JobIds \subseteq Nat
  BY ArtifactsAssumption DEF TypeOK, QueueTypeOK, HorsesRun
<1>2. ~ (j < running[w])
  BY <1>1 DEF Order, FirstInFirstOut
<1>3. running[w] \in Nat /\ j \in Nat
  BY <1>1
<1> QED BY <1>2, <1>3

LEMMA OrderStarts ==
  ASSUME TypeOK, HorsesRun, Order, Serial, NEW w \in Workers, NEW n \in JobIds, Starts(w, n)
  PROVE  Order'
<1>1. \A v \in Workers : v = w
  BY DEF Serial, OneWorker
<1>2. /\ rq \in [JobIds -> RqStatus] /\ running \in [Workers -> JobIds \cup {NoJob}]
      /\ wstep \in [Workers -> Steps]
      /\ JobIds \subseteq Nat /\ NoJob \notin JobIds
  BY ArtifactsAssumption, QueueAssumption DEF TypeOK, QueueTypeOK, Steps
<1>3. /\ running[w] = NoJob /\ running' = [running EXCEPT ![w] = n]
      /\ wstep' = [wstep EXCEPT ![w] = "load"]
      /\ rq[n] = "queued" /\ rq' = [rq EXCEPT ![n] = "started"]
      /\ UNCHANGED jkind
  BY DEF Starts, jobVars
<1>4. \A i \in JobIds : rq[i] = "queued" => n <= i
  BY DEF Starts, NextQueued, Serial
<1>5. \A i \in JobIds : /\ InLine(i)' => rq[i] = "queued"
                        /\ Waiting(i)' => Waiting(i)
                        /\ Pending(i)' => Pending(i)
  BY <1>1, <1>2, <1>3 DEF InLine, Waiting, Pending
<1>6. IdsInOrder'
  BY <1>2, <1>3 DEF Order, IdsInOrder
<1>7. FirstInFirstOut'
  <2> SUFFICES ASSUME NEW i \in JobIds, NEW j \in JobIds, InLine(i)', i < j
               PROVE  rq'[j] \in {"none", "queued", "canceled"}
    BY DEF FirstInFirstOut
  <2>1. n <= i /\ InLine(i)
    BY <1>4, <1>5 DEF InLine
  <2>2. j # n
    BY <1>2, <2>1
  <2> QED BY <1>2, <1>3, <2>1, <2>2 DEF Order, FirstInFirstOut
<1>8. TranscriptionsLast'
  BY <1>3, <1>5 DEF Order, TranscriptionsLast, Generates
<1> QED BY <1>6, <1>7, <1>8 DEF Order

\* A job that runs, or whose horse has died, leaves: no job before it is in line.
LEMMA OrderLeft ==
  ASSUME TypeOK, Order, NEW c \in JobIds,
         NEW status \in {"scheduled", "failed", "finished", "stopped", "gone"},
         rq[c] = "started", rq' = [rq EXCEPT ![c] = status] \/ UNCHANGED rq,
         \A j \in JobIds : InLine(j)' => InLine(j),
         \A j \in JobIds : Waiting(j)' => Waiting(j),
         FewerPending, UNCHANGED jkind
  PROVE  Order'
<1>1. rq \in [JobIds -> RqStatus] /\ JobIds \subseteq Nat
  BY ArtifactsAssumption DEF TypeOK, QueueTypeOK
<1>2. IdsInOrder'
  BY <1>1 DEF Order, IdsInOrder
<1>3. FirstInFirstOut'
  <2> SUFFICES ASSUME NEW i \in JobIds, NEW j \in JobIds, InLine(i)', i < j
               PROVE  rq'[j] \in {"none", "queued", "canceled"}
    BY DEF FirstInFirstOut
  <2>1. rq[j] \in {"none", "queued", "canceled"}
    BY DEF Order, FirstInFirstOut
  <2> QED BY <1>1, <2>1
<1>4. TranscriptionsLast'
  BY DEF Order, TranscriptionsLast, FewerPending, Generates
<1> QED BY <1>2, <1>3, <1>4 DEF Order

----------------------------------------------------------------------------
(* Requests and edits.                                                     *)

Replaces(j) == Waiting(j) /\ Generates(j) /\ ~jforce[j]

\* A step that leaves the queue, the current job, the state and the artifacts.
LEMMA SafeStays ==
  ASSUME NEW j \in JobIds, Safe(j),
         UNCHANGED <<rq, running, wstep, jkind, currentJob, state, artifact>>,
         Covered(j) => Covered(j)'
  PROVE  Safe(j)'
<1>1. Hopeless(j) => Hopeless(j)'
  BY DEF Hopeless, Holding
<1>2. Bare(j) => Bare(j)'
  BY DEF Bare, Holding
<1>3. Unedited(jkind[j]) => Unedited(jkind[j])'
  BY DEF Unedited
<1> QED BY <1>1, <1>2, <1>3 DEF Safe

LEMMA ReplacesStays ==
  ASSUME NEW j \in JobIds, UNCHANGED <<rq, running, wstep, jkind, jforce>>
  PROVE  Replaces(j)' = Replaces(j)
BY DEF Replaces, Waiting, Generates

\* A check reads the session and the queue, and changes neither.
LEMMA CheckEdits ==
  ASSUME TypeOK, EditsInv, Serial, NEW r \in Requests,
         \/ PostCheck(r) \/ EditCheck(r) \/ TranscriptEditCheck(r) \/ MappingCheck(r)
         \/ PurgeCheck(r) \/ RestartCheck(r)
  PROVE  EditsInv'
<1>1. \A q \in Requests : q = r
  BY DEF Serial, OneRequest
<1>2. UNCHANGED <<rq, running, wstep, jkind, jforce, currentJob, state, artifact, exists>>
  BY DEF PostCheck, EditCheck, TranscriptEditCheck, MappingCheck, PurgeCheck,
         RestartCheck, queueVars, sessionVars, jobVars, horseVars
<1>3. /\ rstep[r] = "idle"
      /\ rstep'[r] \in {"post_enqueue", "edit", "transcript", "mapping", "purge", "restart"}
  BY DEF PostCheck, EditCheck, TranscriptEditCheck, MappingCheck, PurgeCheck,
         RestartCheck, RequestBegins, TypeOK
<1>4. Order'
  BY <1>2, OrderUnchanged DEF EditsInv, Order
<1>5. NothingCanceled'
  BY <1>1, <1>2, <1>3 DEF EditsInv, NothingCanceled
<1>6. GenerationBusy' = GenerationBusy
  BY <1>2 DEF GenerationBusy, Active
<1>7. RequestsKnow'
  <2>1. /\ rkind \in [Requests -> Kinds \cup JobKinds \cup {"none"}]
        /\ rforce \in [Requests -> BOOLEAN]
        /\ rstep \in [Requests -> {"idle", "post_enqueue", "post_commit", "edit",
                                   "transcript", "mapping", "purge", "restart", "delete"}]
    BY DEF TypeOK
  <2>2. CASE PostCheck(r)
    <3>1. PICK kind \in ArtifactJobKinds, force \in Forces :
            /\ Prerequisites(kind) /\ RegenerationAllowed(kind, force)
            /\ RequestBegins(r, "post_enqueue", kind, force)
      BY <2>2 DEF PostCheck
    <3>2. rkind'[r] = kind /\ rforce'[r] = force /\ rstep'[r] = "post_enqueue"
      BY <2>1, <3>1 DEF RequestBegins
    <3>3. exists' /\ state' = "transcribed"
      BY <1>2, <3>1 DEF Prerequisites
    <3>4. rforce'[r] \/ Unedited(rkind[r])'
      BY <1>2, <3>1, <3>2 DEF RegenerationAllowed, Unedited
    <3> QED BY <1>1, <3>2, <3>3, <3>4 DEF RequestsKnow
  <2>3. CASE EditCheck(r)
    <3>1. rkind'[r] \in Kinds /\ rstep'[r] = "edit" /\ ~GenerationBusy
      BY <2>1, <2>3 DEF EditCheck, RequestBegins
    <3> QED BY <1>1, <1>6, <3>1 DEF RequestsKnow
  <2>4. CASE ~ (PostCheck(r) \/ EditCheck(r))
    <3>1. rstep'[r] \in {"transcript", "mapping", "purge", "restart"}
      BY <2>1, <2>4 DEF TranscriptEditCheck, MappingCheck, PurgeCheck, RestartCheck,
                        RequestBegins
    <3> QED BY <1>1, <3>1 DEF RequestsKnow
  <2> QED BY <2>2, <2>3, <2>4
<1>8. UnforcedJobsAreSafe'
  <2> SUFFICES ASSUME NEW j \in JobIds, Replaces(j)' PROVE Safe(j)'
    BY DEF UnforcedJobsAreSafe, Replaces
  <2>1. Safe(j)
    BY <1>2, ReplacesStays DEF EditsInv, UnforcedJobsAreSafe, Replaces
  <2>2. Covered(j) => Covered(j)'
    BY <1>1, <1>2, <1>3, <1>6 DEF Covered
  <2> QED BY <1>2, <2>1, <2>2, SafeStays
<1> QED BY <1>4, <1>5, <1>7, <1>8 DEF EditsInv, Order

\* A generation is enqueued: no edit is in progress, and none was there.
LEMMA PostEnqueueEdits ==
  ASSUME TypeOK, PublishedInv, EditsInv, Serial, NEW r \in Requests, PostEnqueue(r)
  PROVE  EditsInv'
<1>1. \A q \in Requests : q = r
  BY DEF Serial, OneRequest
<1>2. PICK n \in JobIds : /\ NewJob(n, rkind[r], rforce[r])
                          /\ rjob' = [rjob EXCEPT ![r] = n]
  BY DEF PostEnqueue
<1>3. /\ UNCHANGED <<exists, state, artifact, currentJob, running, wstep, rkind, rforce>>
      /\ rq[n] = "none" /\ rq' = [rq EXCEPT ![n] = "queued"]
      /\ jkind' = [jkind EXCEPT ![n] = rkind[r]]
      /\ jforce' = [jforce EXCEPT ![n] = rforce[r]]
      /\ rstep[r] = "post_enqueue" /\ rstep' = [rstep EXCEPT ![r] = "post_commit"]
  BY <1>2 DEF PostEnqueue, NewJob, Enqueue, sessionVars, horseVars
<1>4. /\ rq \in [JobIds -> RqStatus] /\ jkind \in [JobIds -> JobKinds \cup {"none"}]
      /\ jforce \in [JobIds -> BOOLEAN] /\ rjob \in [Requests -> JobIds \cup {NoJob}]
      /\ rstep \in [Requests -> {"idle", "post_enqueue", "post_commit", "edit",
                                 "transcript", "mapping", "purge", "restart", "delete"}]
      /\ rkind[r] \in ArtifactJobKinds
  BY <1>3 DEF TypeOK, QueueTypeOK
<1>5. /\ exists /\ state = "transcribed" /\ (rforce[r] \/ Unedited(rkind[r]))
  BY <1>3 DEF EditsInv, RequestsKnow
<1>6. \A j \in JobIds : ~Pending(j)
  BY <1>5 DEF PublishedInv, PendingOnce
<1>7. Order'
  BY <1>2, <1>3, <1>6, OrderEnqueued DEF EditsInv, Order, PublishedInv
<1>8. rstep'[r] = "post_commit" /\ rjob'[r] = n /\ rq'[n] = "queued" /\ jkind'[n] = rkind[r]
      /\ jforce'[n] = rforce[r]
  BY <1>2, <1>3, <1>4
<1>9. NothingCanceled'
  BY <1>1, <1>3, <1>4 DEF EditsInv, NothingCanceled
<1>10. RequestsKnow'
  <2>1. ASSUME NEW j \in JobIds, InLine(j)'
        PROVE  j <= n
    <3>1. CASE j = n
      BY <3>1, ArtifactsAssumption
    <3>2. CASE j # n
      <4>1. InLine(j)
        BY <1>3, <1>4, <2>1, <3>2 DEF InLine
      <4>2. rq[j] # "none"
        BY <4>1, InLineStatus DEF PublishedInv
      <4>3. j < n
        BY <1>2, <4>2, NewJobIsLast DEF EditsInv
      <4>4. j \in Nat /\ n \in Nat
        BY ArtifactsAssumption
      <4> QED BY <4>3, <4>4
    <3> QED BY <3>1, <3>2
  <2> QED BY <1>1, <1>3, <1>4, <1>5, <1>8, <2>1 DEF RequestsKnow, Generates
<1>11. UnforcedJobsAreSafe'
  <2> SUFFICES ASSUME NEW j \in JobIds, Replaces(j)' PROVE Safe(j)'
    BY DEF UnforcedJobsAreSafe, Replaces
  <2>1. Covered(j)'
    BY <1>8 DEF Covered
  <2>2. CASE j = n
    <3>1. Unedited(jkind[j])'
      BY <1>3, <1>5, <1>8, <2>2 DEF Replaces, Unedited
    <3> QED BY <2>1, <3>1 DEF Safe
  <2>3. CASE j # n
    <3>1. rq'[j] = rq[j] /\ jkind'[j] = jkind[j] /\ jforce'[j] = jforce[j]
      BY <1>3, <1>4, <2>3
    <3>2. Safe(j)
      BY <1>3, <3>1 DEF EditsInv, UnforcedJobsAreSafe, Replaces, Waiting, Generates
    <3>3. Bare(j) => Bare(j)'
      BY <1>3 DEF Bare, Holding
    <3>4. Unedited(jkind[j]) => Unedited(jkind[j])'
      BY <1>3, <3>1 DEF Unedited
    <3> QED BY <1>5, <2>1, <3>2, <3>3, <3>4 DEF Safe, Hopeless
  <2> QED BY <2>2, <2>3
<1> QED BY <1>7, <1>9, <1>10, <1>11 DEF EditsInv, Order

\* The job becomes the current one: it is not older than any in line, so it is
\* active as long as one of them is.
LEMMA PostCommitEdits ==
  ASSUME TypeOK, PublishedInv, EditsInv, Serial, NEW r \in Requests, PostCommit(r)
  PROVE  EditsInv'
<1> DEFINE n == rjob[r]
<1>1. \A q \in Requests : q = r
  BY DEF Serial, OneRequest
<1>2. /\ UNCHANGED <<rq, running, wstep, jkind, jforce, state, artifact, exists>>
      /\ rstep[r] = "post_commit" /\ rstep'[r] = "idle"
  BY DEF PostCommit, RequestEnds, queueVars, jobVars, horseVars, TypeOK
<1>3. /\ exists /\ n \in JobIds /\ Generates(n) /\ rq[n] \notin {"none", "canceled"}
      /\ \A j \in JobIds : InLine(j) => j <= n
  BY <1>2 DEF EditsInv, RequestsKnow
<1>4. currentJob' = n
  BY <1>3 DEF PostCommit
<1>5. Order'
  BY <1>2, OrderUnchanged DEF EditsInv, Order
<1>6. NothingCanceled' /\ RequestsKnow'
  BY <1>1, <1>2 DEF EditsInv, NothingCanceled, RequestsKnow
<1>7. UnforcedJobsAreSafe'
  <2> SUFFICES ASSUME NEW j \in JobIds, Replaces(j)' PROVE Safe(j)'
    BY DEF UnforcedJobsAreSafe, Replaces
  <2>1. Replaces(j) /\ Safe(j)
    BY <1>2, ReplacesStays DEF EditsInv, UnforcedJobsAreSafe, Replaces
  <2>2. InLine(j) /\ rq[j] \in {"queued", "started"} /\ j <= n
    BY <1>3, <2>1, InLineStatus DEF Replaces, PublishedInv
  <2>3. rq[n] \in {"queued", "started"}
    <3>1. CASE j = n
      BY <2>2, <3>1
    <3>2. CASE j # n
      <4>1. j \in Nat /\ n \in Nat
        BY <1>3, ArtifactsAssumption
      <4> HIDE DEF n
      <4>2. j < n
        BY <2>2, <3>2, <4>1
      <4> QED BY <1>3, <2>2, <4>2 DEF EditsInv, FirstInFirstOut
    <3> QED BY <3>1, <3>2
  <2>4. GenerationBusy'
    BY <1>2, <1>3, <1>4, <2>3, QueueAssumption
    DEF GenerationBusy, Active, ActiveStatuses, Generates
  <2>5. Covered(j)'
    BY <1>4, <2>2, <2>4 DEF Covered
  <2>6. Hopeless(j) => Hopeless(j)'
    BY <1>2 DEF Hopeless, Holding
  <2>7. Bare(j) => Bare(j)'
    BY <1>2 DEF Bare, Holding
  <2>8. Unedited(jkind[j]) => Unedited(jkind[j])'
    BY <1>2 DEF Unedited
  <2> QED BY <2>1, <2>5, <2>6, <2>7, <2>8 DEF Safe
<1> QED BY <1>5, <1>6, <1>7 DEF EditsInv, Order

\* An edit is stored while no current generation is active: the jobs in line
\* find no transcribed session, or every artifact was dropped under their hands.
LEMMA EditCommitEdits ==
  ASSUME TypeOK, EditsInv, Serial, NEW r \in Requests, EditCommit(r)
  PROVE  EditsInv'
<1>1. \A q \in Requests : q = r
  BY DEF Serial, OneRequest
<1>2. /\ UNCHANGED <<rq, running, wstep, jkind, jforce, currentJob, state, exists>>
      /\ rstep[r] = "edit" /\ rstep'[r] = "idle"
      /\ artifact' = EditedArtifact(rkind[r])
  BY DEF EditCommit, RequestEnds, queueVars, jobVars, horseVars, TypeOK
<1>3. rkind[r] \in Kinds /\ ~GenerationBusy
  BY <1>2 DEF EditsInv, RequestsKnow
<1>4. Order'
  BY <1>2, OrderUnchanged DEF EditsInv, Order
<1>5. NothingCanceled' /\ RequestsKnow'
  BY <1>1, <1>2 DEF EditsInv, NothingCanceled, RequestsKnow
<1>6. UnforcedJobsAreSafe'
  <2> SUFFICES ASSUME NEW j \in JobIds, Replaces(j)' PROVE Safe(j)'
    BY DEF UnforcedJobsAreSafe, Replaces
  <2>1. Safe(j)
    BY <1>2, ReplacesStays DEF EditsInv, UnforcedJobsAreSafe, Replaces
  <2>2. ~Covered(j)
    BY <1>1, <1>2, <1>3 DEF Covered
  <2>3. Hopeless(j) => Hopeless(j)'
    BY <1>2 DEF Hopeless, Holding
  <2>4. ASSUME Bare(j) PROVE Bare(j)'
    <3>1. ~Has(rkind[r])
      BY <1>3, <2>4 DEF Bare, Has
    <3>2. artifact' = artifact
      BY <1>2, <3>1 DEF EditedArtifact
    <3> QED BY <1>2, <2>4, <3>2 DEF Bare, Holding
  <2> QED BY <2>1, <2>2, <2>3, <2>4 DEF Safe
<1> QED BY <1>4, <1>5, <1>6 DEF EditsInv, Order

\* The transcript and the mapping: at most points of view are dropped.
LEMMA SourceCommitEdits ==
  ASSUME TypeOK, EditsInv, Serial, NEW r \in Requests,
         TranscriptEditCommit(r) \/ MappingCommit(r)
  PROVE  EditsInv'
<1>1. \A q \in Requests : q = r
  BY DEF Serial, OneRequest
<1>2. /\ UNCHANGED <<rq, running, wstep, jkind, jforce, currentJob, state, exists>>
      /\ rstep[r] \in {"transcript", "mapping"} /\ rstep'[r] = "idle"
      /\ artifact' = artifact \/ artifact' = Dropped(Pjs)
  BY DEF TranscriptEditCommit, MappingCommit, Mapped, RequestEnds, queueVars, jobVars,
         horseVars, TypeOK
<1>3. Order'
  BY <1>2, OrderUnchanged DEF EditsInv, Order
<1>4. NothingCanceled' /\ RequestsKnow'
  BY <1>1, <1>2 DEF EditsInv, NothingCanceled, RequestsKnow
<1>5. UnforcedJobsAreSafe'
  <2> SUFFICES ASSUME NEW j \in JobIds, Replaces(j)' PROVE Safe(j)'
    BY DEF UnforcedJobsAreSafe, Replaces
  <2>1. Safe(j) /\ Replaces(j)
    BY <1>2, ReplacesStays DEF EditsInv, UnforcedJobsAreSafe, Replaces
  <2>2. GenerationBusy' = GenerationBusy
    BY <1>2 DEF GenerationBusy, Active
  <2>3. Covered(j) => Covered(j)'
    BY <1>1, <1>2, <2>2 DEF Covered
  <2>4. Hopeless(j) => Hopeless(j)'
    BY <1>2 DEF Hopeless, Holding
  <2>5. ASSUME Bare(j) PROVE Bare(j)'
    <3>1. artifact = [k \in Kinds |-> NoArtifact]
      BY <2>5 DEF Bare
    <3>2. Dropped(Pjs) = [k \in Kinds |-> NoArtifact]
      BY <3>1 DEF Dropped
    <3>3. artifact' = [k \in Kinds |-> NoArtifact]
      BY <1>2, <3>1, <3>2
    <3> QED BY <1>2, <2>5, <3>3 DEF Bare, Holding
  <2>6. Affected(jkind[j]) \subseteq Kinds
    BY <2>1, ArtifactsAssumption DEF Replaces, Generates, Affected
  <2>7. Unedited(jkind[j]) => Unedited(jkind[j])'
    <3>1. \A k \in Kinds : Dropped(Pjs)[k] = artifact[k] \/ ~Dropped(Pjs)[k].edited
      BY DEF Dropped
    <3>2. \A k \in Kinds : artifact'[k] = artifact[k] \/ ~artifact'[k].edited
      BY <1>2, <3>1
    <3>3. jkind'[j] = jkind[j] /\ Affected(jkind[j])' = Affected(jkind[j])
      BY <1>2 DEF Affected
    <3> QED BY <2>6, <3>2, <3>3 DEF Unedited
  <2> QED BY <2>1, <2>3, <2>4, <2>5, <2>7 DEF Safe
<1> QED BY <1>3, <1>4, <1>5 DEF EditsInv, Order

\* Every output is dropped, from a session that is not transcribed any more.
LEMMA DroppedIsSafe ==
  ASSUME OutputsDropped, state' # "transcribed", UNCHANGED <<running, wstep>>,
         NEW j \in JobIds
  PROVE  Safe(j)'
<1>1. artifact' = [k \in Kinds |-> NoArtifact]
  BY DEF OutputsDropped, Dropped
<1>2. CASE \E w \in Workers : running[w] = j /\ Holding(w)
  BY <1>1, <1>2 DEF Safe, Bare, Holding
<1>3. CASE \A w \in Workers : running[w] = j => ~Holding(w)
  BY <1>3 DEF Safe, Hopeless, Holding
<1> QED BY <1>2, <1>3

LEMMA DropEdits ==
  ASSUME TypeOK, EditsInv, Serial, NEW r \in Requests, PurgeCommit(r) \/ DeleteCommit(r)
  PROVE  EditsInv'
<1>1. \A q \in Requests : q = r
  BY DEF Serial, OneRequest
<1>2. /\ UNCHANGED <<rq, running, wstep, jkind, jforce>>
      /\ rstep[r] \in {"purge", "delete"} /\ rstep'[r] = "idle"
      /\ exists' => rstep[r] = "purge" /\ exists
      /\ \/ OutputsDropped /\ state' # "transcribed"
         \/ rstep[r] = "purge" /\ UNCHANGED <<currentJob, state, artifact>>
  BY DEF PurgeCommit, DeleteCommit, RequestEnds, queueVars, jobVars, horseVars, TypeOK
<1>3. Order'
  BY <1>2, OrderUnchanged DEF EditsInv, Order
<1>4. NothingCanceled' /\ RequestsKnow'
  BY <1>1, <1>2 DEF EditsInv, NothingCanceled, RequestsKnow
<1>5. UnforcedJobsAreSafe'
  <2> SUFFICES ASSUME NEW j \in JobIds, Replaces(j)' PROVE Safe(j)'
    BY DEF UnforcedJobsAreSafe, Replaces
  <2>1. CASE OutputsDropped /\ state' # "transcribed"
    BY <1>2, <2>1, DroppedIsSafe
  <2>2. CASE rstep[r] = "purge" /\ UNCHANGED <<currentJob, state, artifact>>
    <3>1. Safe(j)
      BY <1>2, ReplacesStays DEF EditsInv, UnforcedJobsAreSafe, Replaces
    <3>2. GenerationBusy' = GenerationBusy
      BY <1>2, <2>2 DEF GenerationBusy, Active
    <3>3. Covered(j) => Covered(j)'
      BY <1>1, <2>2, <3>2 DEF Covered
    <3> QED BY <1>2, <2>2, <3>1, <3>3, SafeStays
  <2> QED BY <1>2, <2>1, <2>2
<1> QED BY <1>3, <1>4, <1>5 DEF EditsInv, Order

LEMMA RestartEdits ==
  ASSUME TypeOK, PublishedInv, EditsInv, Serial, NEW r \in Requests, RestartCommit(r)
  PROVE  EditsInv'
<1>1. \A q \in Requests : q = r
  BY DEF Serial, OneRequest
<1>2. /\ rstep[r] = "restart" /\ exists /\ rstep'[r] = "idle"
      /\ \A j \in JobIds : ~Pending(j)
  BY DEF PublishedInv, PendingOnce, RequestsAct, RestartCommit, RequestEnds, TypeOK
<1>3. PICK n \in JobIds : /\ NewJob(n, "transcription", FALSE)
                          /\ OutputsDropped /\ state' = "audio_uploaded"
  BY <1>2 DEF RestartCommit
<1>4. /\ UNCHANGED <<exists, running, wstep>>
      /\ rq' = [rq EXCEPT ![n] = "queued"]
      /\ jkind' = [jkind EXCEPT ![n] = "transcription"]
  BY <1>3 DEF RestartCommit, NewJob, Enqueue, horseVars
<1>5. Order'
  BY <1>2, <1>3, <1>4, OrderEnqueued DEF EditsInv, Order, PublishedInv
<1>6. NothingCanceled' /\ RequestsKnow'
  BY <1>1, <1>2, <1>4 DEF EditsInv, NothingCanceled, RequestsKnow, TypeOK, QueueTypeOK
<1>7. UnforcedJobsAreSafe'
  BY <1>3, <1>4, DroppedIsSafe DEF UnforcedJobsAreSafe
<1> QED BY <1>5, <1>6, <1>7 DEF EditsInv, Order

\* A deletion in progress is an edit refused.
LEMMA DeleteAbortEdits ==
  ASSUME TypeOK, EditsInv, Serial, NEW r \in Requests, DeleteAbort(r)
  PROVE  EditsInv'
<1>1. \A q \in Requests : q = r
  BY DEF Serial, OneRequest
<1>2. /\ UNCHANGED <<running, wstep, jkind, jforce, currentJob, state, artifact, exists>>
      /\ rstep'[r] = "delete"
  BY DEF DeleteAbort, Abort, RequestBegins, sessionVars, jobVars, horseVars, TypeOK
<1>3. /\ rq \in [JobIds -> RqStatus]
      /\ \A j \in JobIds : \/ rq'[j] = rq[j]
                           \/ rq[j] \in {"queued", "scheduled"} /\ rq'[j] = "canceled"
  BY DEF DeleteAbort, Abort, TypeOK, QueueTypeOK
<1>4. \A j \in JobIds : /\ InLine(j)' => InLine(j)
                        /\ Waiting(j)' => Waiting(j)
                        /\ Pending(j)' => Pending(j)
  BY <1>2, <1>3 DEF InLine, Waiting, Pending
<1>5. Order'
  <2>1. IdsInOrder'
    BY <1>3 DEF EditsInv, IdsInOrder
  <2>2. FirstInFirstOut'
    BY <1>3, <1>4 DEF EditsInv, FirstInFirstOut
  <2>3. TranscriptionsLast'
    BY <1>2, <1>4 DEF EditsInv, TranscriptionsLast, Generates
  <2> QED BY <2>1, <2>2, <2>3 DEF Order
<1>6. NothingCanceled' /\ RequestsKnow'
  BY <1>1, <1>2 DEF NothingCanceled, RequestsKnow
<1>7. UnforcedJobsAreSafe'
  <2> SUFFICES ASSUME NEW j \in JobIds, Replaces(j)' PROVE Safe(j)'
    BY DEF UnforcedJobsAreSafe, Replaces
  <2>1. Safe(j)
    BY <1>2, <1>4 DEF EditsInv, UnforcedJobsAreSafe, Replaces, Generates
  <2>2. Covered(j)'
    BY <1>2 DEF Covered
  <2>3. Hopeless(j) => Hopeless(j)'
    BY <1>2 DEF Hopeless, Holding
  <2>4. Bare(j) => Bare(j)'
    BY <1>2 DEF Bare, Holding
  <2>5. Unedited(jkind[j]) => Unedited(jkind[j])'
    BY <1>2 DEF Unedited
  <2> QED BY <2>1, <2>2, <2>3, <2>4, <2>5 DEF Safe
<1> QED BY <1>5, <1>6, <1>7 DEF EditsInv, Order

----------------------------------------------------------------------------
(* Horses and edits.                                                       *)

\* What leaves a job covered: the current job is another one, or stays active.
LEMMA CoveredStays ==
  ASSUME NEW j \in JobIds, Covered(j), UNCHANGED <<rstep, currentJob, jkind>>,
         Active(currentJob) /\ j <= currentJob => Active(currentJob)'
  PROVE  Covered(j)'
BY DEF Covered, GenerationBusy

LEMMA StartEdits ==
  ASSUME TypeOK, PublishedInv, EditsInv, Serial, NEW w \in Workers, NEW n \in JobIds,
         Starts(w, n)
  PROVE  EditsInv'
<1>1. \A v \in Workers : v = w
  BY DEF Serial, OneWorker
<1>2. /\ rq \in [JobIds -> RqStatus] /\ running \in [Workers -> JobIds \cup {NoJob}]
      /\ wstep \in [Workers -> Steps] /\ NoJob \notin JobIds
      /\ currentJob \in JobIds \cup {NoJob}
  BY QueueAssumption DEF TypeOK, QueueTypeOK, Steps
<1>3. /\ wstep[w] = "idle" /\ wstep' = [wstep EXCEPT ![w] = "load"]
      /\ running[w] = NoJob /\ running' = [running EXCEPT ![w] = n]
      /\ rq[n] = "queued" /\ rq' = [rq EXCEPT ![n] = "started"]
      /\ UNCHANGED <<exists, state, artifact, currentJob, jkind, jforce, rstep, rkind,
                     rforce, rjob>>
  BY DEF Starts, sessionVars, jobVars, requestVars
<1>4. Order'
  BY OrderStarts DEF EditsInv, Order, PublishedInv
<1>5. NothingCanceled'
  BY <1>2, <1>3 DEF EditsInv, NothingCanceled
<1>6. Active(currentJob)' = Active(currentJob)
  BY <1>2, <1>3 DEF Active, ActiveStatuses
<1>7. \A j \in JobIds : /\ InLine(j)' => InLine(j)
                        /\ Waiting(j)' => Waiting(j)
  BY <1>1, <1>2, <1>3 DEF InLine, Waiting
<1>8. RequestsKnow'
  <2>1. GenerationBusy' = GenerationBusy
    BY <1>3, <1>6 DEF GenerationBusy
  <2>2. \A j \in JobIds : rq[j] \notin {"none", "canceled"} => rq'[j] \notin {"none", "canceled"}
    BY <1>2, <1>3
  <2> QED BY <1>3, <1>7, <2>1, <2>2 DEF EditsInv, RequestsKnow, Generates, Unedited
<1>9. UnforcedJobsAreSafe'
  <2> SUFFICES ASSUME NEW j \in JobIds, Replaces(j)' PROVE Safe(j)'
    BY DEF UnforcedJobsAreSafe, Replaces
  <2>1. Safe(j)
    BY <1>3, <1>7 DEF EditsInv, UnforcedJobsAreSafe, Replaces, Generates
  <2>2. ~Bare(j)
    BY <1>1, <1>3 DEF Bare, Holding
  <2>3. Covered(j) => Covered(j)'
    BY <1>3, <1>6, CoveredStays
  <2>4. Hopeless(j) => Hopeless(j)'
    BY <1>1, <1>2, <1>3 DEF Hopeless, Holding
  <2>5. Unedited(jkind[j]) => Unedited(jkind[j])'
    BY <1>3 DEF Unedited
  <2> QED BY <2>1, <2>2, <2>3, <2>4, <2>5 DEF Safe
<1> QED BY <1>4, <1>5, <1>8, <1>9 DEF EditsInv, Order

LEMMA LeaveEdits ==
  ASSUME TypeOK, HorsesKnowTheirJob, PublishedInv, EditsInv, Serial, NEW w \in Workers,
         Leaves(w)
  PROVE  EditsInv'
<1> DEFINE c == running[w]
<1>1. \A v \in Workers : v = w
  BY DEF Serial, OneWorker
<1>2. /\ rq \in [JobIds -> RqStatus] /\ running \in [Workers -> JobIds \cup {NoJob}]
      /\ wstep \in [Workers -> Steps] /\ NoJob \notin JobIds /\ JobIds \subseteq Nat
      /\ currentJob \in JobIds \cup {NoJob}
  BY ArtifactsAssumption, QueueAssumption DEF TypeOK, QueueTypeOK, Steps
<1>3. /\ wstep[w] # "idle" /\ wstep' = [wstep EXCEPT ![w] = "idle"]
      /\ running' = [running EXCEPT ![w] = NoJob]
      /\ UNCHANGED <<exists, state, artifact, currentJob, jkind, jforce, rstep, rkind,
                     rforce, rjob>>
  BY DEF Leaves, sessionVars, jobVars, requestVars
<1>4. c \in JobIds /\ rq[c] = "started"
  BY <1>3 DEF HorsesKnowTheirJob, PublishedInv, HorsesRun
<1>5. PICK status \in {"scheduled", "failed", "finished", "stopped"} :
        rq' = [rq EXCEPT ![c] = status] \/ UNCHANGED rq
  BY DEF Leaves
<1>6. \A j \in JobIds : /\ InLine(j)' => InLine(j) /\ rq[j] = "queued" /\ j # c
                        /\ Waiting(j)' => Waiting(j) /\ InLine(j)'
                        /\ Pending(j)' => Pending(j)
  BY <1>1, <1>2, <1>3, <1>4, <1>5 DEF InLine, Waiting, Pending
<1>7. Order'
  BY <1>3, <1>4, <1>5, <1>6, OrderLeft DEF EditsInv, Order, FewerPending
<1>8. \A j \in JobIds \ {c} : rq'[j] = rq[j]
  BY <1>2, <1>5
<1>9. NothingCanceled'
  BY <1>2, <1>3, <1>4, <1>5 DEF EditsInv, NothingCanceled
<1>10. RequestsKnow'
  <2>1. GenerationBusy' => GenerationBusy
    BY <1>2, <1>3, <1>4, <1>8 DEF GenerationBusy, Active, ActiveStatuses
  <2>2. \A j \in JobIds : rq[j] \notin {"none", "canceled"} => rq'[j] \notin {"none", "canceled"}
    BY <1>2, <1>5
  <2> QED BY <1>3, <1>6, <2>1, <2>2 DEF EditsInv, RequestsKnow, Generates, Unedited
<1>11. UnforcedJobsAreSafe'
  <2> SUFFICES ASSUME NEW j \in JobIds, Replaces(j)' PROVE Safe(j)'
    BY DEF UnforcedJobsAreSafe, Replaces
  <2>1. Safe(j) /\ InLine(j) /\ j # c
    BY <1>3, <1>6 DEF EditsInv, UnforcedJobsAreSafe, Replaces, Generates
  <2>2. c <= j /\ c \in Nat /\ j \in Nat
    BY <1>2, <1>4, <2>1, RunningIsFirst DEF EditsInv, Order, PublishedInv, Serial
  <2>3. ~Bare(j)
    BY <1>1, <2>1 DEF Bare
  <2>4. Active(currentJob) /\ j <= currentJob => Active(currentJob)'
    <3> SUFFICES ASSUME Active(currentJob), j <= currentJob PROVE Active(currentJob)'
      OBVIOUS
    <3>1. currentJob \in JobIds /\ currentJob \in Nat
      BY <1>2 DEF Active
    <3> HIDE DEF c
    <3>2. currentJob # c
      BY <2>1, <2>2, <3>1
    <3>3. rq'[currentJob] = rq[currentJob]
      BY <1>8, <3>1, <3>2
    <3> QED BY <1>3, <3>3 DEF Active
  <2>5. Covered(j) => Covered(j)'
    BY <1>3, <2>4, CoveredStays
  <2>6. Hopeless(j) => Hopeless(j)'
    BY <1>1, <1>2, <1>3 DEF Hopeless, Holding
  <2>7. Unedited(jkind[j]) => Unedited(jkind[j])'
    BY <1>3 DEF Unedited
  <2> QED BY <2>1, <2>3, <2>5, <2>6, <2>7 DEF Safe
<1> QED BY <1>7, <1>9, <1>10, <1>11 DEF EditsInv, Order

\* A horse that goes on waits no more than before.
LEMMA StaysInLine ==
  ASSUME TypeOK, HorsesKnowTheirJob, HorsesRun, OneWorker, NEW w \in Workers, Horse(w),
         Stays(w), NEW j \in JobIds
  PROVE  /\ InLine(j)' = InLine(j)
         /\ Waiting(j)' => Waiting(j)
         /\ Pending(j)' => Pending(j)
<1>1. \A v \in Workers : v = w
  BY DEF OneWorker
<1>2. UNCHANGED <<rq, running, jkind>>
  BY DEF Stays, queueVars, jobVars
<1>3. wstep \in [Workers -> Steps]
  BY DEF TypeOK, Steps
<1>4. /\ wstep'[w] \in {"load", "source", "call", "persist"}
           => wstep[w] \in {"load", "source", "call", "persist"}
      /\ wstep'[w] \in {"load", "transcribe"} => wstep[w] \in {"load", "transcribe"}
  BY <1>3
  DEF Stays, Horse, HorseStart, LoadText, LoadCharacters, LoadCharactersSource, LoadSource,
      LoadSummary, HorseCall, HorsePersist, TranscriptionClaim, TranscriptionEnds,
      HorseRaise, HorseFinish, HorseKilled, HorseGoes, HorseEnds
<1> QED BY <1>1, <1>2, <1>4 DEF InLine, Waiting, Pending

\* No generation is in line behind the transcription that runs, so none finds a
\* session that it has just published.
LEMMA TranscriptionEdits ==
  ASSUME TypeOK, HorsesKnowTheirJob, PublishedInv, EditsInv, Serial, NEW w \in Workers,
         TranscriptionClaim(w) \/ TranscriptionEnds(w), Horse(w), Stays(w)
  PROVE  RequestsKnow' /\ UnforcedJobsAreSafe'
<1>1. \A v \in Workers : v = w
  BY DEF Serial, OneWorker
<1>2. UNCHANGED <<rq, running, jkind, jforce, rstep, rkind, rforce, rjob, exists, artifact,
                  currentJob>>
  BY DEF TranscriptionClaim, TranscriptionEnds, queueVars, jobVars, requestVars
<1>3. running[w] \in JobIds /\ Pending(running[w])
  BY DEF HorsesKnowTheirJob, PublishedInv, HorsesRun, Pending, Kind, TranscriptionClaim,
         TranscriptionEnds
<1>4. state # "transcribed"
  BY <1>3 DEF PublishedInv, PendingOnce
<1>5. HorsesRun /\ OneWorker
  BY DEF PublishedInv, Serial
<1>6. \A j \in JobIds : InLine(j)' = InLine(j) /\ (Waiting(j)' => Waiting(j))
  BY <1>5, StaysInLine
<1>7. RequestsKnow'
  <2>1. GenerationBusy' = GenerationBusy
    BY <1>2 DEF GenerationBusy, Active
  <2> QED BY <1>2, <1>4, <1>6, <2>1 DEF EditsInv, RequestsKnow, Generates
<1>8. UnforcedJobsAreSafe'
  <2> SUFFICES ASSUME NEW j \in JobIds, Replaces(j)' PROVE FALSE
    BY DEF UnforcedJobsAreSafe, Replaces
  <2>1. Waiting(j) /\ Generates(j)
    BY <1>2, <1>6 DEF Replaces, Generates
  <2>2. j < running[w]
    BY <1>3, <2>1 DEF EditsInv, TranscriptionsLast
  <2>3. running[w] <= j
    BY <1>3, <1>5, <2>1, InLineStatus, RunningIsFirst, QueueAssumption DEF EditsInv, Order
  <2>4. running[w] \in Nat /\ j \in Nat
    BY <1>3, ArtifactsAssumption
  <2> QED BY <2>2, <2>3, <2>4
<1> QED BY <1>7, <1>8

\* A generation edits nothing: what it leaves edited was edited.
LEMMA GeneratedUnedited ==
  ASSUME NEW w \in Workers, NEW kind, Affected(kind) \subseteq Kinds, Unedited(kind),
         artifact' \in {artifact, Generated(w)}
  PROVE  \A k \in Affected(kind) : ~artifact'[k].edited
<1>1. \A k \in Kinds : Generated(w)[k] = artifact[k] \/ ~Generated(w)[k].edited
  BY DEF Generated
<1>2. \A k \in Kinds : artifact'[k] = artifact[k] \/ ~artifact'[k].edited
  BY <1>1
<1> QED BY <1>2 DEF Unedited

\* A horse that loads finds a transcribed session, so that it was not hopeless.
LEMMA GenerationEdits ==
  ASSUME TypeOK, HorsesKnowTheirJob, PublishedInv, EditsInv, Serial, NEW w \in Workers,
         ~ (TranscriptionClaim(w) \/ TranscriptionEnds(w)), Horse(w), Stays(w)
  PROVE  RequestsKnow' /\ UnforcedJobsAreSafe'
<1>1. \A v \in Workers : v = w
  BY DEF Serial, OneWorker
<1>2. UNCHANGED <<rq, running, jkind, jforce, rstep, rkind, rforce, rjob>>
  BY DEF Stays, queueVars, jobVars, requestVars
<1>3. wstep \in [Workers -> Steps] /\ wstep[w] # "idle"
  BY DEF TypeOK, Steps, Stays
<1>4. /\ UNCHANGED <<exists, state, currentJob>>
      /\ artifact' \in {artifact, Generated(w)}
  BY <1>3 DEF Stays, Horse, HorseStart, LoadText, LoadCharacters, LoadCharactersSource,
      LoadSource, LoadSummary, LoadSums, HorseCall, HorsePersist, HorseRaise, HorseFinish,
      HorseKilled, sessionVars
<1>5. HorsesRun /\ OneWorker
  BY DEF PublishedInv, Serial
<1>6. \A j \in JobIds : InLine(j)' = InLine(j) /\ (Waiting(j)' => Waiting(j))
  BY <1>5, StaysInLine
<1>7. GenerationBusy' = GenerationBusy
  BY <1>2, <1>4 DEF GenerationBusy, Active
<1>8. \A kind \in ArtifactJobKinds : Unedited(kind) => Unedited(kind)'
  <2> SUFFICES ASSUME NEW kind \in ArtifactJobKinds, Unedited(kind)
               PROVE  Unedited(kind)'
    OBVIOUS
  <2>1. Affected(kind) \subseteq Kinds
    BY ArtifactsAssumption DEF Affected
  <2> QED BY <1>4, <2>1, GeneratedUnedited DEF Unedited
<1>9. RequestsKnow'
  <2>1. ASSUME NEW r \in Requests, rstep[r] = "post_enqueue", Unedited(rkind[r])
        PROVE  Unedited(rkind[r])'
    BY <1>2, <1>8, <2>1 DEF TypeOK
  <2> QED BY <1>2, <1>4, <1>6, <1>7, <2>1 DEF EditsInv, RequestsKnow, Generates
<1>10. UnforcedJobsAreSafe'
  <2> SUFFICES ASSUME NEW j \in JobIds, Replaces(j)' PROVE Safe(j)'
    BY DEF UnforcedJobsAreSafe, Replaces
  <2>1. Safe(j) /\ Waiting(j) /\ Generates(j)
    BY <1>2, <1>6 DEF EditsInv, UnforcedJobsAreSafe, Replaces, Generates
  <2>2. Covered(j) => Covered(j)'
    BY <1>2, <1>4, <1>7 DEF Covered
  <2>3. Unedited(jkind[j]) => Unedited(jkind[j])'
    <3>1. PICK kind \in ArtifactJobKinds : kind = jkind[j] /\ kind = jkind'[j]
      BY <1>2, <2>1 DEF Generates
    <3>2. Unedited(kind) => Unedited(kind)'
      BY <1>8
    <3> QED BY <3>1, <3>2 DEF Unedited
  <2>4. ASSUME Hopeless(j) PROVE Hopeless(j)'
    <3>1. Holding(w)' => Holding(w) \/ state = "transcribed"
      BY <1>3 DEF Stays, Horse, HorseStart, LoadText, LoadCharacters,
        LoadCharactersSource, LoadSource, LoadSummary, Prerequisites, HorseCall,
        HorsePersist, HorseRaise, HorseFinish, HorseKilled, Holding, HorseGoes, HorseEnds,
        TranscriptionClaim, TranscriptionEnds
    <3> QED BY <1>1, <1>2, <1>4, <2>4, <3>1 DEF Hopeless
  <2>5. ASSUME Bare(j) PROVE Bare(j)'
    <3>1. running[w] = j /\ Holding(w) /\ artifact = [k \in Kinds |-> NoArtifact]
      BY <1>1, <2>5 DEF Bare
    <3>2. rq[j] = "started"
      BY <1>3, <1>5, <3>1 DEF HorsesRun
    <3>3. wstep'[w] \in {"load", "source", "call", "persist"}
      BY <1>1, <1>2, <3>2 DEF Replaces, Waiting
    <3>4. Holding(w)' /\ artifact' = artifact
      BY <1>3, <3>1, <3>3
      DEF Stays, Horse, HorseStart, LoadText, LoadCharacters, LoadCharactersSource,
        LoadSource, LoadSummary, LoadSums, HorseCall, HorsePersist, HorseRaise, HorseFinish,
        HorseKilled, Holding, HorseGoes, HorseEnds, sessionVars
    <3> QED BY <1>2, <3>1, <3>4 DEF Bare
  <2> QED BY <2>1, <2>2, <2>3, <2>4, <2>5 DEF Safe
<1> QED BY <1>9, <1>10

LEMMA HorseEdits ==
  ASSUME TypeOK, HorsesKnowTheirJob, PublishedInv, EditsInv, Serial, NEW w \in Workers,
         Horse(w)
  PROVE  EditsInv'
<1>1. CASE \E n \in JobIds : Starts(w, n)
  BY <1>1, StartEdits
<1>2. CASE Leaves(w)
  BY <1>2, LeaveEdits
<1>3. CASE Stays(w)
  <2>1. HorsesRun /\ OneWorker
    BY DEF PublishedInv, Serial
  <2>2. \A j \in JobIds : /\ InLine(j)' = InLine(j)
                          /\ Waiting(j)' => Waiting(j)
                          /\ Pending(j)' => Pending(j)
    BY <1>3, <2>1, StaysInLine
  <2>3. UNCHANGED <<rq, jkind, rstep>>
    BY <1>3 DEF Stays, queueVars, jobVars, requestVars
  <2>4. IdsInOrder' /\ FirstInFirstOut' /\ TranscriptionsLast'
    BY <2>2, <2>3
    DEF EditsInv, IdsInOrder, FirstInFirstOut, TranscriptionsLast, Generates
  <2>5. exists' = exists
    BY DEF Horse, HorseStart, LoadText, LoadCharacters, LoadCharactersSource, LoadSource,
        LoadSummary, HorseCall, HorsePersist, TranscriptionClaim, TranscriptionEnds,
        HorseRaise, HorseFinish, HorseKilled, sessionVars
  <2>6. NothingCanceled'
    BY <2>3, <2>5 DEF EditsInv, NothingCanceled
  <2>7. RequestsKnow' /\ UnforcedJobsAreSafe'
    BY <1>3, TranscriptionEdits, GenerationEdits
  <2> QED BY <2>4, <2>6, <2>7 DEF EditsInv
<1> QED BY <1>1, <1>2, <1>3, HorseMoves

\* A job Redis handles on its own is not in line, and older than all in line.
LEMMA RedisEdits ==
  ASSUME TypeOK, HorsesKnowTheirJob, PublishedInv, EditsInv, Serial,
         "job_lost" \notin Faults, NEW c \in JobIds, Redis(c)
  PROVE  EditsInv'
<1>1. /\ rq \in [JobIds -> RqStatus] /\ JobIds \subseteq Nat /\ NoJob \notin JobIds
      /\ currentJob \in JobIds \cup {NoJob}
  BY ArtifactsAssumption, QueueAssumption DEF TypeOK, QueueTypeOK
<1>2. /\ UNCHANGED <<running, wstep, exists, state, artifact, currentJob, jkind, jforce,
                     rstep, rkind, rforce, rjob>>
      /\ rq[c] = "started" /\ \A w \in Workers : running[w] # c
  BY DEF Redis, Reap, Requeue, JobLost, Abandoned, Serial, sessionVars, jobVars,
         requestVars, horseVars
<1>3. PICK status \in {"scheduled", "failed"} : rq' = [rq EXCEPT ![c] = status]
  BY DEF Redis, Reap, Failure, Requeue, JobLost, Serial
<1>4. \A j \in JobIds : /\ InLine(j)' => InLine(j) /\ j # c
                        /\ Waiting(j)' => Waiting(j) /\ InLine(j)'
                        /\ Pending(j)' => Pending(j)
  BY <1>1, <1>2, <1>3 DEF InLine, Waiting, Pending
<1>5. Order'
  BY <1>2, <1>3, <1>4, OrderLeft DEF EditsInv, Order, FewerPending
<1>6. \A j \in JobIds \ {c} : rq'[j] = rq[j]
  BY <1>1, <1>3
<1>7. NothingCanceled'
  BY <1>1, <1>2, <1>3 DEF EditsInv, NothingCanceled
<1>8. RequestsKnow'
  <2>1. GenerationBusy' => GenerationBusy
    BY <1>1, <1>2, <1>6 DEF GenerationBusy, Active, ActiveStatuses
  <2>2. \A j \in JobIds : rq[j] \notin {"none", "canceled"} => rq'[j] \notin {"none", "canceled"}
    BY <1>1, <1>3
  <2> QED BY <1>2, <1>4, <2>1, <2>2 DEF EditsInv, RequestsKnow, Generates, Unedited
<1>9. UnforcedJobsAreSafe'
  <2> SUFFICES ASSUME NEW j \in JobIds, Replaces(j)' PROVE Safe(j)'
    BY DEF UnforcedJobsAreSafe, Replaces
  <2>1. Safe(j) /\ InLine(j) /\ j # c
    BY <1>2, <1>4 DEF EditsInv, UnforcedJobsAreSafe, Replaces, Generates
  <2>2. ~ (j < c)
    BY <1>2, <2>1 DEF EditsInv, FirstInFirstOut
  <2>3. Active(currentJob) /\ j <= currentJob => Active(currentJob)'
    <3> SUFFICES ASSUME Active(currentJob), j <= currentJob PROVE Active(currentJob)'
      OBVIOUS
    <3>1. currentJob \in JobIds /\ currentJob \in Nat /\ c \in Nat /\ j \in Nat
      BY <1>1 DEF Active
    <3>2. currentJob # c
      BY <2>1, <2>2, <3>1
    <3>3. rq'[currentJob] = rq[currentJob]
      BY <1>6, <3>1, <3>2
    <3> QED BY <1>2, <3>3 DEF Active
  <2>4. Covered(j) => Covered(j)'
    BY <1>2, <2>3, CoveredStays
  <2>5. Hopeless(j) => Hopeless(j)'
    BY <1>2 DEF Hopeless, Holding
  <2>6. Bare(j) => Bare(j)'
    BY <1>2 DEF Bare, Holding
  <2>7. Unedited(jkind[j]) => Unedited(jkind[j])'
    BY <1>2 DEF Unedited
  <2> QED BY <2>1, <2>4, <2>5, <2>6, <2>7 DEF Safe
<1> QED BY <1>5, <1>7, <1>8, <1>9 DEF EditsInv, Order

----------------------------------------------------------------------------
(* Edits survive.                                                          *)

\* No request is cut short between its two stores, no job disappears from Redis.
\* (Workers may die, and jobs fail, time out or be stopped.)
NothingLost == {"api_crash", "job_lost"} \cap Faults = {}

LEMMA EditsUnchanged ==
  ASSUME EditsInv, UNCHANGED vars
  PROVE  EditsInv'
<1>1. UNCHANGED <<rq, running, exists, state, currentJob, artifact, jkind, jforce, rstep,
                  rkind, rforce, rjob, wstep>>
  BY DEF vars, queueVars, sessionVars, jobVars, requestVars, horseVars
<1>2. Order'
  BY <1>1, OrderUnchanged DEF EditsInv, Order
<1>3. GenerationBusy' = GenerationBusy
  BY <1>1 DEF GenerationBusy, Active
<1>4. NothingCanceled' /\ RequestsKnow'
  BY <1>1, <1>3 DEF EditsInv, NothingCanceled, RequestsKnow, Generates, InLine, Unedited
<1>5. UnforcedJobsAreSafe'
  <2> SUFFICES ASSUME NEW j \in JobIds, Replaces(j)' PROVE Safe(j)'
    BY DEF UnforcedJobsAreSafe, Replaces
  <2>1. Safe(j)
    BY <1>1, ReplacesStays DEF EditsInv, UnforcedJobsAreSafe, Replaces
  <2>2. Covered(j) => Covered(j)'
    BY <1>1, <1>3 DEF Covered
  <2> QED BY <1>1, <2>1, <2>2, SafeStays
<1> QED BY <1>2, <1>4, <1>5 DEF EditsInv, Order

LEMMA EditsNext ==
  ASSUME TypeOK, HorsesKnowTheirJob, PublishedInv, EditsInv, Serial, NothingLost,
         [Next]_vars
  PROVE  EditsInv'
<1>1. ASSUME NEW r \in Requests, Request(r) PROVE EditsInv'
  <2>1. CASE \/ PostCheck(r) \/ EditCheck(r) \/ TranscriptEditCheck(r) \/ MappingCheck(r)
             \/ PurgeCheck(r) \/ RestartCheck(r)
    BY <2>1, CheckEdits
  <2>2. CASE PostEnqueue(r) \/ PostCommit(r) \/ EditCommit(r)
    BY <2>2, PostEnqueueEdits, PostCommitEdits, EditCommitEdits
  <2>3. CASE TranscriptEditCommit(r) \/ MappingCommit(r)
    BY <2>3, SourceCommitEdits
  <2>4. CASE PurgeCommit(r) \/ DeleteCommit(r)
    BY <2>4, DropEdits
  <2>5. CASE RestartCommit(r)
    BY <2>5, RestartEdits
  <2>6. CASE DeleteAbort(r)
    BY <2>6, DeleteAbortEdits
  <2>7. ~ApiCrash(r)
    BY DEF ApiCrash, NothingLost
  <2> QED BY <1>1, <2>1, <2>2, <2>3, <2>4, <2>5, <2>6, <2>7 DEF Request, RequestContinues
<1>2. ASSUME NEW w \in Workers, Horse(w) PROVE EditsInv'
  BY <1>2, HorseEdits
<1>3. ASSUME NEW j \in JobIds, Redis(j) PROVE EditsInv'
  BY <1>3, RedisEdits DEF NothingLost
<1> QED BY <1>1, <1>2, <1>3, EditsUnchanged DEF Next

\* When a job that may not replace edits is about to, there is none it would replace.
THEOREM EditsHold ==
  ASSUME Serial, NothingLost
  PROVE  Spec => []EditsInv
<1>1. OneWorker
  BY DEF Serial
<1>2. Init => EditsInv
  <2> SUFFICES ASSUME Init PROVE EditsInv
    OBVIOUS
  <2>1. \A j \in JobIds : ~InLine(j) /\ ~Waiting(j) /\ ~Pending(j) /\ rq[j] = "none"
    BY QueueAssumption DEF Init, QueueInit, InLine, Waiting, Pending
  <2>2. \A r \in Requests : rstep[r] = "idle"
    BY DEF Init
  <2> QED
    BY <2>1, <2>2 DEF EditsInv, IdsInOrder, FirstInFirstOut, TranscriptionsLast,
        NothingCanceled, RequestsKnow, UnforcedJobsAreSafe
<1>3. TypeOK /\ SourcesInv /\ PublishedInv /\ EditsInv /\ [Next]_vars => EditsInv'
  BY EditsNext DEF SourcesInv
<1> QED
  BY <1>1, <1>2, <1>3, TypeCorrect, SourcesHold, PublishedHolds, PTL DEF Spec

\* A generation about to store has not been found hopeless.
LEMMA StoresUnedited ==
  ASSUME TypeOK, PublishedInv, HorsesKnowTheirJob, EditsInv, Serial,
         NEW w \in Workers, wstep[w] = "persist", ~jforce[running[w]]
  PROVE  Unedited(Kind(w))
<1>1. running[w] \in JobIds /\ Waiting(running[w]) /\ Generates(running[w])
  BY DEF HorsesKnowTheirJob, Waiting, Generates, Kind
<1>2. Safe(running[w]) /\ ~Hopeless(running[w])
  BY <1>1 DEF EditsInv, UnforcedJobsAreSafe, Hopeless, Holding
<1>3. Affected(Kind(w)) \subseteq Kinds
  BY <1>1, ArtifactsAssumption DEF Affected, Generates, Kind
<1>4. Bare(running[w]) => Unedited(Kind(w))
  BY <1>3 DEF Bare, Unedited
<1> QED BY <1>2, <1>4 DEF Safe, Kind

\* A manual edit is replaced or dropped by a job only if its request forced it,
\* however long before the job ran the guard was checked (jdr.py, router.py:
\* _guard_regeneration_not_edited, _guard_artifact_edit_not_busy).
THEOREM EditsSurvive ==
  ASSUME Serial, NothingLost
  PROVE  Spec => EditsSurviveUnforcedJobs
<1> DEFINE Survives ==
      \A w \in Workers, k \in Kinds :
        wstep[w] = "persist" /\ wstep'[w] = "finish" /\ artifact[k].edited
          => jforce[running[w]] \/ artifact'[k] = artifact[k]
<1>1. OneWorker
  BY DEF Serial
<1>2. TypeOK /\ TypeOK' /\ SourcesInv /\ PublishedInv /\ EditsInv /\ [Next]_vars => Survives
  <2> SUFFICES ASSUME TypeOK, TypeOK', SourcesInv, PublishedInv, EditsInv, [Next]_vars,
                      NEW w \in Workers, NEW k \in Kinds, wstep[w] = "persist",
                      wstep'[w] = "finish", artifact[k].edited, ~jforce[running[w]]
               PROVE  artifact'[k] = artifact[k]
    OBVIOUS
  <2>1. HorsesKnowTheirJob
    BY DEF SourcesInv
  <2>2. Unedited(Kind(w)) /\ Kind(w) \in ArtifactJobKinds
    BY <2>1, StoresUnedited DEF HorsesKnowTheirJob
  <2>3. k \notin Affected(Kind(w))
    BY <2>2 DEF Unedited
  <2>4. Horse(w)
    <3>1. \A v \in Workers : v = w
      BY DEF Serial, OneWorker
    <3>2. wstep' # wstep
      OBVIOUS
    <3>3. \A r \in Requests : ~Request(r)
      BY <3>2, RequestQueue
    <3>4. \A j \in JobIds : ~Redis(j)
      BY <3>2 DEF Redis, horseVars
    <3> QED BY <3>1, <3>2, <3>3, <3>4 DEF Next, vars, horseVars
  <2>5. HorsePersist(w)
    BY <2>4 DEF Horse, HorseStart, LoadText, LoadCharacters, LoadCharactersSource,
        LoadSource, LoadSummary, HorseCall, TranscriptionClaim, TranscriptionEnds,
        HorseRaise, HorseFinish, HorseKilled, HorseGoes, HorseEnds, TypeOK
  <2>6. artifact' = Generated(w) \/ artifact' = artifact
    BY <2>5 DEF HorsePersist
  <2>7. k \notin Written(w) /\ Kind(w) # "summary"
    BY <2>2, <2>3 DEF Written, Affected, TypeOK
  <2> QED BY <2>6, <2>7 DEF Generated
<1> QED
  BY <1>1, <1>2, TypeCorrect, SourcesHold, PublishedHolds, EditsHold, PTL
  DEF Spec, EditsSurviveUnforcedJobs
=============================================================================
