------------------------ MODULE TranscriptionProofs ------------------------
(***************************************************************************)
(* Proofs about Transcription, for any number of jobs and retries.  Types  *)
(* and the refinement of SessionLifecycle: any workers, requests, faults,  *)
(* with or without a scheduler.  The audio files: one worker.  The runs    *)
(* and rows of the session: one worker, one request at a time, no          *)
(* scheduler and no request cut short between Redis and its commit.        *)
(***************************************************************************)
EXTENDS Transcription, JobQueueProofs

USE DEF NoAudio, AudioRow, Content, States, RequestSteps, HorseSteps, RqStatus

----------------------------------------------------------------------------
(* Type correctness.                                                       *)

\* A step of the session's rows, files and actors keeps them well typed.
LEMMA RequestType ==
  ASSUME TypeOK, NEW r \in Requests, Request(r)
  PROVE  TypeOK'
<1> USE DEF RequestGoes, RequestEnds, queueVars, sessionVars, fileVars,
            requestVars, horseVars
<1>1. CASE UploadBegin(r)
  BY <1>1, QueueUnchanged DEF TypeOK, UploadBegin
<1>2. CASE UploadWrite(r)
  BY <1>2, QueueUnchanged DEF TypeOK, UploadWrite
<1>3. CASE UploadTooLarge(r)
  BY <1>3, QueueUnchanged DEF TypeOK, UploadTooLarge, RawDirRemoved
<1>4. CASE UploadInsert(r)
  <2>1. QueueTypeOK'
    BY <1>4, QueueStepType, QueueUnchanged DEF TypeOK, QueueStep, UploadInsert
  <2> QED BY <1>4, <2>1 DEF TypeOK, UploadInsert
<1>5. CASE UploadCommit(r)
  BY <1>5, QueueUnchanged DEF TypeOK, UploadCommit
<1>6. CASE PurgeCheck(r)
  BY <1>6, QueueUnchanged DEF TypeOK, PurgeCheck
<1>7. CASE PurgeFiles(r)
  BY <1>7, QueueUnchanged DEF TypeOK, PurgeFiles, UnlinkAudio, RawDirRemoved
<1>8. CASE PurgeCommit(r)
  BY <1>8, QueueUnchanged DEF TypeOK, PurgeCommit, PurgedRow
<1>9. CASE RestartCheck(r)
  BY <1>9, QueueUnchanged DEF TypeOK, RestartCheck
<1>10. CASE RestartEnqueue(r)
  <2>1. QueueTypeOK'
    BY <1>10, QueueStepType, QueueUnchanged DEF TypeOK, QueueStep, RestartEnqueue
  <2> QED BY <1>10, <2>1 DEF TypeOK, RestartEnqueue
<1>11. CASE RestartCommit(r)
  BY <1>11, QueueUnchanged DEF TypeOK, RestartCommit, RestartedRow
<1>12. CASE RecoverCheck(r)
  BY <1>12, QueueUnchanged DEF TypeOK, RecoverCheck
<1>13. CASE RecoverCommit(r)
  BY <1>13, QueueUnchanged DEF TypeOK, RecoverCommit
<1>14. CASE DeleteAbort(r)
  <2>1. QueueTypeOK'
    BY <1>14, QueueStepType, QueueUnchanged DEF TypeOK, QueueStep, DeleteAbort
  <2> QED BY <1>14, <2>1 DEF TypeOK, DeleteAbort
<1>15. CASE DeleteFiles(r)
  BY <1>15, QueueUnchanged DEF TypeOK, DeleteFiles, UnlinkAudio, RawDirRemoved
<1>16. CASE DeleteCommit(r)
  BY <1>16, QueueUnchanged DEF TypeOK, DeleteCommit
<1>17. CASE ApiCrash(r)
  BY <1>17, QueueUnchanged DEF TypeOK, ApiCrash
<1> QED
  BY <1>1, <1>2, <1>3, <1>4, <1>5, <1>6, <1>7, <1>8, <1>9, <1>10, <1>11, <1>12, <1>13, <1>14, <1>15, <1>16, <1>17
  DEF Request, Upload, Purge, Restart, Recover, Delete

LEMMA HorseType ==
  ASSUME TypeOK, NEW w \in Workers, Horse(w)
  PROVE  TypeOK'
<1> USE DEF HorseGoes, HorseEnds, queueVars, sessionVars, fileVars,
            requestVars, horseVars
<1>1. CASE HorseStart(w)
  <2>1. QueueTypeOK'
    BY <1>1, QueueStepType DEF TypeOK, QueueStep, HorseStart
  <2> QED BY <1>1, <2>1 DEF TypeOK, HorseStart
<1>2. CASE HorseLoad(w)
  BY <1>2, QueueUnchanged DEF TypeOK, HorseLoad, HasAudio
<1>3. CASE HorseClaim(w)
  BY <1>3, QueueUnchanged DEF TypeOK, HorseClaim
<1>4. CASE HorseOpen(w)
  BY <1>4, QueueUnchanged DEF TypeOK, HorseOpen, File
<1>5. CASE PrepareOk(w)
  BY <1>5, QueueUnchanged DEF TypeOK, PrepareOk
<1>6. CASE PrepareFails(w)
  BY <1>6, QueueUnchanged DEF TypeOK, PrepareFails, RawDirRemoved
<1>7. CASE HorseRelink(w)
  <2>1. RelinkedRow(w) \in AudioRow
    BY DEF TypeOK, RelinkedRow
  <2>2. audio' \in AudioRow
    BY <1>7, <2>1 DEF TypeOK, HorseRelink
  <2> QED BY <1>7, <2>2, QueueUnchanged DEF TypeOK, HorseRelink
<1>8. CASE HorseSweep(w)
  BY <1>8, QueueUnchanged DEF TypeOK, HorseSweep, RawDirRemoved
<1>9. CASE HorseBuild(w)
  BY <1>9, QueueUnchanged DEF TypeOK, HorseBuild
<1>10. CASE HorseCall(w)
  BY <1>10, QueueUnchanged DEF TypeOK, HorseCall
<1>11. CASE HorseTimeout(w)
  BY <1>11, QueueUnchanged DEF TypeOK, HorseTimeout
<1>12. CASE HorsePersist(w)
  BY <1>12, QueueUnchanged DEF TypeOK, QueueTypeOK, HorsePersist
<1>13. CASE HorseRestore(w)
  BY <1>13, QueueUnchanged DEF TypeOK, HorseRestore
<1>14. CASE HorseFail(w)
  BY <1>14, QueueUnchanged DEF TypeOK, HorseFail
<1>15. CASE HorseRaise(w)
  <2>1. QueueTypeOK'
    BY <1>15, QueueStepType DEF TypeOK, QueueStep, HorseRaise
  <2> QED BY <1>15, <2>1 DEF TypeOK, HorseRaise
<1>16. CASE HorseFinish(w)
  <2>1. QueueTypeOK'
    BY <1>16, QueueStepType DEF TypeOK, QueueStep, HorseFinish
  <2> QED BY <1>16, <2>1 DEF TypeOK, HorseFinish
<1>17. CASE HorseKilled(w)
  <2>1. QueueTypeOK'
    BY <1>17, QueueStepType DEF TypeOK, QueueStep, HorseKilled
  <2> QED BY <1>17, <2>1 DEF TypeOK, HorseKilled
<1> QED BY <1>1, <1>2, <1>3, <1>4, <1>5, <1>6, <1>7, <1>8, <1>9, <1>10, <1>11, <1>12, <1>13, <1>14, <1>15, <1>16, <1>17 DEF Horse

LEMMA RedisType ==
  ASSUME TypeOK, NEW j \in JobIds, Redis(j)
  PROVE  TypeOK'
<1>1. QueueTypeOK' BY QueueStepType DEF TypeOK, QueueStep, Redis
<1> QED BY <1>1 DEF TypeOK, Redis, sessionVars, fileVars, requestVars, horseVars

\* Every variable keeps its type: in particular no job gets more retries than
\* MaxRetries, nor a negative number of them.
THEOREM TypeCorrect == Spec => []TypeOK
<1>1. Init => TypeOK
  BY QueueAssumption, TranscriptionAssumption
     DEF Init, QueueInit, TypeOK, QueueTypeOK
<1>2. TypeOK /\ [Next]_vars => TypeOK'
  <2>1. ASSUME TypeOK, UNCHANGED vars PROVE TypeOK'
    BY <2>1 DEF TypeOK, QueueTypeOK, vars, queueVars, sessionVars, fileVars,
                requestVars, horseVars
  <2> QED BY <2>1, RequestType, HorseType, RedisType DEF Next
<1> QED BY <1>1, <1>2, PTL DEF Spec

----------------------------------------------------------------------------
(* The lifecycle invariant.                                                *)

LEMMA RequestLifecycle ==
  ASSUME TypeOK, LifecycleInv, NEW r \in Requests, Request(r)
  PROVE  LifecycleInv'
<1> USE DEF TypeOK, LifecycleInv, LocksHold, UntouchedBeforeUpload,
            ActorsFollowAnUpload, TranscribedIsPublished, Locked, RowLocked,
            PastLoad, HasAudio, RequestGoes, RequestEnds, queueVars,
            sessionVars, fileVars, requestVars, horseVars
<1>1. CASE UploadBegin(r)
  BY <1>1, QueueAssumption DEF UploadBegin
<1>2. CASE UploadWrite(r)
  BY <1>2, QueueAssumption DEF UploadWrite
<1>3. CASE UploadTooLarge(r)
  BY <1>3, QueueAssumption DEF UploadTooLarge, RawDirRemoved
<1>4. CASE UploadInsert(r)
  BY <1>4, QueueAssumption DEF UploadInsert, UploadAccepted, Enqueue
<1>5. CASE UploadCommit(r)
  BY <1>5, QueueAssumption DEF UploadCommit
<1>6. CASE PurgeCheck(r)
  BY <1>6, QueueAssumption DEF PurgeCheck
<1>7. CASE PurgeFiles(r)
  BY <1>7, QueueAssumption DEF PurgeFiles, UnlinkAudio, RawDirRemoved
<1>8. CASE PurgeCommit(r)
  BY <1>8, QueueAssumption DEF PurgeCommit, PurgedRow
<1>9. CASE RestartCheck(r)
  BY <1>9, QueueAssumption DEF RestartCheck, Restartable
<1>10. CASE RestartEnqueue(r)
  BY <1>10, QueueAssumption DEF RestartEnqueue, Enqueue
<1>11. CASE RestartCommit(r)
  BY <1>11, QueueAssumption DEF RestartCommit, RestartedRow
<1>12. CASE RecoverCheck(r)
  BY <1>12, QueueAssumption DEF RecoverCheck, Recoverable
<1>13. CASE RecoverCommit(r)
  BY <1>13, QueueAssumption DEF RecoverCommit
<1>14. CASE DeleteAbort(r)
  BY <1>14, QueueAssumption DEF DeleteAbort, Abort
<1>15. CASE DeleteFiles(r)
  BY <1>15, QueueAssumption DEF DeleteFiles, UnlinkAudio, RawDirRemoved
<1>16. CASE DeleteCommit(r)
  BY <1>16, QueueAssumption DEF DeleteCommit
<1>17. CASE ApiCrash(r)
  BY <1>17, QueueAssumption DEF ApiCrash
<1> QED
  BY <1>1, <1>2, <1>3, <1>4, <1>5, <1>6, <1>7, <1>8, <1>9, <1>10, <1>11, <1>12, <1>13, <1>14, <1>15, <1>16, <1>17
  DEF Request, Upload, Purge, Restart, Recover, Delete

LEMMA HorseLifecycle ==
  ASSUME TypeOK, LifecycleInv, NEW w \in Workers, Horse(w)
  PROVE  LifecycleInv'
<1> USE DEF TypeOK, QueueTypeOK, LifecycleInv, LocksHold, UntouchedBeforeUpload,
            ActorsFollowAnUpload, TranscribedIsPublished, Locked, RowLocked,
            PastLoad, HasAudio, HorseGoes, HorseEnds, queueVars,
            sessionVars, fileVars, requestVars, horseVars
<1>1. CASE HorseStart(w)
  BY <1>1, QueueAssumption DEF HorseStart, Dequeue
<1>2. CASE HorseLoad(w)
  BY <1>2, QueueAssumption DEF HorseLoad
<1>3. CASE HorseClaim(w)
  BY <1>3, QueueAssumption DEF HorseClaim
<1>4. CASE HorseOpen(w)
  BY <1>4, QueueAssumption DEF HorseOpen, File
<1>5. CASE PrepareOk(w)
  BY <1>5, QueueAssumption DEF PrepareOk
<1>6. CASE PrepareFails(w)
  BY <1>6, QueueAssumption DEF PrepareFails, RawDirRemoved
<1>7. CASE HorseRelink(w)
  <2>1. RelinkedRow(w).path = "prepared"
    BY DEF RelinkedRow
  <2>2. audio.path # "none" => audio'.path # "none"
    BY <1>7, <2>1 DEF HorseRelink
  <2>3. audio.path = "none" => audio'.path = "none"
    BY <1>7 DEF HorseRelink
  <2> QED BY <1>7, <2>2, <2>3 DEF HorseRelink
<1>8. CASE HorseSweep(w)
  BY <1>8, QueueAssumption DEF HorseSweep, RawDirRemoved
<1>9. CASE HorseBuild(w)
  BY <1>9, QueueAssumption DEF HorseBuild
<1>10. CASE HorseCall(w)
  BY <1>10, QueueAssumption DEF HorseCall
<1>11. CASE HorseTimeout(w)
  BY <1>11, QueueAssumption DEF HorseTimeout
<1>12. CASE HorsePersist(w)
  BY <1>12, QueueAssumption DEF HorsePersist
<1>13. CASE HorseRestore(w)
  BY <1>13, QueueAssumption DEF HorseRestore
<1>14. CASE HorseFail(w)
  BY <1>14, QueueAssumption DEF HorseFail
<1>15. CASE HorseRaise(w)
  BY <1>15, QueueAssumption DEF HorseRaise, JobRaises
<1>16. CASE HorseFinish(w)
  BY <1>16, QueueAssumption DEF HorseFinish, Complete
<1>17. CASE HorseKilled(w)
  BY <1>17, QueueAssumption DEF HorseKilled, JobRaises, WorkerDies, StopDelivered
<1> QED BY <1>1, <1>2, <1>3, <1>4, <1>5, <1>6, <1>7, <1>8, <1>9, <1>10, <1>11, <1>12, <1>13, <1>14, <1>15, <1>16, <1>17 DEF Horse

LEMMA RedisLifecycle ==
  ASSUME LifecycleInv, NEW j \in JobIds, Redis(j)
  PROVE  LifecycleInv'
BY DEF Redis, Reap, Requeue, JobLost, LifecycleInv, LocksHold, Locked,
       UntouchedBeforeUpload, ActorsFollowAnUpload, PastLoad, HasAudio,
       TranscribedIsPublished, sessionVars, fileVars, requestVars, horseVars

\* Whatever the interleaving of requests, horses, retries and faults: what a
\* request or a horse acts on still holds when it acts, a session nobody
\* uploaded to is untouched, and a transcribed session has its transcript.
THEOREM LifecycleHolds == Spec => []LifecycleInv
<1>1. Init => LifecycleInv
  BY DEF Init, QueueInit, LifecycleInv, LocksHold, Locked, HasAudio, PastLoad,
         UntouchedBeforeUpload, ActorsFollowAnUpload, TranscribedIsPublished
<1>2. TypeOK /\ LifecycleInv /\ [Next]_vars => LifecycleInv'
  <2>1. ASSUME LifecycleInv, UNCHANGED vars PROVE LifecycleInv'
    BY <2>1 DEF LifecycleInv, LocksHold, Locked, HasAudio, PastLoad,
                UntouchedBeforeUpload, ActorsFollowAnUpload,
                TranscribedIsPublished, vars, queueVars, sessionVars,
                fileVars, requestVars, horseVars
  <2> QED BY <2>1, RequestLifecycle, HorseLifecycle, RedisLifecycle DEF Next
<1> QED BY <1>1, <1>2, TypeCorrect, PTL DEF Spec

----------------------------------------------------------------------------
(* Transcription implements SessionLifecycle.                              *)

\* What the job queue, the files and the actors' own steps leave unseen.
LEMMA Unseen ==
  ASSUME UNCHANGED <<exists, state, audio, transcript>>
  PROVE  UNCHANGED Lifecycle!vars
BY DEF Lifecycle!vars, HasAudio

LEMMA RequestRefines ==
  ASSUME TypeOK, LifecycleInv, NEW r \in Requests, Request(r)
  PROVE  [Lifecycle!Next]_Lifecycle!vars
<1> USE DEF TypeOK, sessionVars, LifecycleInv, LocksHold, UntouchedBeforeUpload,
            ActorsFollowAnUpload, HasAudio, Lifecycle!vars, Lifecycle!Live
<1>1. CASE UploadCommit(r)
  <2>1. Lifecycle!Accept
    BY <1>1 DEF UploadCommit, Lifecycle!Accept
  <2> QED BY <2>1 DEF Lifecycle!Next
<1>2. CASE PurgeCommit(r)
  <2>1. CASE exists /\ HasAudio
    <3>1. audio'.path = audio.path
      BY <1>2, <2>1 DEF PurgeCommit
    <3>2. Lifecycle!Withdraw
      BY <1>2, <2>1, <3>1 DEF PurgeCommit, PurgedRow, Lifecycle!Withdraw
    <3> QED BY <3>2 DEF Lifecycle!Next
  <2>2. CASE exists /\ ~HasAudio
    <3>1. audio'.path = audio.path
      BY <1>2, <2>2 DEF PurgeCommit
    <3> QED BY <1>2, <2>2, <3>1 DEF PurgeCommit, PurgedRow
  <2>3. CASE ~exists
    BY <1>2, <2>3, Unseen DEF PurgeCommit
  <2> QED BY <2>1, <2>2, <2>3
<1>3. CASE RestartCommit(r)
  <2>1. Lifecycle!Withdraw
    BY <1>3 DEF RestartCommit, RestartedRow, Lifecycle!Withdraw
  <2> QED BY <2>1 DEF Lifecycle!Next
<1>4. CASE RecoverCommit(r)
  <2>1. CASE exists
    <3>1. Lifecycle!SetBack
      BY <1>4, <2>1 DEF RecoverCommit, Lifecycle!SetBack
    <3> QED BY <3>1 DEF Lifecycle!Next
  <2>2. CASE ~exists
    BY <1>4, <2>2, Unseen DEF RecoverCommit
  <2> QED BY <2>1, <2>2
<1>5. CASE DeleteCommit(r)
  <2>1. Lifecycle!Delete
    BY <1>5 DEF DeleteCommit, NoAudio, Lifecycle!Delete
  <2> QED BY <2>1 DEF Lifecycle!Next
<1>6. CASE \/ UploadBegin(r) \/ UploadWrite(r) \/ UploadTooLarge(r)
           \/ UploadInsert(r) \/ PurgeCheck(r) \/ PurgeFiles(r)
           \/ RestartCheck(r) \/ RestartEnqueue(r) \/ RecoverCheck(r)
           \/ DeleteAbort(r) \/ DeleteFiles(r) \/ ApiCrash(r)
  <2>1. UNCHANGED sessionVars
    BY <1>6 DEF UploadBegin, UploadWrite, UploadTooLarge, UploadInsert,
                PurgeCheck, PurgeFiles, RestartCheck, RestartEnqueue,
                RecoverCheck, DeleteAbort, DeleteFiles, ApiCrash
  <2> QED BY <2>1, Unseen
<1> QED
  BY <1>1, <1>2, <1>3, <1>4, <1>5, <1>6
  DEF Request, Upload, Purge, Restart, Recover, Delete

LEMMA HorseRefines ==
  ASSUME TypeOK, LifecycleInv, NEW w \in Workers, Horse(w)
  PROVE  [Lifecycle!Next]_Lifecycle!vars
<1> USE DEF TypeOK, sessionVars, HorseGoes, LifecycleInv, UntouchedBeforeUpload,
            ActorsFollowAnUpload, PastLoad, HasAudio, Lifecycle!vars,
            Lifecycle!Live
<1>1. CASE HorseClaim(w)
  <2>1. CASE exists
    <3>1. Lifecycle!Attempt
      BY <1>1, <2>1 DEF HorseClaim, Lifecycle!Attempt
    <3> QED BY <3>1 DEF Lifecycle!Next
  <2>2. CASE ~exists
    BY <1>1, <2>2, Unseen DEF HorseClaim
  <2> QED BY <2>1, <2>2
<1>2. CASE HorseRelink(w)
  <2>1. RelinkedRow(w).path = "prepared"
    BY DEF RelinkedRow
  <2>2. HasAudio' <=> HasAudio
    BY <1>2, <2>1 DEF HorseRelink
  <2> QED BY <1>2, <2>2 DEF HorseRelink
<1>3. CASE HorsePersist(w)
  <2>1. CASE transcript' # transcript \/ state' # state
    <3>1. exists /\ state' = "transcribed" /\ transcript' = running[w]
      BY <1>3, <2>1 DEF HorsePersist
    <3>2. running[w] # NoJob
      BY <1>3 DEF HorsePersist
    <3>3. Lifecycle!Publish
      BY <1>3, <3>1, <3>2 DEF HorsePersist, Lifecycle!Publish
    <3> QED BY <3>3 DEF Lifecycle!Next
  <2>2. CASE ~(transcript' # transcript \/ state' # state)
    BY <1>3, <2>2, Unseen DEF HorsePersist
  <2> QED BY <2>1, <2>2
<1>4. CASE HorseRestore(w) \/ HorseFail(w)
  <2>1. CASE exists
    <3>1. Lifecycle!SetBack
      BY <1>4, <2>1 DEF HorseRestore, HorseFail, Lifecycle!SetBack
    <3> QED BY <3>1 DEF Lifecycle!Next
  <2>2. CASE ~exists
    BY <1>4, <2>2, Unseen DEF HorseRestore, HorseFail
  <2> QED BY <2>1, <2>2
<1>5. CASE \/ HorseStart(w) \/ HorseLoad(w) \/ HorseOpen(w) \/ PrepareOk(w)
           \/ PrepareFails(w) \/ HorseSweep(w) \/ HorseBuild(w)
           \/ HorseCall(w) \/ HorseTimeout(w) \/ HorseRaise(w)
           \/ HorseFinish(w) \/ HorseKilled(w)
  <2>1. UNCHANGED sessionVars
    BY <1>5 DEF HorseStart, HorseLoad, HorseOpen, PrepareOk, PrepareFails,
                HorseSweep, HorseBuild, HorseCall, HorseTimeout, HorseRaise,
                HorseFinish, HorseKilled
  <2> QED BY <2>1, Unseen
<1> QED BY <1>1, <1>2, <1>3, <1>4, <1>5 DEF Horse

\* A client of the API sees the session change by the steps of SessionLifecycle
\* only: every step of a request, a horse or Redis is one of them, or unseen.
THEOREM Refinement == Spec => RefinesLifecycle
<1>1. Init => Lifecycle!Init
  BY DEF Init, NoAudio, HasAudio, Lifecycle!Init
<1>2. TypeOK /\ LifecycleInv /\ [Next]_vars => [Lifecycle!Next]_Lifecycle!vars
  <2>1. ASSUME UNCHANGED vars PROVE UNCHANGED Lifecycle!vars
    BY <2>1, Unseen DEF vars, sessionVars
  <2>2. ASSUME NEW j \in JobIds, Redis(j) PROVE UNCHANGED Lifecycle!vars
    BY <2>2, Unseen DEF Redis, sessionVars
  <2> QED BY <2>1, <2>2, RequestRefines, HorseRefines DEF Next
<1> QED
  BY <1>1, <1>2, TypeCorrect, LifecycleHolds, PTL DEF Spec, RefinesLifecycle, Lifecycle!Spec

----------------------------------------------------------------------------
(* The audio files, with one worker.                                       *)

OneWorker == \A u, v \in Workers : u = v

\* The path a horse has read is still the row's, until it changes it itself.
PathsKept ==
  \A w \in Workers : exists =>
    /\ wstep[w] \in {"claim", "open"} => wpath[w] = audio.path
    /\ wstep[w] \in {"prepare", "relink"} => audio.path = "raw"
    /\ wstep[w] \in {"sweep", "build", "call", "persist"} => audio.path = "prepared"

\* A file is not replaced between its checksum and its row.
HashesKept == \A w \in Workers : wstep[w] = "relink" => prepared = wsrc[w]

AudioInv == PathsKept /\ HashesKept /\ HashMatchesPreparedFile

----------------------------------------------------------------------------
(* One request at a time, without a scheduler.                             *)

OneRequest == \A q, r \in Requests : q = r

\* No request is cut short between Redis and its commit.
Serial == OneWorker /\ OneRequest /\ ~WithScheduler /\ "api_crash" \notin Faults

HorsesRun == \A w \in Workers : wstep[w] # "idle" => rq[running[w]] = "started"

\* Enqueued by a request that has not committed: its horse waits for the row.
Enqueued(j) ==
  \E r \in Requests : rstep[r] \in {"upload_commit", "restart_commit"} /\ rjob[r] = j

\* A run is that of the current job, but after a purge or a deletion.
RunsAreCurrent ==
  /\ OneRunAtATime
  /\ \A j \in JobIds : Pending(j) =>
       \/ Enqueued(j) \/ ~exists \/ audio.purged
       \/ currentJob = j /\ state \notin {"transcription_failed", "transcribed"}
  /\ state = "transcribed" => \A j \in JobIds : Pending(j) => Enqueued(j)

\* A run that has not opened the audio yet.
Fresh(j) ==
  \/ rq[j] = "queued"
  \/ \E w \in Workers : running[w] = j /\ wstep[w] \in {"load", "claim", "open"}

\* The files are removed before the row is marked: runs that begin find none.
PurgesKnow ==
  \A r \in Requests :
    /\ rstep[r] = "upload_write" => ~HasAudio
    /\ rstep[r] = "purge_commit" => ~HasAudio \/ audio.purged
    /\ rstep[r] = "purge_mark_commit" =>
         /\ exists /\ HasAudio /\ raw = NoFile
         /\ audio.path = "prepared" /\ (\E j \in JobIds : Fresh(j)) => prepared = NoFile

RestartsKnow ==
  \A r \in Requests :
    /\ rstep[r] \in {"restart_enqueue", "restart_commit"} =>
         exists /\ HasAudio /\ ~audio.purged /\ Restartable
    /\ rstep[r] \in {"upload_commit", "restart_commit"} =>
         /\ rq[rjob[r]] \notin {"none", "finished"}
         /\ \A j \in JobIds : Pending(j) => j = rjob[r]
         /\ \A w \in Workers : /\ Busy(w) => wstep[w] \in {"load", "claim"}
                               /\ running[w] = rjob[r] => wstep[w] # "finish"

\* Nothing runs for the job that recovery has found dead.
RecoveriesKnow ==
  \A r \in Requests : rstep[r] = "recover_commit" =>
    /\ exists /\ state \in {"transcribing", "transcription_failed"}
    /\ audio.purged \/ \A j \in JobIds : ~Pending(j)
    /\ rjob[r] # NoJob => rq[rjob[r]] \notin ActiveStatuses \cup {"none", "finished"}

\* After a purge, a run goes on without a session to own, or finds no file.
PurgedIsQuiet ==
  /\ audio.purged => HasAudio /\ raw = NoFile
  /\ audio.purged => \A w \in Workers :
       /\ wstep[w] \in {"claim", "open"} => File(wpath[w]) = NoFile
       /\ PastLoad(w) => wstep[w] \in {"claim", "open", "fail"} \/ state = "created"

\* The current job exists, and has finished only if it has transcribed.
CurrentJobRan ==
  currentJob # NoJob =>
    /\ rq[currentJob] # "none"
    /\ rq[currentJob] = "finished" => state = "transcribed"
    /\ \A w \in Workers : wstep[w] = "finish" /\ running[w] = currentJob
         => state = "transcribed"

\* A failed row's job will not succeed.
FailuresAreFinal ==
  \A j \in JobIds : jobRow[j] = "failed" =>
    /\ rq[j] \notin {"none", "queued", "finished"}
    /\ \A w \in Workers : running[w] = j => wstep[w] \in {"raise", "raise_permanent"}

\* A run persists what it has transcribed from a file that is still there.
PersistsPlayable ==
  \A w \in Workers : wstep[w] = "persist" =>
    \/ prepared # NoFile
    \/ audio.purged \/ ~exists
    \/ \E r \in Requests : rstep[r] \in {"delete_commit", "purge_mark_commit"}

RunsInv ==
  HorsesRun /\ RunsAreCurrent /\ RestartsKnow /\ RecoveriesKnow

RowsInv == CurrentJobTracksAudio /\ CurrentJobRan /\ FailuresAreFinal

SessionInv ==
  /\ PurgesKnow /\ PurgedIsQuiet
  /\ HorseOwnsTheSession
  /\ TranscriptOnlyWhenTranscribed
  /\ PersistsPlayable /\ TranscribedAudioIsPlayable

SerialInv == RunsInv /\ RowsInv /\ SessionInv

\* A request marks a row purged, or replaces or drops it; it writes raw files,
\* and unlinks a prepared one that a row still names.
LEMMA RequestAudio ==
  ASSUME TypeOK, LifecycleInv, AudioInv, NEW r \in Requests, Request(r)
  PROVE  AudioInv'
<1> USE DEF sessionVars, fileVars, horseVars
<1>1. UNCHANGED <<wstep, wpath, wsrc>>
  BY DEF Request, Upload, Purge, Restart, Recover, Delete, UploadBegin, UploadWrite,
    UploadTooLarge, UploadInsert, UploadCommit, PurgeCheck, PurgeFiles, PurgeCommit,
    RestartCheck, RestartEnqueue, RestartCommit, RecoverCheck, RecoverCommit,
    DeleteAbort, DeleteFiles, DeleteCommit, ApiCrash
<1>2. CASE UploadCommit(r)
  <2>1. exists /\ ~HasAudio /\ audio'.path = "raw" /\ UNCHANGED prepared
    BY <1>2 DEF UploadCommit, LifecycleInv, LocksHold
  <2>2. \A w \in Workers : ~PastLoad(w)
    BY <2>1 DEF LifecycleInv, ActorsFollowAnUpload
  <2> QED
    BY <1>1, <2>1, <2>2 DEF AudioInv, PathsKept, HashesKept, HashMatchesPreparedFile, PastLoad
<1>3. CASE DeleteCommit(r)
  BY <1>1, <1>3
  DEF DeleteCommit, AudioInv, PathsKept, HashesKept, HashMatchesPreparedFile
<1>4. CASE PurgeFiles(r) \/ DeleteFiles(r)
  <2>1. /\ UNCHANGED <<exists, audio>>
        /\ prepared' = IF audio.path = "prepared" /\ ~audio.purged THEN NoFile ELSE prepared
    BY <1>4 DEF PurgeFiles, DeleteFiles, UnlinkAudio
  <2>2. PathsKept' /\ HashMatchesPreparedFile'
    BY <1>1, <2>1 DEF AudioInv, PathsKept, HashMatchesPreparedFile
  <2>3. HashesKept'
    <3> SUFFICES ASSUME NEW w \in Workers, wstep[w] = "relink" PROVE prepared' = wsrc[w]
      BY <1>1 DEF HashesKept
    <3>1. audio.path # "prepared"
      BY DEF AudioInv, PathsKept, LifecycleInv, UntouchedBeforeUpload, HasAudio
    <3> QED BY <2>1, <3>1 DEF AudioInv, HashesKept
  <2> QED BY <2>2, <2>3 DEF AudioInv
<1>5. CASE ~ (UploadCommit(r) \/ DeleteCommit(r) \/ PurgeFiles(r) \/ DeleteFiles(r))
  <2>1. UNCHANGED <<exists, prepared>> /\ audio'.path = audio.path /\ audio'.sha = audio.sha
    BY <1>5 DEF TypeOK, Request, Upload, Purge, Restart, Recover, Delete, UploadBegin,
      UploadWrite, UploadTooLarge, UploadInsert, PurgeCheck, PurgeCommit, RestartCheck,
      RestartEnqueue, RestartCommit, RecoverCheck, RecoverCommit, DeleteAbort, ApiCrash
  <2> QED BY <1>1, <2>1 DEF AudioInv, PathsKept, HashesKept, HashMatchesPreparedFile
<1> QED BY <1>2, <1>3, <1>4, <1>5

\* A horse truncates and writes the prepared file only while no row names it.
LEMMA HorseAudio ==
  ASSUME TypeOK, LifecycleInv, AudioInv, OneWorker, NEW w \in Workers, Horse(w)
  PROVE  AudioInv'
<1> USE DEF sessionVars, fileVars, HorseGoes, HorseEnds
<1>1. \A v \in Workers : v = w
  BY DEF OneWorker
<1>2. wstep \in [Workers -> HorseSteps] /\ wsrc \in [Workers -> Content]
      /\ wpath \in [Workers -> {"raw", "prepared"}]
  BY DEF TypeOK
<1>3. CASE HorseLoad(w)
  BY <1>1, <1>2, <1>3
  DEF HorseLoad, HasAudio, AudioInv, PathsKept, HashesKept, HashMatchesPreparedFile
<1>4. CASE HorseOpen(w)
  <2>1. UNCHANGED <<exists, audio, wpath>>
    BY <1>4 DEF HorseOpen
  <2>2. /\ wstep[w] = "open" /\ wstep'[w] \in {"fail", "prepare", "build"}
        /\ wstep'[w] = "prepare" => wpath[w] = "raw"
        /\ wstep'[w] = "build" => wpath[w] = "prepared"
        /\ wstep'[w] # "prepare" => UNCHANGED prepared
    BY <1>2, <1>4 DEF HorseOpen
  <2>3. exists => wpath[w] = audio.path
    BY <2>2 DEF AudioInv, PathsKept
  <2>4. ~exists => audio.path = "none"
    BY DEF LifecycleInv, UntouchedBeforeUpload, HasAudio
  <2> QED
    BY <1>1, <2>1, <2>2, <2>3, <2>4
    DEF AudioInv, PathsKept, HashesKept, HashMatchesPreparedFile
<1>5. CASE PrepareOk(w) \/ PrepareFails(w)
  <2>1. /\ UNCHANGED <<exists, audio, wpath>> /\ wstep[w] = "prepare"
        /\ \/ wstep'[w] = "relink" /\ prepared' = wsrc'[w]
           \/ wstep'[w] = "fail"
    BY <1>2, <1>5 DEF PrepareOk, PrepareFails
  <2>2. audio.path # "prepared"
    BY <2>1 DEF AudioInv, PathsKept, LifecycleInv, UntouchedBeforeUpload, HasAudio
  <2>3. exists => audio.path = "raw"
    BY <2>1 DEF AudioInv, PathsKept
  <2> QED
    BY <1>1, <2>1, <2>2, <2>3 DEF AudioInv, PathsKept, HashesKept, HashMatchesPreparedFile
<1>6. CASE HorseRelink(w)
  <2>1. /\ UNCHANGED <<exists, prepared, wpath, wsrc>> /\ wstep[w] = "relink"
        /\ \/ wstep'[w] = "sweep" /\ audio'.path = "prepared" /\ audio'.sha = wsrc[w]
           \/ wstep'[w] = "fail" /\ UNCHANGED audio
    BY <1>2, <1>6 DEF HorseRelink, RelinkedRow, TypeOK
  <2> QED
    BY <1>1, <2>1 DEF AudioInv, PathsKept, HashesKept, HashMatchesPreparedFile
<1>7. CASE \/ HorseStart(w) \/ HorseClaim(w) \/ HorseSweep(w) \/ HorseBuild(w)
           \/ HorseCall(w) \/ HorseTimeout(w) \/ HorsePersist(w) \/ HorseRestore(w)
           \/ HorseFail(w) \/ HorseRaise(w) \/ HorseFinish(w) \/ HorseKilled(w)
  <2>1. UNCHANGED <<exists, prepared, audio>>
    BY <1>7 DEF HorseStart, HorseClaim, HorseSweep, HorseBuild, HorseCall, HorseTimeout,
      HorsePersist, HorseRestore, HorseFail, HorseRaise, HorseFinish, HorseKilled
  <2>2. /\ wstep'[w] \in {"claim", "open"} => wstep[w] \in {"claim", "open"} /\ UNCHANGED wpath
        /\ wstep'[w] \notin {"prepare", "relink"}
        /\ wstep'[w] \in {"sweep", "build", "call", "persist"}
             => wstep[w] \in {"sweep", "build", "call", "persist"}
    BY <1>2, <1>7
    DEF HorseStart, HorseClaim, HorseSweep, HorseBuild, HorseCall, HorseTimeout,
      HorsePersist, HorseRestore, HorseFail, HorseRaise, HorseFinish, HorseKilled
  <2> QED
    BY <1>1, <2>1, <2>2 DEF AudioInv, PathsKept, HashesKept, HashMatchesPreparedFile
<1> QED BY <1>3, <1>4, <1>5, <1>6, <1>7 DEF Horse

LEMMA OthersAudio ==
  ASSUME AudioInv, UNCHANGED <<exists, audio, prepared, wstep, wpath, wsrc>>
  PROVE  AudioInv'
BY DEF AudioInv, PathsKept, HashesKept, HashMatchesPreparedFile

\* With one worker, whatever uploads, purges and deletions overlap: no file is
\* replaced under a horse's hands after it has computed the checksum, and the
\* row names a file only once it is complete.
THEOREM AudioHolds ==
  ASSUME OneWorker
  PROVE  Spec => []AudioInv
<1>1. Init => AudioInv
  BY DEF Init, AudioInv, PathsKept, HashesKept, HashMatchesPreparedFile
<1>2. TypeOK /\ LifecycleInv /\ AudioInv /\ [Next]_vars => AudioInv'
  <2>1. ASSUME AudioInv, UNCHANGED vars PROVE AudioInv'
    BY <2>1, OthersAudio DEF vars, sessionVars, fileVars, horseVars
  <2>2. ASSUME AudioInv, NEW j \in JobIds, Redis(j) PROVE AudioInv'
    BY <2>2, OthersAudio DEF Redis, sessionVars, fileVars, horseVars
  <2> QED BY <2>1, <2>2, RequestAudio, HorseAudio DEF Next
<1> QED BY <1>1, <1>2, TypeCorrect, LifecycleHolds, PTL DEF Spec

\* The checksum stored with the audio is that of the prepared file, also when a
\* concurrent upload has overwritten the raw file (jobs/jdr.py).
THEOREM ChecksumsMatch ==
  ASSUME OneWorker
  PROVE  Spec => []HashMatchesPreparedFile
BY AudioHolds, PTL DEF AudioInv

----------------------------------------------------------------------------
(* How the queue moves, one request at a time.                             *)

Known == TypeOK /\ LifecycleInv /\ AudioInv /\ SerialInv

USE DEF SerialInv, RunsInv, RowsInv, SessionInv, ActiveStatuses

\* A request adds a job that was not there, or aborts the current one.
LEMMA RequestQueue ==
  ASSUME TypeOK, NEW r \in Requests, Request(r)
  PROVE  /\ UNCHANGED <<running, wstep, wpath, wsrc>>
         /\ UploadInsert(r) \/ RestartEnqueue(r) \/ DeleteAbort(r) \/ UNCHANGED rq
BY DEF Request, Upload, Purge, Restart, Recover, Delete, UploadBegin, UploadWrite,
    UploadTooLarge, UploadInsert, UploadCommit, PurgeCheck, PurgeFiles, PurgeCommit,
    RestartCheck, RestartEnqueue, RestartCommit, RecoverCheck, RecoverCommit,
    DeleteAbort, DeleteFiles, DeleteCommit, ApiCrash, Enqueue, Abort, queueVars, horseVars

Starts(w, j) ==
  /\ wstep[w] = "idle" /\ wstep' = [wstep EXCEPT ![w] = "load"]
  /\ running[w] = NoJob /\ running' = [running EXCEPT ![w] = j]
  /\ rq[j] = "queued" /\ rq' = [rq EXCEPT ![j] = "started"]
  /\ UNCHANGED <<sessionVars, fileVars, requestVars, wpath, wsrc>>

Stays(w) ==
  /\ wstep[w] # "idle" /\ wstep' = [wstep EXCEPT ![w] = wstep'[w]]
  /\ wstep'[w] \in HorseSteps \ {"idle", "load"}
  /\ UNCHANGED <<queueVars, requestVars>>

Leaves(w) ==
  /\ wstep[w] # "idle" /\ wstep' = [wstep EXCEPT ![w] = "idle"]
  /\ running[w] # NoJob /\ running' = [running EXCEPT ![w] = NoJob]
  /\ \E status \in {"scheduled", "failed", "finished", "stopped"} :
       /\ rq' = [rq EXCEPT ![running[w]] = status] \/ UNCHANGED rq
       /\ status = "finished" => wstep[w] = "finish"
  /\ UNCHANGED <<sessionVars, fileVars, requestVars>>

LEMMA HorseMoves ==
  ASSUME TypeOK, LifecycleInv, NEW w \in Workers, Horse(w)
  PROVE  (\E j \in JobIds : Starts(w, j)) \/ Stays(w) \/ Leaves(w)
<1> USE DEF HorseGoes, HorseEnds
<1>1. wstep[w] # "idle" => running[w] # NoJob
  BY DEF LifecycleInv, ActorsFollowAnUpload
<1>2. wstep \in [Workers -> HorseSteps]
  BY DEF TypeOK
<1>3. CASE HorseStart(w)
  BY <1>3 DEF HorseStart, Dequeue, Starts
<1>4. CASE HorseLoad(w) \/ HorseClaim(w) \/ HorseOpen(w) \/ PrepareOk(w) \/ PrepareFails(w)
  BY <1>2, <1>4 DEF HorseLoad, HorseClaim, HorseOpen, PrepareOk, PrepareFails, Stays
<1>5. CASE HorseRelink(w) \/ HorseSweep(w) \/ HorseBuild(w) \/ HorseCall(w)
           \/ HorseTimeout(w)
  BY <1>2, <1>5 DEF HorseRelink, HorseSweep, HorseBuild, HorseCall, HorseTimeout, Stays
<1>6. CASE HorsePersist(w) \/ HorseRestore(w) \/ HorseFail(w)
  BY <1>2, <1>6 DEF HorsePersist, HorseRestore, HorseFail, Stays
<1>7. CASE HorseRaise(w)
  BY <1>7 DEF HorseRaise, JobRaises, Failure, Leaves
<1>8. CASE HorseFinish(w)
  BY <1>8 DEF HorseFinish, Complete, Leaves
<1>9. CASE HorseKilled(w)
  BY <1>1, <1>9 DEF HorseKilled, JobRaises, Failure, WorkerDies, StopDelivered, Leaves
<1> QED BY <1>3, <1>4, <1>5, <1>6, <1>7, <1>8, <1>9 DEF Horse

\* A job Redis handles on its own is run by no horse.
LEMMA RedisMoves ==
  ASSUME TypeOK, ~WithScheduler, NEW j \in JobIds, Redis(j)
  PROVE  /\ UNCHANGED <<running, sessionVars, fileVars, requestVars, horseVars>>
         /\ rq[j] \in {"queued", "scheduled"} \/ Abandoned(j)
         /\ \E status \in {"scheduled", "failed", "gone"} : rq' = [rq EXCEPT ![j] = status]
BY DEF Redis, Reap, Failure, Requeue, JobLost

FewerRuns ==
  \A j \in JobIds : /\ Pending(j)' => Pending(j)
                    /\ Fresh(j)' => Fresh(j)

LEMMA HorseRuns ==
  ASSUME TypeOK, LifecycleInv, HorsesRun, OneWorker, NEW w \in Workers, Horse(w)
  PROVE  HorsesRun' /\ FewerRuns
<1> USE DEF HorseGoes, HorseEnds
<1>1. \A v \in Workers : v = w
  BY DEF OneWorker
<1>2. /\ rq \in [JobIds -> RqStatus] /\ NoJob \notin JobIds
      /\ running \in [Workers -> JobIds \cup {NoJob}]
      /\ wstep \in [Workers -> HorseSteps]
  BY QueueAssumption DEF TypeOK, QueueTypeOK
<1>3. wstep[w] # "idle" => running[w] \in JobIds /\ rq[running[w]] = "started"
  BY <1>2 DEF LifecycleInv, ActorsFollowAnUpload, HorsesRun
<1>4. CASE \E j \in JobIds : Starts(w, j)
  BY <1>1, <1>2, <1>4 DEF Starts, HorsesRun, FewerRuns, Pending, Fresh, Busy
<1>5. CASE Leaves(w)
  BY <1>1, <1>2, <1>3, <1>5 DEF Leaves, HorsesRun, FewerRuns, Pending, Fresh, Busy
<1>6. CASE Stays(w)
  <2>1. UNCHANGED <<rq, running>>
    BY <1>6 DEF Stays, queueVars
  <2>2. /\ wstep'[w] \in {"load", "claim", "open"} => wstep[w] \in {"load", "claim", "open"}
        /\ Busy(w)' => Busy(w)
    BY <1>2, <1>6
    DEF Stays, Busy, Horse, HorseStart, HorseLoad, HorseClaim, HorseOpen, PrepareOk, PrepareFails,
      HorseRelink, HorseSweep, HorseBuild, HorseCall, HorseTimeout, HorsePersist,
      HorseRestore, HorseFail, HorseRaise, HorseFinish, HorseKilled
  <2> QED BY <1>1, <1>3, <1>6, <2>1, <2>2 DEF Stays, HorsesRun, FewerRuns, Pending, Fresh
<1> QED BY <1>4, <1>5, <1>6, HorseMoves

LEMMA RedisRuns ==
  ASSUME TypeOK, LifecycleInv, HorsesRun, ~WithScheduler, NEW c \in JobIds, Redis(c)
  PROVE  HorsesRun' /\ FewerRuns
<1>1. UNCHANGED <<running, wstep>> /\ rq \in [JobIds -> RqStatus]
  BY RedisMoves DEF horseVars, TypeOK, QueueTypeOK
<1>2. \A w \in Workers : wstep[w] # "idle" => running[w] # c
  BY RedisMoves DEF Abandoned, HorsesRun
<1>3. PICK status \in {"scheduled", "failed", "gone"} : rq' = [rq EXCEPT ![c] = status]
  BY RedisMoves
<1>4. \A w \in Workers : wstep[w] # "idle" => running[w] \in JobIds
  BY DEF TypeOK, QueueTypeOK, LifecycleInv, ActorsFollowAnUpload
<1> QED BY <1>1, <1>2, <1>3, <1>4 DEF HorsesRun, FewerRuns, Pending, Fresh, Busy

\* What a run is before its horse has claimed the session.
LEMMA FreshIsPending ==
  ASSUME NEW j \in JobIds, Fresh(j)
  PROVE  Pending(j)
BY DEF Fresh, Pending, Busy

----------------------------------------------------------------------------
(* One request at a time.                                                  *)

RequestTypes ==
  /\ rstep \in [Requests -> RequestSteps]
  /\ rjob \in [Requests -> JobIds \cup {NoJob}]
  /\ rq \in [JobIds -> RqStatus] /\ NoJob \notin JobIds

LEMMA RequestTypesHold ==
  ASSUME TypeOK
  PROVE  RequestTypes
BY QueueAssumption DEF TypeOK, QueueTypeOK, RequestTypes

\* Requests that leave the rows and the horses alone leave alone what relates them.
LEMMA RowsStay ==
  ASSUME RowsInv, UNCHANGED <<currentJob, audio, state, jobRow, running, wstep>>,
         \A j \in JobIds : /\ rq'[j] \in {"none", "finished"} => rq'[j] = rq[j]
                           /\ rq'[j] = "queued" => rq[j] \in {"none", "queued"},
         currentJob \in JobIds \cup {NoJob}
  PROVE  RowsInv'
BY DEF CurrentJobTracksAudio, HasAudio, CurrentJobRan, FailuresAreFinal

LEMMA RunsStay ==
  ASSUME RunsAreCurrent, HorsesRun,
         UNCHANGED <<rq, running, wstep, currentJob, audio, state, exists>>,
         \A j \in JobIds : Enqueued(j) => Enqueued(j)'
  PROVE  RunsAreCurrent' /\ HorsesRun'
BY DEF RunsAreCurrent, HorsesRun, OneRunAtATime, Pending, Busy

\* A check reads the rows, or the queue, and changes neither.
LEMMA CheckSerial ==
  ASSUME Known, Serial, NEW r \in Requests,
         UploadBegin(r) \/ PurgeCheck(r) \/ RestartCheck(r) \/ RecoverCheck(r)
  PROVE  SerialInv'
<1> USE DEF Known
<1>1. \A q \in Requests : q = r
  BY DEF Serial, OneRequest
<1>2. /\ UNCHANGED <<rq, running, exists, mode, state, currentJob, audio, jobRow, transcript,
                     prepared, wstep, wpath, wsrc>>
      /\ rstep[r] = "idle"
      /\ rstep'[r] \in {"upload_write", "purge_files", "restart_enqueue", "recover_commit"}
  BY RequestTypesHold
  DEF RequestTypes, UploadBegin, PurgeCheck, RestartCheck, RecoverCheck, RequestGoes, queueVars, sessionVars,
      fileVars, horseVars
<1>3. \A j \in JobIds : ~Enqueued(j)
  BY <1>1, <1>2 DEF Enqueued
<1>4. HorsesRun' /\ RunsAreCurrent'
  BY <1>2, <1>3, RunsStay
<1>5. RowsInv'
  BY <1>2, RowsStay DEF TypeOK
<1>6. RestartsKnow'
  BY <1>1, <1>2 DEF RestartsKnow, RestartCheck, Restartable, HasAudio, UploadBegin, PurgeCheck, RecoverCheck, RequestGoes, TypeOK
<1>7. RecoveriesKnow'
  <2>1. CASE RecoverCheck(r)
    <3>1. /\ exists /\ state = "transcribing" /\ ~Active(currentJob)
          /\ rstep'[r] = "recover_commit" /\ rjob'[r] = currentJob
      BY <2>1, RequestTypesHold DEF RequestTypes, RecoverCheck, Recoverable, RequestGoes
    <3>2. ASSUME NEW j \in JobIds, Pending(j), ~audio.purged
          PROVE  FALSE
      <4>1. currentJob = j
        BY <1>3, <3>1, <3>2 DEF RunsAreCurrent
      <4>2. rq[j] \in {"queued", "started"}
        BY <3>2 DEF Pending, HorsesRun, Busy
      <4> QED BY <3>1, <4>1, <4>2, RequestTypesHold DEF RequestTypes, Active
    <3>3. currentJob # NoJob => rq[currentJob] \notin ActiveStatuses \cup {"none", "finished"}
      BY <3>1 DEF Active, CurrentJobRan
    <3>4. audio'.purged \/ \A j \in JobIds : ~Pending(j)'
      BY <1>2, <3>2 DEF Pending, Busy
    <3> QED BY <1>1, <1>2, <3>1, <3>3, <3>4 DEF RecoveriesKnow
  <2>2. CASE ~RecoverCheck(r)
    <3>1. rstep'[r] # "recover_commit"
      BY <1>2, <2>2, RequestTypesHold DEF RequestTypes, UploadBegin, PurgeCheck, RestartCheck, RequestGoes
    <3> QED BY <1>1, <3>1 DEF RecoveriesKnow
  <2> QED BY <2>1, <2>2
<1>8. PurgesKnow' /\ PurgedIsQuiet'
  <2>1. rstep'[r] = "upload_write" => ~HasAudio
    BY <1>2, RequestTypesHold
    DEF RequestTypes, UploadBegin, UploadAccepted, PurgeCheck, RestartCheck, RecoverCheck, RequestGoes
  <2>2. audio.purged => UNCHANGED raw
    BY DEF UploadBegin, UploadAccepted, PurgedIsQuiet, PurgeCheck, RestartCheck, RecoverCheck, fileVars
  <2> QED BY <1>1, <1>2, <2>1, <2>2 DEF PurgesKnow, PurgedIsQuiet, HasAudio, File, PastLoad
<1>9. HorseOwnsTheSession' /\ TranscriptOnlyWhenTranscribed'
  BY <1>2 DEF HorseOwnsTheSession, TranscriptOnlyWhenTranscribed, PastLoad
<1>10. PersistsPlayable' /\ TranscribedAudioIsPlayable'
  BY <1>1, <1>2 DEF PersistsPlayable, TranscribedAudioIsPlayable
<1> QED BY <1>4, <1>5, <1>6, <1>7, <1>8, <1>9, <1>10

\* Files are written and unlinked before the rows that name them are marked.
LEMMA FilesSerial ==
  ASSUME Known, Serial, NEW r \in Requests,
         UploadWrite(r) \/ UploadTooLarge(r) \/ PurgeFiles(r) \/ DeleteFiles(r)
  PROVE  SerialInv'
<1> USE DEF Known
<1>1. \A q \in Requests : q = r
  BY DEF Serial, OneRequest
<1>2. /\ UNCHANGED <<rq, running, exists, mode, state, currentJob, audio, jobRow, transcript,
                     wstep, wpath, wsrc>>
      /\ rstep[r] \in {"upload_write", "purge_files", "delete_files"}
      /\ rstep'[r] \in {"upload_insert", "idle", "purge_commit", "purge_mark_commit",
                        "delete_commit"}
  BY RequestTypesHold
  DEF RequestTypes, UploadWrite, UploadTooLarge, PurgeFiles, DeleteFiles, RequestGoes,
      RequestEnds, queueVars, sessionVars, horseVars
<1>3. \A j \in JobIds : ~Enqueued(j)
  BY <1>1, <1>2 DEF Enqueued
<1>4. HorsesRun' /\ RunsAreCurrent'
  BY <1>2, <1>3, RunsStay
<1>5. RowsInv'
  BY <1>2, RowsStay DEF TypeOK
<1>6. RestartsKnow' /\ RecoveriesKnow'
  BY <1>1, <1>2 DEF RestartsKnow, RecoveriesKnow
<1>7. HorseOwnsTheSession' /\ TranscriptOnlyWhenTranscribed'
  BY <1>2 DEF HorseOwnsTheSession, TranscriptOnlyWhenTranscribed, PastLoad
<1>8. CASE UploadWrite(r) \/ UploadTooLarge(r)
  <2>1. ~HasAudio /\ UNCHANGED prepared /\ rstep'[r] \in {"upload_insert", "idle"}
    BY <1>8, RequestTypesHold
    DEF RequestTypes, UploadWrite, UploadTooLarge, PurgesKnow, RequestGoes, RequestEnds
  <2>2. PurgesKnow' /\ PurgedIsQuiet'
    BY <1>1, <1>2, <2>1 DEF PurgesKnow, PurgedIsQuiet, HasAudio
  <2>3. rstep[r] = "upload_write"
    BY <1>8 DEF UploadWrite, UploadTooLarge
  <2>4. PersistsPlayable' /\ TranscribedAudioIsPlayable'
    BY <1>1, <1>2, <2>1, <2>3 DEF PersistsPlayable, TranscribedAudioIsPlayable
  <2> QED BY <1>4, <1>5, <1>6, <1>7, <2>2, <2>4
<1>9. CASE PurgeFiles(r) \/ DeleteFiles(r)
  <2>1. /\ raw' = NoFile
        /\ prepared' = IF audio.path = "prepared" /\ ~audio.purged THEN NoFile ELSE prepared
        /\ \/ DeleteFiles(r) /\ rstep'[r] = "delete_commit"
           \/ HasAudio /\ ~audio.purged /\ rstep'[r] = "purge_mark_commit"
           \/ ~HasAudio /\ rstep'[r] = "purge_commit"
           \/ audio.purged /\ rstep'[r] = "purge_commit"
    BY <1>9, RequestTypesHold
    DEF RequestTypes, PurgeFiles, DeleteFiles, UnlinkAudio, RawDirRemoved, RequestGoes
  <2>2. HasAudio => exists
    BY DEF LifecycleInv, UntouchedBeforeUpload
  <2>3. PurgesKnow'
    BY <1>1, <1>2, <2>1, <2>2 DEF PurgesKnow, HasAudio
  <2>4. PurgedIsQuiet'
    BY <1>2, <2>1 DEF PurgedIsQuiet, HasAudio, File, PastLoad
  <2>5. PersistsPlayable'
    <3> SUFFICES ASSUME NEW w \in Workers, wstep[w] = "persist"
                 PROVE  \/ prepared' # NoFile \/ audio.purged \/ ~exists
                        \/ rstep'[r] \in {"delete_commit", "purge_mark_commit"}
      BY <1>2 DEF PersistsPlayable
    <3>1. HasAudio \/ ~exists
      BY DEF LifecycleInv, ActorsFollowAnUpload, PastLoad
    <3> QED BY <2>1, <3>1
  <2>6. TranscribedAudioIsPlayable'
    <3> SUFFICES ASSUME state = "transcribed", ~audio.purged,
                        rstep'[r] \notin {"delete_commit", "purge_mark_commit"}
                 PROVE  FALSE
      BY <1>1, <1>2 DEF TranscribedAudioIsPlayable
    <3>1. ~HasAudio
      BY <2>1
    <3> QED BY <3>1 DEF LifecycleInv, UntouchedBeforeUpload
  <2> QED BY <1>4, <1>5, <1>6, <1>7, <2>3, <2>4, <2>5, <2>6
<1> QED BY <1>8, <1>9

\* A deletion cancels the current job, or has it stopped; it may not be there.
LEMMA DeleteAbortSerial ==
  ASSUME Known, Serial, NEW r \in Requests, DeleteAbort(r)
  PROVE  SerialInv'
<1> USE DEF Known
<1>1. \A q \in Requests : q = r
  BY DEF Serial, OneRequest
<1>2. /\ UNCHANGED <<running, exists, mode, state, currentJob, audio, jobRow, transcript,
                     raw, prepared, wstep, wpath, wsrc>>
      /\ rstep[r] = "idle" /\ rstep'[r] = "delete_files"
  BY RequestTypesHold
  DEF RequestTypes, DeleteAbort, Abort, RequestGoes, sessionVars, fileVars, horseVars
<1>3. \A j \in JobIds : \/ rq'[j] = rq[j]
                        \/ rq[j] \in {"queued", "scheduled"} /\ rq'[j] = "canceled"
  BY RequestTypesHold DEF RequestTypes, DeleteAbort, Abort
<1>4. \A j \in JobIds : /\ Pending(j)' => Pending(j) /\ ~Enqueued(j)
                        /\ Fresh(j)' => Fresh(j)
  BY <1>1, <1>2, <1>3 DEF Pending, Fresh, Enqueued, Busy
<1>5. HorsesRun' /\ RunsAreCurrent'
  <2>1. HorsesRun'
    BY <1>2, <1>3 DEF HorsesRun, TypeOK, QueueTypeOK, LifecycleInv, ActorsFollowAnUpload
  <2> QED BY <1>2, <1>4, <2>1 DEF RunsAreCurrent, OneRunAtATime
<1>6. RowsInv'
  BY <1>2, <1>3, RowsStay DEF TypeOK
<1>7. RestartsKnow' /\ RecoveriesKnow' /\ PurgesKnow'
  BY <1>1, <1>2 DEF RestartsKnow, RecoveriesKnow, PurgesKnow
<1>8. PurgedIsQuiet' /\ HorseOwnsTheSession' /\ TranscriptOnlyWhenTranscribed'
  BY <1>2 DEF PurgedIsQuiet, HorseOwnsTheSession, TranscriptOnlyWhenTranscribed, PastLoad,
              HasAudio, File
<1>9. PersistsPlayable' /\ TranscribedAudioIsPlayable'
  BY <1>1, <1>2 DEF PersistsPlayable, TranscribedAudioIsPlayable
<1> QED BY <1>5, <1>6, <1>7, <1>8, <1>9

\* The job is in Redis, its row and those of the session not yet committed.  It
\* is the only one: the session has no audio yet, or its last run has ended.
LEMMA EnqueueSerial ==
  ASSUME Known, Serial, NEW r \in Requests, UploadInsert(r) \/ RestartEnqueue(r)
  PROVE  SerialInv'
<1> USE DEF Known
<1>1. \A q \in Requests : q = r
  BY DEF Serial, OneRequest
<1>2. /\ UNCHANGED <<running, exists, mode, state, currentJob, audio, jobRow, transcript,
                     raw, prepared, wstep, wpath, wsrc>>
      /\ rstep[r] \in {"upload_insert", "restart_enqueue"}
  BY DEF UploadInsert, RestartEnqueue, Enqueue, queueVars, sessionVars, fileVars,
         horseVars
<1>3. \A j \in JobIds : ~Enqueued(j)
  BY <1>1, <1>2 DEF Enqueued
<1>4. HorseOwnsTheSession' /\ TranscriptOnlyWhenTranscribed'
  BY <1>2 DEF HorseOwnsTheSession, TranscriptOnlyWhenTranscribed, PastLoad
<1>5. PurgedIsQuiet'
  BY <1>2 DEF PurgedIsQuiet, PastLoad, HasAudio, File
<1>6. rstep'[r] \in {"idle", "upload_commit", "restart_commit"}
  BY RequestTypesHold
  DEF RequestTypes, UploadInsert, RestartEnqueue, RequestGoes, RequestEnds
<1>7. PersistsPlayable' /\ TranscribedAudioIsPlayable'
  BY <1>1, <1>2, <1>6 DEF PersistsPlayable, TranscribedAudioIsPlayable
<1>8. RecoveriesKnow' /\ PurgesKnow'
  BY <1>1, <1>6 DEF RecoveriesKnow, PurgesKnow
<1>9. CASE UploadInsert(r) /\ ~UploadAccepted
  <2>1. rstep'[r] = "idle" /\ UNCHANGED rq
    BY <1>9, RequestTypesHold
    DEF RequestTypes, UploadInsert, RequestGoes, RequestEnds, queueVars
  <2>2. HorsesRun' /\ RunsAreCurrent' /\ RowsInv'
    BY <1>2, <1>3, <2>1, RunsStay, RowsStay DEF TypeOK
  <2>3. RestartsKnow'
    BY <1>1, <2>1 DEF RestartsKnow
  <2> QED BY <1>4, <1>5, <1>7, <1>8, <2>2, <2>3
<1>10. CASE RestartEnqueue(r) \/ (UploadInsert(r) /\ UploadAccepted)
  <2>1. /\ exists
        /\ \/ /\ rstep'[r] = "upload_commit" /\ ~HasAudio
           \/ /\ rstep'[r] = "restart_commit" /\ HasAudio /\ ~audio.purged /\ Restartable
    BY <1>10, RequestTypesHold
    DEF RequestTypes, UploadInsert, UploadAccepted, RestartEnqueue, RestartsKnow, RequestGoes, RequestEnds
  <2>2. PICK n \in JobIds : /\ rq[n] = "none" /\ rq' = [rq EXCEPT ![n] = "queued"]
                            /\ rjob'[r] = n
    BY <1>10, <2>1, RequestTypesHold
    DEF RequestTypes, UploadInsert, RestartEnqueue, Enqueue, RequestEnds
  <2>3. ~audio.purged /\ (HasAudio \/ currentJob = NoJob)
    BY <2>1 DEF PurgedIsQuiet, CurrentJobTracksAudio
  <2>4. \A j \in JobIds : ~Pending(j)
    BY <1>3, <2>1, <2>3, RequestTypesHold DEF RequestTypes, RunsAreCurrent, Restartable
  <2>5. \A w \in Workers : ~Busy(w) /\ running[w] # n
    <3>1. \A w \in Workers : wstep[w] # "idle" => running[w] \in JobIds /\ rq[running[w]] = "started"
      BY DEF TypeOK, QueueTypeOK, LifecycleInv, ActorsFollowAnUpload, HorsesRun
    <3>2. \A w \in Workers : wstep[w] = "idle" => running[w] \notin JobIds
      BY RequestTypesHold DEF RequestTypes, LifecycleInv, ActorsFollowAnUpload
    <3> QED BY <2>2, <2>4, <3>1, <3>2 DEF Pending, Busy
  <2>6. \A j \in JobIds : Pending(j)' => j = n
    BY <1>2, <2>2, <2>4, RequestTypesHold DEF RequestTypes, Pending, Busy
  <2>7. Enqueued(n)'
    BY <2>1, <2>2 DEF Enqueued
  <2>8. RunsAreCurrent'
    BY <2>6, <2>7 DEF RunsAreCurrent, OneRunAtATime
  <2>9. HorsesRun'
    BY <1>2, <2>2, RequestTypesHold
    DEF RequestTypes, HorsesRun, TypeOK, QueueTypeOK, LifecycleInv, ActorsFollowAnUpload
  <2>10. RowsInv'
    BY <1>2, <2>2, RowsStay, RequestTypesHold DEF RequestTypes, TypeOK
  <2>11. rq'[n] = "queued"
    BY <2>2, RequestTypesHold DEF RequestTypes
  <2>12. RestartsKnow'
    BY <1>1, <1>2, <2>1, <2>2, <2>5, <2>6, <2>11
    DEF RestartsKnow, HasAudio, Restartable, Busy
  <2> QED BY <1>4, <1>5, <1>7, <1>8, <2>8, <2>9, <2>10, <2>12
<1> QED BY <1>9, <1>10

\* The job that was enqueued becomes the current one; it waits at its claim.
LEMMA CommitSerial ==
  ASSUME Known, Serial, NEW r \in Requests, UploadCommit(r) \/ RestartCommit(r)
  PROVE  SerialInv'
<1> USE DEF Known
<1> DEFINE n == rjob[r]
<1>1. \A q \in Requests : q = r
  BY DEF Serial, OneRequest
<1>2. /\ UNCHANGED <<rq, running, exists, raw, prepared, wstep, wpath, wsrc>>
      /\ rstep[r] \in {"upload_commit", "restart_commit"} /\ rstep'[r] = "idle"
      /\ currentJob' = n /\ jobRow' = [jobRow EXCEPT ![n] = "queued"]
      /\ state' = "audio_uploaded"
  BY RequestTypesHold
  DEF RequestTypes, UploadCommit, RestartCommit, RestartedRow, RequestGoes, RequestEnds,
      queueVars, fileVars, horseVars
<1>3. /\ exists /\ n \in JobIds /\ n # NoJob
      /\ rq[n] \notin {"none", "finished"}
      /\ \A j \in JobIds : Pending(j) => j = n
      /\ \A w \in Workers : /\ Busy(w) => wstep[w] \in {"load", "claim"}
                            /\ running[w] = n => wstep[w] # "finish"
  BY <1>2, RequestTypesHold
  DEF RequestTypes, RestartsKnow, LifecycleInv, LocksHold
<1>4. /\ ~audio.purged /\ ~audio'.purged /\ HasAudio' /\ transcript' = NoJob
      /\ \A w \in Workers : PastLoad(w) => HasAudio /\ UNCHANGED audio
  <2>1. CASE UploadCommit(r)
    <3>1. ~HasAudio
      BY <2>1 DEF UploadCommit, LifecycleInv, LocksHold
    <3>2. \A w \in Workers : ~PastLoad(w)
      BY <1>3, <3>1 DEF LifecycleInv, ActorsFollowAnUpload
    <3> QED
      BY <2>1, <3>1, <3>2
      DEF UploadCommit, PurgedIsQuiet, HasAudio, LifecycleInv, UntouchedBeforeUpload
  <2>2. CASE RestartCommit(r)
    BY <2>2 DEF RestartCommit, RestartedRow, RestartsKnow, HasAudio
  <2> QED BY <2>1, <2>2
<1> HIDE DEF n
<1>5. \A j \in JobIds : Pending(j)' = Pending(j)
  BY <1>2 DEF Pending, Busy
<1>6. HorsesRun' /\ RunsAreCurrent'
  BY <1>2, <1>3, <1>4, <1>5 DEF HorsesRun, RunsAreCurrent, OneRunAtATime
<1>7. RestartsKnow' /\ RecoveriesKnow' /\ PurgesKnow'
  BY <1>1, <1>2 DEF RestartsKnow, RecoveriesKnow, PurgesKnow
<1>8. CurrentJobTracksAudio'
  BY <1>2, <1>3, <1>4 DEF CurrentJobTracksAudio
<1>9. CurrentJobRan'
  BY <1>2, <1>3 DEF CurrentJobRan
<1>10. FailuresAreFinal'
  BY <1>2 DEF FailuresAreFinal, TypeOK
<1>11. PurgedIsQuiet' /\ TranscriptOnlyWhenTranscribed' /\ TranscribedAudioIsPlayable'
  BY <1>2, <1>4 DEF PurgedIsQuiet, TranscriptOnlyWhenTranscribed, TranscribedAudioIsPlayable
<1>12. \A w \in Workers : PastLoad(w) => wstep[w] = "claim"
  BY <1>3 DEF PastLoad, Busy
<1>13. HorseOwnsTheSession' /\ PersistsPlayable'
  BY <1>2, <1>12 DEF HorseOwnsTheSession, PersistsPlayable, PastLoad
<1> QED BY <1>6, <1>7, <1>8, <1>9, <1>10, <1>11, <1>13

\* The row is marked: a run that has read it goes on without the session.
LEMMA PurgeSerial ==
  ASSUME Known, Serial, NEW r \in Requests, PurgeCommit(r)
  PROVE  SerialInv'
<1> USE DEF Known
<1>1. \A q \in Requests : q = r
  BY DEF Serial, OneRequest
<1>2. /\ UNCHANGED <<rq, running, exists, jobRow, raw, prepared, wstep, wpath, wsrc>>
      /\ rstep[r] \in {"purge_commit", "purge_mark_commit"} /\ rstep'[r] = "idle"
  BY RequestTypesHold
  DEF RequestTypes, PurgeCommit, RequestGoes, RequestEnds, queueVars, fileVars, horseVars
<1>3. HorsesRun' /\ \A j \in JobIds : Pending(j)' = Pending(j) /\ ~Enqueued(j)
  BY <1>1, <1>2 DEF HorsesRun, Pending, Busy, Enqueued
<1>4. RestartsKnow' /\ RecoveriesKnow' /\ PurgesKnow'
  BY <1>1, <1>2 DEF RestartsKnow, RecoveriesKnow, PurgesKnow
<1>5. CASE exists
  <2>1. /\ transcript' = NoJob /\ state' = "created" /\ currentJob' = NoJob
        /\ audio'.path = audio.path
        /\ audio'.purged = (audio.purged \/ rstep[r] = "purge_mark_commit")
    BY <1>5 DEF PurgeCommit, PurgedRow, TypeOK
  <2>2. HasAudio' = HasAudio /\ (HasAudio => audio'.purged)
    BY <1>2, <2>1 DEF PurgesKnow, HasAudio
  <2>3. audio'.purged => HasAudio
    BY <1>2, <2>1 DEF PurgesKnow, PurgedIsQuiet
  <2>4. RunsAreCurrent'
    <3>1. \A j \in JobIds : Pending(j) => audio'.purged
      <4>1. ASSUME NEW j \in JobIds, Pending(j), ~HasAudio PROVE FALSE
        BY <1>3, <1>5, <4>1, RequestTypesHold
        DEF RunsAreCurrent, PurgedIsQuiet, CurrentJobTracksAudio, RequestTypes
      <4> QED BY <2>2, <4>1
    <3> QED BY <1>3, <2>1, <3>1 DEF RunsAreCurrent, OneRunAtATime
  <2>5. RowsInv'
    <3>1. CurrentJobTracksAudio' /\ CurrentJobRan'
      BY <2>1, <2>2 DEF CurrentJobTracksAudio, CurrentJobRan
    <3>2. FailuresAreFinal'
      BY <1>2 DEF FailuresAreFinal
    <3> QED BY <3>1, <3>2
  <2>6. PurgedIsQuiet'
    <3> SUFFICES ASSUME audio'.purged
                 PROVE  /\ HasAudio /\ raw = NoFile
                        /\ \A w \in Workers : wstep[w] \in {"claim", "open"}
                             => File(wpath[w]) = NoFile
      BY <1>2, <2>1, <2>2 DEF PurgedIsQuiet, File, PastLoad
    <3>1. CASE audio.purged
      BY <3>1 DEF PurgedIsQuiet
    <3>2. CASE ~audio.purged
      <4>1. rstep[r] = "purge_mark_commit"
        BY <2>1, <3>2
      <4>2. /\ HasAudio /\ raw = NoFile
            /\ audio.path = "prepared" /\ (\E j \in JobIds : Fresh(j)) => prepared = NoFile
        BY <4>1 DEF PurgesKnow
      <4>3. ASSUME NEW w \in Workers, wstep[w] \in {"claim", "open"}
            PROVE  File(wpath[w]) = NoFile
        <5>1. running[w] \in JobIds
          BY <4>3 DEF TypeOK, QueueTypeOK, LifecycleInv, ActorsFollowAnUpload
        <5>2. Fresh(running[w]) /\ wpath[w] = audio.path
          BY <1>5, <4>3, <5>1 DEF Fresh, AudioInv, PathsKept
        <5> QED BY <4>2, <5>1, <5>2 DEF File, TypeOK
      <4> QED BY <4>2, <4>3
    <3> QED BY <3>1, <3>2
  <2>7. HorseOwnsTheSession' /\ PersistsPlayable'
    <3>1. \A w \in Workers : PastLoad(w) => audio'.purged
      BY <1>5, <2>2 DEF LifecycleInv, ActorsFollowAnUpload
    <3> QED BY <1>2, <3>1 DEF HorseOwnsTheSession, PersistsPlayable, PastLoad
  <2>8. TranscriptOnlyWhenTranscribed' /\ TranscribedAudioIsPlayable'
    BY <2>1 DEF TranscriptOnlyWhenTranscribed, TranscribedAudioIsPlayable
  <2> QED BY <1>3, <1>4, <2>4, <2>5, <2>6, <2>7, <2>8
<1>6. CASE ~exists
  <2>1. UNCHANGED <<audio, transcript, currentJob, state>>
    BY <1>6 DEF PurgeCommit
  <2>2. RunsAreCurrent' /\ RowsInv'
    BY <1>2, <1>3, <1>6, <2>1, RunsStay, RowsStay DEF TypeOK
  <2>3. PurgedIsQuiet' /\ HorseOwnsTheSession' /\ TranscriptOnlyWhenTranscribed'
    BY <1>2, <2>1
    DEF PurgedIsQuiet, HorseOwnsTheSession, TranscriptOnlyWhenTranscribed, PastLoad, File, HasAudio
  <2>4. state # "transcribed"
    BY <1>6 DEF LifecycleInv, UntouchedBeforeUpload
  <2>5. PersistsPlayable' /\ TranscribedAudioIsPlayable'
    BY <1>2, <1>6, <2>1, <2>4 DEF PersistsPlayable, TranscribedAudioIsPlayable
  <2> QED BY <1>3, <1>4, <2>2, <2>3, <2>5
<1> QED BY <1>5, <1>6

\* Recovery fails a session nothing works on, or whose audio has been purged.
LEMMA RecoverSerial ==
  ASSUME Known, Serial, NEW r \in Requests, RecoverCommit(r)
  PROVE  SerialInv'
<1> USE DEF Known
<1>1. \A q \in Requests : q = r
  BY DEF Serial, OneRequest
<1>2. /\ rstep[r] = "recover_commit" /\ exists
      /\ state \in {"transcribing", "transcription_failed"}
      /\ audio.purged \/ \A j \in JobIds : ~Pending(j)
      /\ rjob[r] # NoJob => rq[rjob[r]] \notin ActiveStatuses \cup {"none", "finished"}
  BY DEF RecoverCommit, RecoveriesKnow
<1>3. /\ UNCHANGED <<rq, running, exists, mode, currentJob, audio, transcript, raw, prepared,
                     wstep, wpath, wsrc>>
      /\ rstep'[r] = "idle" /\ state' = "transcription_failed"
      /\ jobRow' = IF rjob[r] = NoJob THEN jobRow ELSE [jobRow EXCEPT ![rjob[r]] = "failed"]
  BY <1>2, RequestTypesHold
  DEF RequestTypes, RecoverCommit, RequestGoes, RequestEnds, queueVars, fileVars, horseVars
<1>4. HorsesRun' /\ \A j \in JobIds : Pending(j)' = Pending(j) /\ ~Enqueued(j)
  BY <1>1, <1>2, <1>3 DEF HorsesRun, Pending, Busy, Enqueued
<1>5. RunsAreCurrent'
  BY <1>2, <1>3, <1>4 DEF RunsAreCurrent, OneRunAtATime
<1>6. RestartsKnow' /\ RecoveriesKnow' /\ PurgesKnow'
  BY <1>1, <1>3 DEF RestartsKnow, RecoveriesKnow, PurgesKnow
<1>7. CurrentJobTracksAudio' /\ CurrentJobRan'
  BY <1>2, <1>3 DEF CurrentJobTracksAudio, CurrentJobRan, HasAudio
<1>8. FailuresAreFinal'
  <2>1. ASSUME NEW w \in Workers, rjob[r] # NoJob, running[w] = rjob[r]
        PROVE  FALSE
    <3>1. wstep[w] # "idle"
      BY <2>1 DEF LifecycleInv, ActorsFollowAnUpload
    <3> QED BY <1>2, <2>1, <3>1 DEF HorsesRun
  <2> QED BY <1>2, <1>3, <2>1 DEF FailuresAreFinal, TypeOK
<1>9. TranscriptOnlyWhenTranscribed' /\ TranscribedAudioIsPlayable'
  BY <1>2, <1>3 DEF TranscriptOnlyWhenTranscribed, TranscribedAudioIsPlayable
<1>10. PersistsPlayable'
  BY <1>1, <1>2, <1>3 DEF PersistsPlayable
<1>11. audio.purged \/ \A w \in Workers : ~PastLoad(w)
  <2> SUFFICES ASSUME ~audio.purged, NEW w \in Workers, PastLoad(w) PROVE FALSE
    OBVIOUS
  <2>1. running[w] \in JobIds /\ Busy(w)
    BY DEF TypeOK, QueueTypeOK, LifecycleInv, ActorsFollowAnUpload, PastLoad, Busy
  <2> QED BY <1>2, <2>1 DEF Pending
<1>12. HorseOwnsTheSession'
  BY <1>3, <1>11 DEF HorseOwnsTheSession, PastLoad
<1>13. PurgedIsQuiet'
  BY <1>2, <1>3 DEF PurgedIsQuiet, PastLoad, HasAudio, File
<1> QED BY <1>4, <1>5, <1>6, <1>7, <1>8, <1>9, <1>10, <1>12, <1>13

LEMMA DeleteSerial ==
  ASSUME Known, Serial, NEW r \in Requests, DeleteCommit(r)
  PROVE  SerialInv'
<1> USE DEF Known
<1>1. \A q \in Requests : q = r
  BY DEF Serial, OneRequest
<1>2. /\ UNCHANGED <<rq, running, raw, prepared, wstep, wpath, wsrc>>
      /\ rstep'[r] = "idle" /\ ~exists' /\ state' = "created" /\ currentJob' = NoJob
      /\ audio' = NoAudio /\ transcript' = NoJob
      /\ jobRow' = [j \in JobIds |-> "absent"]
  BY RequestTypesHold
  DEF RequestTypes, DeleteCommit, RequestGoes, RequestEnds, queueVars, fileVars, horseVars
<1>3. \A j \in JobIds : Pending(j)' = Pending(j)
  BY <1>2 DEF Pending, Busy
<1>4. RunsInv'
  BY <1>1, <1>2, <1>3
  DEF HorsesRun, RunsAreCurrent, OneRunAtATime, RestartsKnow, RecoveriesKnow
<1>5. RowsInv'
  BY <1>2 DEF CurrentJobTracksAudio, CurrentJobRan, FailuresAreFinal, HasAudio
<1>6. SessionInv'
  BY <1>1, <1>2
  DEF PurgesKnow, PurgedIsQuiet, HorseOwnsTheSession, TranscriptOnlyWhenTranscribed,
      PersistsPlayable, TranscribedAudioIsPlayable
<1> QED BY <1>4, <1>5, <1>6

----------------------------------------------------------------------------
(* The horse.                                                              *)

HorseTypes ==
  /\ rq \in [JobIds -> RqStatus] /\ NoJob \notin JobIds
  /\ running \in [Workers -> JobIds \cup {NoJob}]
  /\ wstep \in [Workers -> HorseSteps]
  /\ wpath \in [Workers -> {"raw", "prepared"}]
  /\ \A w \in Workers : wstep[w] # "idle" => running[w] \in JobIds /\ rq[running[w]] = "started"

LEMMA HorseTypesHold ==
  ASSUME TypeOK, LifecycleInv, HorsesRun
  PROVE  HorseTypes
BY QueueAssumption
DEF TypeOK, QueueTypeOK, HorseTypes, LifecycleInv, ActorsFollowAnUpload, HorsesRun

\* With fewer runs than before, what requests know of them still holds.
LEMMA ActorsKnowStill ==
  ASSUME Known, Serial, FewerRuns,
         UNCHANGED <<exists, state, currentJob, audio, raw, prepared, requestVars>>,
         \A j \in JobIds :
           /\ rq[j] \notin ActiveStatuses => rq'[j] = rq[j]
           /\ rq'[j] = "none" => rq[j] = "none"
           /\ rq'[j] = "finished" =>
                rq[j] = "finished" \/ \E w \in Workers : running[w] = j /\ wstep[w] = "finish",
         \A w \in Workers :
           wstep'[w] \in {"idle", "load"} \/ (wstep'[w] = wstep[w] /\ running'[w] = running[w])
  PROVE  RunsAreCurrent' /\ RestartsKnow' /\ RecoveriesKnow' /\ PurgesKnow'
<1> USE DEF Known
<1>1. UNCHANGED <<rstep, rjob>>
  BY DEF requestVars
<1>2. RunsAreCurrent'
  BY <1>1 DEF FewerRuns, RunsAreCurrent, OneRunAtATime, Enqueued
<1>3. PurgesKnow'
  BY <1>1 DEF FewerRuns, PurgesKnow, HasAudio
<1>4. RecoveriesKnow'
  BY <1>1 DEF FewerRuns, RecoveriesKnow, TypeOK
<1>5. RestartsKnow'
  BY <1>1 DEF FewerRuns, RestartsKnow, HasAudio, Restartable, Busy, LifecycleInv, LocksHold, TypeOK
<1> QED BY <1>2, <1>3, <1>4, <1>5

LEMMA StartSerial ==
  ASSUME Known, Serial, NEW w \in Workers, Horse(w), NEW n \in JobIds, Starts(w, n)
  PROVE  SerialInv'
<1> USE DEF Known
<1>1. HorseTypes /\ \A v \in Workers : v = w
  BY HorseTypesHold DEF Serial, OneWorker
<1>2. /\ wstep[w] = "idle" /\ wstep' = [wstep EXCEPT ![w] = "load"]
      /\ running[w] = NoJob /\ running' = [running EXCEPT ![w] = n]
      /\ rq[n] = "queued" /\ rq' = [rq EXCEPT ![n] = "started"]
      /\ UNCHANGED <<exists, mode, state, currentJob, audio, jobRow, transcript, raw, prepared,
                     rstep, rjob, requestVars, wpath, wsrc>>
  BY DEF Starts, sessionVars, fileVars, requestVars
<1>3. HorsesRun' /\ FewerRuns
  BY HorseRuns DEF Serial
<1>4. RunsAreCurrent' /\ RestartsKnow' /\ RecoveriesKnow' /\ PurgesKnow'
  BY <1>1, <1>2, <1>3, ActorsKnowStill DEF HorseTypes
<1>5. RowsInv'
  <2>1. CurrentJobTracksAudio' /\ CurrentJobRan'
    BY <1>1, <1>2 DEF HorseTypes, CurrentJobTracksAudio, CurrentJobRan, HasAudio, TypeOK
  <2>2. FailuresAreFinal'
    BY <1>1, <1>2 DEF HorseTypes, FailuresAreFinal
  <2> QED BY <2>1, <2>2
<1>6. PurgedIsQuiet' /\ HorseOwnsTheSession' /\ TranscriptOnlyWhenTranscribed'
  BY <1>1, <1>2
  DEF HorseTypes, PurgedIsQuiet, HorseOwnsTheSession, TranscriptOnlyWhenTranscribed, PastLoad, File,
      HasAudio
<1>7. PersistsPlayable' /\ TranscribedAudioIsPlayable'
  BY <1>1, <1>2 DEF HorseTypes, PersistsPlayable, TranscribedAudioIsPlayable
<1> QED BY <1>3, <1>4, <1>5, <1>6, <1>7

\* A job finishes only after its horse has transcribed.
LEMMA LeaveSerial ==
  ASSUME Known, Serial, NEW w \in Workers, Horse(w), Leaves(w)
  PROVE  SerialInv'
<1> USE DEF Known
<1> DEFINE c == running[w]
<1>1. HorseTypes /\ \A v \in Workers : v = w
  BY HorseTypesHold DEF Serial, OneWorker
<1>2. /\ wstep[w] # "idle" /\ wstep' = [wstep EXCEPT ![w] = "idle"]
      /\ running' = [running EXCEPT ![w] = NoJob]
      /\ c \in JobIds /\ rq[c] = "started"
      /\ UNCHANGED <<exists, mode, state, currentJob, audio, jobRow, transcript, raw, prepared,
                     rstep, rjob, requestVars>>
  BY <1>1 DEF HorseTypes, Leaves, sessionVars, fileVars, requestVars
<1>3. PICK status \in {"scheduled", "failed", "finished", "stopped"} :
        /\ rq' = [rq EXCEPT ![c] = status] \/ UNCHANGED rq
        /\ status = "finished" => wstep[w] = "finish"
  BY DEF Leaves
<1> HIDE DEF c
<1>4. HorsesRun' /\ FewerRuns
  BY HorseRuns DEF Serial
<1>5. \A j \in JobIds :
        /\ rq[j] \notin ActiveStatuses => rq'[j] = rq[j]
        /\ rq'[j] = "none" => rq[j] = "none"
        /\ rq'[j] = "finished" =>
             rq[j] = "finished" \/ \E v \in Workers : running[v] = j /\ wstep[v] = "finish"
  BY <1>1, <1>2, <1>3 DEF HorseTypes, c
<1>6. RunsAreCurrent' /\ RestartsKnow' /\ RecoveriesKnow' /\ PurgesKnow'
  BY <1>1, <1>2, <1>4, <1>5, ActorsKnowStill DEF HorseTypes
<1>7. RowsInv'
  <2>1. CurrentJobTracksAudio'
    BY <1>2 DEF CurrentJobTracksAudio, HasAudio
  <2>2. CurrentJobRan'
    BY <1>1, <1>2, <1>5 DEF HorseTypes, CurrentJobRan, TypeOK
  <2>3. FailuresAreFinal'
    BY <1>1, <1>2, <1>3 DEF HorseTypes, FailuresAreFinal, c
  <2> QED BY <2>1, <2>2, <2>3
<1>8. PurgedIsQuiet' /\ HorseOwnsTheSession' /\ TranscriptOnlyWhenTranscribed'
  BY <1>1, <1>2
  DEF HorseTypes, PurgedIsQuiet, HorseOwnsTheSession, TranscriptOnlyWhenTranscribed, PastLoad, HasAudio
<1>9. PersistsPlayable' /\ TranscribedAudioIsPlayable'
  BY <1>1, <1>2 DEF HorseTypes, PersistsPlayable, TranscribedAudioIsPlayable
<1> QED BY <1>4, <1>6, <1>7, <1>8, <1>9

LEMMA RedisSerial ==
  ASSUME Known, Serial, NEW c \in JobIds, Redis(c)
  PROVE  SerialInv'
<1> USE DEF Known
<1>1. HorseTypes
  BY HorseTypesHold
<1>2. /\ UNCHANGED <<running, exists, mode, state, currentJob, audio, jobRow, transcript, raw,
                     prepared, rstep, rjob, requestVars, wstep, wpath, wsrc>>
      /\ rq[c] \in {"queued", "scheduled", "started"}
      /\ \A w \in Workers : wstep[w] # "idle" => running[w] # c
  BY <1>1, RedisMoves
  DEF Serial, HorseTypes, Abandoned, sessionVars, fileVars, requestVars, horseVars
<1>3. PICK status \in {"scheduled", "failed", "gone"} : rq' = [rq EXCEPT ![c] = status]
  BY RedisMoves DEF Serial
<1>4. HorsesRun' /\ FewerRuns
  BY RedisRuns DEF Serial
<1>5. RunsAreCurrent' /\ RestartsKnow' /\ RecoveriesKnow' /\ PurgesKnow'
  BY <1>1, <1>2, <1>3, <1>4, ActorsKnowStill DEF HorseTypes
<1>6. RowsInv'
  BY <1>1, <1>2, <1>3, RowsStay DEF HorseTypes, TypeOK
<1>7. PurgedIsQuiet' /\ HorseOwnsTheSession' /\ TranscriptOnlyWhenTranscribed'
  BY <1>2
  DEF PurgedIsQuiet, HorseOwnsTheSession, TranscriptOnlyWhenTranscribed, PastLoad, File, HasAudio
<1>8. PersistsPlayable' /\ TranscribedAudioIsPlayable'
  BY <1>2 DEF PersistsPlayable, TranscribedAudioIsPlayable
<1> QED BY <1>4, <1>5, <1>6, <1>7, <1>8

\* What the other actors can be doing while a horse works on the session.
LEMMA WorkingHorse ==
  ASSUME Known, Serial, NEW w \in Workers, Busy(w), ~RowLocked
  PROVE  /\ running[w] \in JobIds /\ jobRow[running[w]] # "failed"
         /\ \A j \in JobIds : Pending(j) => j = running[w]
         /\ state # "transcribed" /\ transcript = NoJob
         /\ \A r \in Requests : /\ rstep[r] \notin {"restart_enqueue", "upload_commit", "restart_commit"}
                                /\ rstep[r] = "recover_commit" => audio.purged
         /\ exists /\ ~audio.purged => currentJob = running[w]
         /\ ~exists \/ audio.purged => currentJob = NoJob
<1> USE DEF Known
<1>1. running[w] \in JobIds /\ Pending(running[w]) /\ wstep[w] # "idle"
  BY DEF TypeOK, QueueTypeOK, LifecycleInv, ActorsFollowAnUpload, Busy, Pending
<1>2. \A j \in JobIds : Pending(j) => j = running[w]
  BY <1>1 DEF RunsAreCurrent, OneRunAtATime
<1>3. \A r \in Requests : rstep[r] \notin {"upload_commit", "restart_commit"}
  BY DEF RowLocked, Locked
<1>4. ~Enqueued(running[w])
  BY <1>3 DEF Enqueued
<1>5. state # "transcribed" /\ transcript = NoJob
  BY <1>1, <1>4 DEF RunsAreCurrent, TranscriptOnlyWhenTranscribed
<1>6. exists /\ ~audio.purged =>
        currentJob = running[w] /\ state \notin {"transcription_failed", "transcribed"}
  BY <1>1, <1>4 DEF RunsAreCurrent
<1>7. \A r \in Requests : /\ rstep[r] # "restart_enqueue"
                          /\ rstep[r] = "recover_commit" => audio.purged
  BY <1>1, <1>6 DEF RestartsKnow, RecoveriesKnow, Restartable
<1>8. ~exists \/ audio.purged => currentJob = NoJob
  BY DEF CurrentJobTracksAudio, LifecycleInv, UntouchedBeforeUpload
<1>9. jobRow[running[w]] # "failed"
  BY <1>1 DEF FailuresAreFinal, Busy
<1> QED BY <1>1, <1>2, <1>3, <1>5, <1>6, <1>7, <1>8, <1>9

LEMMA UnlockedPastClaim ==
  ASSUME Known, NEW w \in Workers, PastLoad(w), wstep[w] # "claim"
  PROVE  Busy(w) /\ ~RowLocked
BY DEF Known, RestartsKnow, RowLocked, Locked, PastLoad, Busy

\* Reading the rows, before any claim.
LEMMA LoadSerial ==
  ASSUME Known, Serial, NEW w \in Workers, HorseLoad(w)
  PROVE  SerialInv'
<1> USE DEF Known
<1>1. HorseTypes /\ (\A v \in Workers : v = w) /\ Horse(w)
  BY HorseTypesHold DEF Serial, OneWorker, Horse
<1>2. /\ UNCHANGED <<rq, running, exists, mode, state, currentJob, audio, jobRow, transcript, raw,
                     prepared, rstep, rjob>>
      /\ wstep[w] = "load" /\ wstep'[w] \in {"raise_permanent", "claim"}
      /\ audio.purged => wstep'[w] = "raise_permanent"
  BY <1>1 DEF HorseTypes, HorseLoad, HorseGoes, queueVars, sessionVars, fileVars, requestVars
<1>3. HorsesRun' /\ FewerRuns
  BY <1>1, HorseRuns DEF Serial
<1>4. RunsAreCurrent' /\ RestartsKnow' /\ RecoveriesKnow'
  <2>1. RunsAreCurrent'
    BY <1>2, <1>3 DEF FewerRuns, RunsAreCurrent, OneRunAtATime, Enqueued
  <2>2. RestartsKnow'
    BY <1>1, <1>2, <1>3 DEF FewerRuns, RestartsKnow, HasAudio, Restartable, Busy
  <2>3. RecoveriesKnow'
    BY <1>2, <1>3 DEF FewerRuns, RecoveriesKnow
  <2> QED BY <2>1, <2>2, <2>3
<1>5. RowsInv'
  <2>1. CurrentJobTracksAudio' /\ CurrentJobRan'
    BY <1>1, <1>2 DEF CurrentJobTracksAudio, CurrentJobRan, HasAudio
  <2>2. FailuresAreFinal'
    BY <1>1, <1>2 DEF FailuresAreFinal
  <2> QED BY <2>1, <2>2
<1>6. PurgesKnow' /\ PurgedIsQuiet'
  BY <1>1, <1>2, <1>3 DEF FewerRuns, PurgesKnow, PurgedIsQuiet, HasAudio, PastLoad
<1>7. HorseOwnsTheSession' /\ TranscriptOnlyWhenTranscribed'
  BY <1>1, <1>2 DEF HorseOwnsTheSession, TranscriptOnlyWhenTranscribed, PastLoad
<1>8. PersistsPlayable' /\ TranscribedAudioIsPlayable'
  BY <1>1, <1>2 DEF PersistsPlayable, TranscribedAudioIsPlayable
<1> QED BY <1>3, <1>4, <1>5, <1>6, <1>7, <1>8

\* Opening, reducing and sending the audio: files change, rows do not, but for
\* the path and the checksum.
LEMMA WorkSerial ==
  ASSUME Known, Serial, NEW w \in Workers,
         \/ HorseOpen(w) \/ PrepareOk(w) \/ PrepareFails(w) \/ HorseRelink(w) \/ HorseSweep(w)
         \/ HorseBuild(w) \/ HorseCall(w) \/ HorseTimeout(w)
  PROVE  SerialInv'
<1> USE DEF Known
<1>1. HorseTypes /\ (\A v \in Workers : v = w) /\ Horse(w)
  BY HorseTypesHold DEF Serial, OneWorker, Horse
<1>2. /\ UNCHANGED <<rq, running, exists, mode, state, currentJob, jobRow, transcript, rstep, rjob>>
      /\ audio'.purged = audio.purged /\ HasAudio' = HasAudio
      /\ raw' \in {raw, NoFile}
  BY DEF HorseOpen, PrepareOk, PrepareFails, HorseRelink, RelinkedRow, HorseSweep, HorseBuild, HorseCall,
      HorseTimeout, RawDirRemoved, HasAudio, queueVars, sessionVars, fileVars, requestVars, TypeOK
<1>3. /\ PastLoad(w) /\ wstep[w] \notin {"claim", "fail"}
      /\ wstep'[w] \in {"prepare", "relink", "sweep", "build", "call", "persist", "restore",
                        "fail", "raise", "raise_permanent"}
      /\ wstep'[w] = "persist" => prepared' # NoFile
      /\ wstep[w] = "open" /\ File(wpath[w]) = NoFile => wstep'[w] = "fail"
  BY <1>1
  DEF HorseTypes, HorseOpen, PrepareOk, PrepareFails, HorseRelink, HorseSweep, HorseBuild, HorseCall,
      HorseTimeout, HorseGoes, PastLoad, fileVars
<1>4. Busy(w) /\ ~RowLocked
  BY <1>3, UnlockedPastClaim
<1>5. /\ running[w] \in JobIds /\ jobRow[running[w]] # "failed"
      /\ \A j \in JobIds : Pending(j) => j = running[w]
      /\ state # "transcribed" /\ transcript = NoJob
      /\ \A r \in Requests : rstep[r] \notin {"restart_enqueue", "upload_commit", "restart_commit"}
  BY <1>4, WorkingHorse
<1>6. HorsesRun' /\ FewerRuns
  BY <1>1, HorseRuns DEF Serial
<1>7. RunsAreCurrent' /\ RestartsKnow' /\ RecoveriesKnow'
  <2>1. RunsAreCurrent'
    BY <1>2, <1>6 DEF FewerRuns, RunsAreCurrent, OneRunAtATime, Enqueued
  <2>2. RestartsKnow'
    BY <1>2, <1>5 DEF RestartsKnow
  <2>3. RecoveriesKnow'
    BY <1>2, <1>6 DEF FewerRuns, RecoveriesKnow
  <2> QED BY <2>1, <2>2, <2>3
<1>8. RowsInv'
  <2>1. CurrentJobTracksAudio' /\ CurrentJobRan'
    BY <1>1, <1>2, <1>3 DEF CurrentJobTracksAudio, CurrentJobRan
  <2>2. FailuresAreFinal'
    BY <1>1, <1>2, <1>3, <1>5 DEF FailuresAreFinal
  <2> QED BY <2>1, <2>2
<1>9. PurgesKnow'
  <2>1. \A j \in JobIds : ~Fresh(j)'
    <3>1. \A j \in JobIds : Fresh(j)' => j = running[w]
      BY <1>5, <1>6, FreshIsPending DEF FewerRuns
    <3> QED BY <1>1, <1>2, <1>3, <3>1 DEF HorseTypes, Fresh, PastLoad
  <2> QED BY <1>2, <2>1 DEF PurgesKnow
<1>10. PurgedIsQuiet'
  BY <1>1, <1>2, <1>3 DEF PurgedIsQuiet, PastLoad
<1>11. HorseOwnsTheSession' /\ TranscriptOnlyWhenTranscribed' /\ TranscribedAudioIsPlayable'
  BY <1>1, <1>2, <1>3, <1>5
  DEF HorseOwnsTheSession, TranscriptOnlyWhenTranscribed, TranscribedAudioIsPlayable
<1>12. PersistsPlayable'
  BY <1>1, <1>3 DEF PersistsPlayable
<1> QED BY <1>6, <1>7, <1>8, <1>9, <1>10, <1>11, <1>12

\* The claim waits for a request that has enqueued the job and not committed.
LEMMA ClaimSerial ==
  ASSUME Known, Serial, NEW w \in Workers, HorseClaim(w)
  PROVE  SerialInv'
<1> USE DEF Known
<1>1. HorseTypes /\ (\A v \in Workers : v = w) /\ Horse(w)
  BY HorseTypesHold DEF Serial, OneWorker, Horse
<1>2. /\ UNCHANGED <<rq, running, exists, mode, currentJob, audio, jobRow, transcript, raw,
                     prepared, rstep, rjob, wpath>>
      /\ wstep[w] = "claim" /\ ~RowLocked
      /\ IF exists THEN state' = "transcribing" /\ wstep'[w] = "open"
                   ELSE state' = state /\ wstep'[w] = "raise"
  BY <1>1
  DEF HorseTypes, HorseClaim, HorseGoes, queueVars, fileVars, requestVars
<1>3. Busy(w) /\ PastLoad(w)
  BY <1>2 DEF Busy, PastLoad
<1>4. /\ running[w] \in JobIds /\ jobRow[running[w]] # "failed"
      /\ \A j \in JobIds : Pending(j) => j = running[w]
      /\ state # "transcribed" /\ transcript = NoJob
      /\ \A r \in Requests : rstep[r] \notin {"restart_enqueue", "upload_commit", "restart_commit"}
      /\ exists /\ ~audio.purged => currentJob = running[w]
      /\ ~exists \/ audio.purged => currentJob = NoJob
  BY <1>2, <1>3, WorkingHorse
<1>5. HorsesRun' /\ FewerRuns
  BY <1>1, HorseRuns DEF Serial
<1>6. state' \notin {"transcribed", "transcription_failed"} \/ ~exists
  BY <1>2
<1>7. RunsAreCurrent' /\ RestartsKnow' /\ RecoveriesKnow'
  <2>1. RunsAreCurrent'
    BY <1>2, <1>4, <1>5, <1>6 DEF FewerRuns, RunsAreCurrent, OneRunAtATime, Enqueued
  <2>2. RestartsKnow'
    BY <1>2, <1>4 DEF RestartsKnow
  <2>3. RecoveriesKnow'
    BY <1>2, <1>5 DEF FewerRuns, RecoveriesKnow
  <2> QED BY <2>1, <2>2, <2>3
<1>8. RowsInv'
  <2>1. CurrentJobTracksAudio'
    BY <1>2 DEF CurrentJobTracksAudio, HasAudio
  <2>2. CurrentJobRan'
    BY <1>1, <1>2, <1>3, <1>4 DEF HorseTypes, CurrentJobRan
  <2>3. FailuresAreFinal'
    BY <1>1, <1>2, <1>4 DEF FailuresAreFinal
  <2> QED BY <2>1, <2>2, <2>3
<1>9. PurgesKnow'
  BY <1>2, <1>5 DEF FewerRuns, PurgesKnow, HasAudio
<1>10. PurgedIsQuiet'
  BY <1>1, <1>2 DEF PurgedIsQuiet, PastLoad, HasAudio, File
<1>11. HorseOwnsTheSession' /\ TranscriptOnlyWhenTranscribed' /\ TranscribedAudioIsPlayable'
  BY <1>1, <1>2, <1>4
  DEF HorseOwnsTheSession, TranscriptOnlyWhenTranscribed, TranscribedAudioIsPlayable, PastLoad
<1>12. PersistsPlayable'
  BY <1>1, <1>2 DEF PersistsPlayable
<1> QED BY <1>5, <1>7, <1>8, <1>9, <1>10, <1>11, <1>12

\* The end of a run: it publishes, sets the session back, or fails it with the
\* row of the current job, which is its own.
LEMMA EndSerial ==
  ASSUME Known, Serial, NEW w \in Workers, HorsePersist(w) \/ HorseRestore(w) \/ HorseFail(w)
  PROVE  SerialInv'
<1> USE DEF Known
<1>1. HorseTypes /\ (\A v \in Workers : v = w) /\ Horse(w)
  BY HorseTypesHold DEF Serial, OneWorker, Horse
<1>2. /\ UNCHANGED <<rq, running, exists, mode, currentJob, audio, raw, prepared, rstep, rjob>>
      /\ wstep[w] \in {"persist", "restore", "fail"}
      /\ wstep'[w] \in {"finish", "raise", "raise_permanent"}
      /\ jobRow' # jobRow => wstep'[w] = "raise_permanent"
      /\ jobRow' \in {jobRow, [jobRow EXCEPT ![currentJob] = "failed"]}
      /\ currentJob = NoJob => jobRow' = jobRow
      /\ \/ /\ wstep[w] = "persist" /\ wstep'[w] = "finish" /\ exists
            /\ state' = "transcribed" /\ transcript' = running[w]
         \/ /\ wstep'[w] # "finish" /\ transcript' = transcript
            /\ state' \in {state, "audio_uploaded", "transcription_failed"}
            /\ ~exists => state' = state
            /\ state' # state => wstep[w] # "persist"
  BY <1>1
  DEF HorseTypes, HorsePersist, HorseRestore, HorseFail, HorseGoes, queueVars, fileVars, requestVars
<1>3. PastLoad(w) /\ wstep[w] # "claim" /\ Busy(w) /\ ~RowLocked
  BY <1>2, UnlockedPastClaim DEF PastLoad
<1>4. /\ running[w] \in JobIds /\ jobRow[running[w]] # "failed" /\ running[w] # NoJob
      /\ rq[running[w]] = "started"
      /\ \A j \in JobIds : Pending(j) => j = running[w]
      /\ state # "transcribed" /\ transcript = NoJob
      /\ \A r \in Requests : /\ rstep[r] \notin {"restart_enqueue", "upload_commit", "restart_commit"}
                             /\ rstep[r] = "recover_commit" => audio.purged
      /\ exists /\ ~audio.purged => currentJob = running[w]
      /\ ~exists \/ audio.purged => currentJob = NoJob
  BY <1>1, <1>3, WorkingHorse DEF HorseTypes, Busy
<1>5. HorsesRun' /\ FewerRuns
  BY <1>1, HorseRuns DEF Serial
<1>6. \A j \in JobIds : ~Pending(j)' /\ ~Fresh(j)'
  <2>1. \A j \in JobIds : ~Pending(j)'
    BY <1>1, <1>2, <1>4, <1>5 DEF FewerRuns, Pending, Busy
  <2>2. \A j \in JobIds : Fresh(j)' => Pending(j)'
    BY DEF Fresh, Pending, Busy
  <2> QED BY <2>1, <2>2
<1>7. RunsAreCurrent' /\ RestartsKnow' /\ PurgesKnow'
  <2>1. RunsAreCurrent'
    BY <1>6 DEF RunsAreCurrent, OneRunAtATime
  <2>2. RestartsKnow'
    BY <1>2, <1>4 DEF RestartsKnow
  <2>3. PurgesKnow'
    BY <1>2, <1>6 DEF PurgesKnow, HasAudio
  <2> QED BY <2>1, <2>2, <2>3
<1>8. RecoveriesKnow'
  <2> SUFFICES ASSUME NEW r \in Requests, rstep[r] = "recover_commit"
               PROVE  state' \in {"transcribing", "transcription_failed"}
    BY <1>2, <1>6 DEF RecoveriesKnow
  <2>1. audio.purged /\ state \in {"transcribing", "transcription_failed"}
    BY <1>4 DEF RecoveriesKnow
  <2>2. wstep[w] = "fail"
    BY <1>2, <1>3, <2>1 DEF PurgedIsQuiet
  <2>3. HorseFail(w)
    BY <2>2 DEF HorsePersist, HorseRestore
  <2> QED BY <2>1, <2>3 DEF HorseFail
<1>9. RowsInv'
  <2>1. CurrentJobTracksAudio'
    BY <1>2 DEF CurrentJobTracksAudio, HasAudio
  <2>2. CurrentJobRan'
    BY <1>1, <1>2, <1>4 DEF HorseTypes, CurrentJobRan
  <2>3. FailuresAreFinal'
    <3>1. CASE jobRow' = jobRow
      BY <1>1, <1>2, <1>4, <3>1 DEF FailuresAreFinal
    <3>2. CASE jobRow' # jobRow
      <4>1. currentJob = running[w] /\ jobRow' = [jobRow EXCEPT ![running[w]] = "failed"]
        BY <1>2, <1>4, <3>2
      <4>2. wstep'[w] = "raise_permanent"
        BY <1>2, <3>2
      <4> QED BY <1>1, <1>2, <1>4, <4>1, <4>2 DEF FailuresAreFinal, TypeOK
    <3> QED BY <3>1, <3>2
  <2> QED BY <2>1, <2>2, <2>3
<1>10. PurgedIsQuiet' /\ HorseOwnsTheSession' /\ PersistsPlayable'
  BY <1>1, <1>2
  DEF PurgedIsQuiet, HorseOwnsTheSession, PersistsPlayable, PastLoad, HasAudio
<1>11. TranscriptOnlyWhenTranscribed'
  BY <1>2, <1>4 DEF TranscriptOnlyWhenTranscribed
<1>12. TranscribedAudioIsPlayable'
  <2> SUFFICES ASSUME wstep[w] = "persist", exists, ~audio.purged,
                      \A r \in Requests : rstep[r] \notin {"delete_commit", "purge_mark_commit"}
               PROVE  audio.path = "prepared" /\ prepared # NoFile /\ prepared = audio.sha
    BY <1>2, <1>4 DEF TranscribedAudioIsPlayable
  <2> QED BY DEF PersistsPlayable, AudioInv, PathsKept, HashMatchesPreparedFile
<1> QED BY <1>5, <1>7, <1>8, <1>9, <1>10, <1>11, <1>12

----------------------------------------------------------------------------
(* The invariant of one worker and one request at a time.                  *)

LEMMA SerialUnchanged ==
  ASSUME SerialInv, TypeOK, UNCHANGED vars
  PROVE  SerialInv'
<1>1. /\ UNCHANGED <<rq, running, exists, mode, state, currentJob, audio, jobRow, transcript,
                     raw, prepared, handles, rstep, rjob, wstep, wpath, wsrc>>
  BY DEF vars, queueVars, sessionVars, fileVars, requestVars, horseVars
<1>2. RunsAreCurrent' /\ HorsesRun'
  BY <1>1, RunsStay DEF Enqueued
<1>3. RowsInv'
  BY <1>1, RowsStay DEF TypeOK
<1>4. RestartsKnow' /\ RecoveriesKnow'
  BY <1>1 DEF RestartsKnow, RecoveriesKnow, HasAudio, Restartable, Pending, Busy
<1>5. PurgesKnow' /\ PurgedIsQuiet'
  BY <1>1 DEF PurgesKnow, PurgedIsQuiet, HasAudio, Fresh, File, PastLoad
<1>6. /\ HorseOwnsTheSession' /\ TranscriptOnlyWhenTranscribed'
      /\ PersistsPlayable' /\ TranscribedAudioIsPlayable'
  BY <1>1
  DEF HorseOwnsTheSession, TranscriptOnlyWhenTranscribed, PersistsPlayable,
      TranscribedAudioIsPlayable, PastLoad
<1> QED BY <1>2, <1>3, <1>4, <1>5, <1>6

LEMMA RequestSerial ==
  ASSUME Known, Serial, NEW r \in Requests, Request(r)
  PROVE  SerialInv'
<1>1. ~ApiCrash(r)
  BY DEF Serial, ApiCrash
<1>2. CASE Upload(r)
  BY <1>2, CheckSerial, FilesSerial, EnqueueSerial, CommitSerial DEF Upload
<1>3. CASE Purge(r)
  BY <1>3, CheckSerial, FilesSerial, PurgeSerial DEF Purge
<1>4. CASE Restart(r)
  BY <1>4, CheckSerial, EnqueueSerial, CommitSerial DEF Restart
<1>5. CASE Recover(r)
  BY <1>5, CheckSerial, RecoverSerial DEF Recover
<1>6. CASE Delete(r)
  BY <1>6, DeleteAbortSerial, FilesSerial, DeleteSerial DEF Delete
<1> QED BY <1>1, <1>2, <1>3, <1>4, <1>5, <1>6 DEF Request

\* Every step of a horse that neither takes nor leaves a job is one of those above.
LEMMA HorseSerial ==
  ASSUME Known, Serial, NEW w \in Workers, Horse(w)
  PROVE  SerialInv'
<1>1. \/ \E j \in JobIds : Starts(w, j)
      \/ Stays(w)
      \/ Leaves(w)
  BY HorseMoves DEF Known
<1>2. CASE \E j \in JobIds : Starts(w, j)
  BY <1>2, StartSerial
<1>3. CASE Leaves(w)
  BY <1>3, LeaveSerial
<1>4. CASE Stays(w)
  <2>1. wstep \in [Workers -> HorseSteps]
    BY DEF Known, TypeOK
  <2>2. ~HorseStart(w) /\ ~HorseRaise(w) /\ ~HorseFinish(w) /\ ~HorseKilled(w)
    BY <1>4, <2>1
    DEF Stays, HorseStart, HorseRaise, HorseFinish, HorseKilled, HorseEnds, HorseGoes
  <2> QED BY <2>2, LoadSerial, ClaimSerial, WorkSerial, EndSerial DEF Horse
<1> QED BY <1>1, <1>2, <1>3, <1>4

\* One worker, and requests that come one after the other and are not cut short:
\* the runs, the rows and the files of the session stay those of one current job.
THEOREM SerialHolds ==
  ASSUME Serial
  PROVE  Spec => []SerialInv
<1>1. Init => SerialInv
  <2> SUFFICES ASSUME Init PROVE SerialInv
    OBVIOUS
  <2> USE DEF Init
  <2>1. \A j \in JobIds : ~Pending(j) /\ ~Enqueued(j)
    BY DEF QueueInit, Pending, Busy, Enqueued
  <2>2. RunsInv
    BY <2>1 DEF HorsesRun, RunsAreCurrent, OneRunAtATime, RestartsKnow, RecoveriesKnow
  <2>3. RowsInv
    BY DEF CurrentJobTracksAudio, CurrentJobRan, FailuresAreFinal, HasAudio, NoAudio
  <2>4. SessionInv
    BY DEF PurgesKnow, PurgedIsQuiet, HorseOwnsTheSession, TranscriptOnlyWhenTranscribed,
      PersistsPlayable, TranscribedAudioIsPlayable, PastLoad, HasAudio, NoAudio
  <2> QED BY <2>2, <2>3, <2>4
<1>2. Known /\ [Next]_vars => SerialInv'
  <2> SUFFICES ASSUME Known, [Next]_vars PROVE SerialInv'
    OBVIOUS
  <2>1. CASE UNCHANGED vars
    BY <2>1, SerialUnchanged DEF Known
  <2>2. CASE \E r \in Requests : Request(r)
    BY <2>2, RequestSerial
  <2>3. CASE \E w \in Workers : Horse(w)
    BY <2>3, HorseSerial
  <2>4. CASE \E j \in JobIds : Redis(j)
    BY <2>4, RedisSerial
  <2> QED BY <2>1, <2>2, <2>3, <2>4 DEF Next
<1>3. OneWorker
  BY DEF Serial
<1>4. Spec => []TypeOK /\ []LifecycleInv /\ []AudioInv
  BY <1>3, TypeCorrect, LifecycleHolds, AudioHolds
<1> QED
  <2>1. TypeOK /\ LifecycleInv /\ AudioInv /\ SerialInv /\ [Next]_vars => SerialInv'
    BY <1>2 DEF Known
  <2> QED BY <1>1, <1>4, <2>1, PTL DEF Spec

\* At most one run of the pipeline is queued or under way (jobs/jdr.py): an
\* enqueue finds nothing left of the job it replaces.
THEOREM RunsDoNotOverlap ==
  ASSUME Serial
  PROVE  Spec => []OneRunAtATime
<1>1. SerialInv => OneRunAtATime
  BY DEF RunsAreCurrent
<1> QED BY <1>1, SerialHolds, PTL

\* POST .../recover commits its failure over no horse that still works on the
\* session, although the check and the commit are separate (logic.py).
THEOREM RecoveryFindsNoHorse ==
  ASSUME Serial
  PROVE  Spec => []RecoveryRacesNoHorse
<1>1. TypeOK /\ LifecycleInv /\ SerialInv => RecoveryRacesNoHorse
  <2> SUFFICES ASSUME TypeOK, LifecycleInv, SerialInv, NEW r \in Requests, NEW w \in Workers,
                      rstep[r] = "recover_commit", ~audio.purged
               PROVE  ~Busy(w)
    BY DEF RecoveryRacesNoHorse
  <2>1. \A j \in JobIds : ~Pending(j)
    BY DEF RecoveriesKnow
  <2>2. Busy(w) => running[w] \in JobIds
    BY HorseTypesHold DEF HorseTypes, Busy
  <2> QED BY <2>1, <2>2 DEF Pending
<1> QED BY <1>1, TypeCorrect, LifecycleHolds, SerialHolds, PTL

\* current_job_id is set exactly while there is an audio to process or to play:
\* upload, restart, purge and deletion move the reference and the row together.
THEOREM CurrentJobTracks ==
  ASSUME Serial
  PROVE  Spec => []CurrentJobTracksAudio
<1>1. SerialInv => CurrentJobTracksAudio
  OBVIOUS
<1> QED BY <1>1, SerialHolds, PTL

\* _mark_session_failed marks whatever job is current: it is never a job that is
\* still to run or that has succeeded.
THEOREM FailuresAreReal ==
  ASSUME Serial
  PROVE  Spec => []FailedRowsAreFailures
<1>1. SerialInv => FailedRowsAreFailures
  BY DEF FailuresAreFinal, FailedRowsAreFailures
<1> QED BY <1>1, SerialHolds, PTL

\* Between its first and last transaction a horse finds the session transcribing,
\* unless its audio was purged or the session deleted.
THEOREM HorsesOwnTheirSession ==
  ASSUME Serial
  PROVE  Spec => []HorseOwnsTheSession
<1>1. SerialInv => HorseOwnsTheSession
  OBVIOUS
<1> QED BY <1>1, SerialHolds, PTL

\* A transcribed session's audio row names a prepared file that is on disk and
\* has the row's checksum: playback and restart find it.
THEOREM TranscribedAudioPlays ==
  ASSUME Serial
  PROVE  Spec => []TranscribedAudioIsPlayable
<1>1. SerialInv => TranscribedAudioIsPlayable
  OBVIOUS
<1> QED BY <1>1, SerialHolds, PTL

\* There is a transcript exactly while the state says so: what restart, purge
\* and recovery delete and set goes together with what the worker wrote.
THEOREM TranscriptsAreOfTheState ==
  ASSUME Serial
  PROVE  Spec => []TranscriptOnlyWhenTranscribed
<1>1. SerialInv => TranscriptOnlyWhenTranscribed
  OBVIOUS
<1> QED BY <1>1, SerialHolds, PTL

=============================================================================
