--------------------------- MODULE Transcription ---------------------------
(***************************************************************************)
(* The audio and transcription pipeline of one JDR session: the API        *)
(* handlers that upload, purge, restart, recover and delete                *)
(* (app/services/jdr/logic.py, batch/router.py) and the worker job that    *)
(* prepares and transcribes the audio (app/jobs/jdr.py).  They share the   *)
(* session's database rows, its two audio files and the Redis queue.       *)
(*                                                                         *)
(* One session is modelled: the rows and files of two sessions are         *)
(* disjoint, and other sessions only delay a worker.  A handler is split   *)
(* where the code awaits or touches something another process can see: the *)
(* read its guard decides on, each file operation, each publication to     *)
(* Redis and each commit are steps of their own.                           *)
(***************************************************************************)
EXTENDS JobQueue

CONSTANTS
  Requests,   \* concurrent API requests; also names the bytes each uploads
  Modes,      \* the transcription modes a session may be created with
  NoFile,     \* the file is not on disk
  Partial     \* a file that is truncated, mixed or still being written

ASSUME TranscriptionAssumption ==
  /\ Modes \subseteq {"diarised", "non_diarised"}
  /\ NoFile \notin Requests
  /\ Partial \notin Requests
  /\ NoFile # Partial

VARIABLES
  exists,      \* the session row has not been deleted
  mode,        \* transcription_mode, immutable
  state,       \* SessionState
  currentJob,  \* current_job_id
  audio,       \* the audio source row
  jobRow,      \* status projected in jdr_jobs
  transcript,  \* the job that wrote the transcription or chunk rows
  raw,         \* content of .tmp/audio-reduce/<id>/raw.m4a
  prepared,    \* content of audios/<id>.m4a
  handles,     \* uploads whose open file is the one linked at the raw path
  rstep,       \* where each API request is
  rjob,        \* the job reference an API request holds
  wstep,       \* where each work horse is
  wpath,       \* audio.path as the work horse read it
  wsrc         \* the content the work horse read, then the one it hashed

sessionVars == <<exists, mode, state, currentJob, audio, jobRow, transcript>>
fileVars == <<raw, prepared, handles>>
requestVars == <<rstep, rjob>>
horseVars == <<wstep, wpath, wsrc>>
vars == <<queueVars, sessionVars, fileVars, requestVars, horseVars>>

----------------------------------------------------------------------------
States == {"created", "audio_uploaded", "transcribing",
           "transcription_failed", "transcribed"}

Content == Requests \cup {NoFile, Partial}
AudioRow == [path : {"none", "raw", "prepared"}, purged : BOOLEAN, sha : Content]
NoAudio == [path |-> "none", purged |-> FALSE, sha |-> NoFile]
HasAudio == audio.path # "none"

RequestSteps ==
  {"idle", "upload_write", "upload_insert", "upload_commit",
   "purge_files", "purge_commit", "purge_mark_commit",
   "restart_enqueue", "restart_commit", "recover_commit",
   "delete_files", "delete_commit"}

HorseSteps ==
  {"idle", "load", "claim", "open", "prepare", "relink", "sweep", "build", "call",
   "persist", "restore", "fail", "raise", "raise_permanent", "finish"}

TypeOK ==
  /\ QueueTypeOK
  /\ exists \in BOOLEAN
  /\ mode \in Modes
  /\ state \in States
  /\ currentJob \in JobIds \cup {NoJob}
  /\ audio \in AudioRow
  /\ jobRow \in [JobIds -> {"absent", "queued", "failed"}]
  /\ transcript \in JobIds \cup {NoJob}
  /\ raw \in Content
  /\ prepared \in Content
  /\ handles \subseteq Requests
  /\ rstep \in [Requests -> RequestSteps]
  /\ rjob \in [Requests -> JobIds \cup {NoJob}]
  /\ wstep \in [Workers -> HorseSteps]
  /\ wpath \in [Workers -> {"raw", "prepared"}]
  /\ wsrc \in [Workers -> Content]

Init ==
  /\ QueueInit
  /\ exists = TRUE
  /\ mode \in Modes
  /\ state = "created"
  /\ currentJob = NoJob
  /\ audio = NoAudio
  /\ jobRow = [j \in JobIds |-> "absent"]
  /\ transcript = NoJob
  /\ raw = NoFile
  /\ prepared = NoFile
  /\ handles = {}
  /\ rstep = [r \in Requests |-> "idle"]
  /\ rjob = [r \in Requests |-> NoJob]
  /\ wstep = [w \in Workers |-> "idle"]
  /\ wpath = [w \in Workers |-> "raw"]
  /\ wsrc = [w \in Workers |-> NoFile]

----------------------------------------------------------------------------
(* Helpers.                                                                *)

\* An open transaction has updated the session row: other writers wait.
Locked(r) == rstep[r] \in {"upload_commit", "restart_commit"}
RowLocked == \E r \in Requests : Locked(r)

File(path) == IF path = "raw" THEN raw ELSE prepared

RequestGoes(r, to) == rstep' = [rstep EXCEPT ![r] = to]
RequestEnds(r) ==
  /\ RequestGoes(r, "idle")
  /\ rjob' = [rjob EXCEPT ![r] = NoJob]

HorseGoes(w, to) == wstep' = [wstep EXCEPT ![w] = to]
HorseEnds(w) ==
  /\ HorseGoes(w, "idle")
  /\ wpath' = [wpath EXCEPT ![w] = "raw"]
  /\ wsrc' = [wsrc EXCEPT ![w] = NoFile]

\* rmtree of .tmp/audio-reduce/<id>: uploads still writing keep an unlinked file.
RawDirRemoved == raw' = NoFile /\ handles' = {}

----------------------------------------------------------------------------
(* POST /sessions/{id}/audio : store_audio_source_for_session.             *)

\* One audio row per session, ever: checked before writing, and again by the
\* primary key when the row is flushed.
MutantUploadAccepted == exists
UploadAccepted == exists /\ ~HasAudio

UploadBegin(r) ==  \* no audio row yet; open(..., "wb") truncates the raw file
  /\ rstep[r] = "idle"
  /\ UploadAccepted
  /\ RequestGoes(r, "upload_write")
  /\ raw' = Partial
  /\ handles' = handles \cup {r}
  /\ UNCHANGED <<queueVars, sessionVars, prepared, rjob, horseVars>>

\* The last chunk has been written, possibly interleaved with another upload's.
UploadWrite(r) ==
  /\ rstep[r] = "upload_write"
  /\ RequestGoes(r, "upload_insert")
  /\ \/ r \in handles /\ raw' = r
     \/ r \in handles /\ (handles # {r} \/ raw # Partial) /\ raw' = Partial
     \/ r \notin handles /\ raw' = raw
  /\ UNCHANGED <<queueVars, sessionVars, prepared, handles, rjob, horseVars>>

UploadTooLarge(r) ==  \* the limit is exceeded: unlink and rmtree, 413
  /\ rstep[r] = "upload_write"
  /\ RequestEnds(r)
  /\ RawDirRemoved
  /\ UNCHANGED <<queueVars, sessionVars, prepared, horseVars>>

\* The audio row is flushed (it is the session's primary key), the session
\* row updated, the job enqueued: visible in Redis, uncommitted in Postgres.
UploadInsert(r) ==
  /\ rstep[r] = "upload_insert"
  /\ ~RowLocked
  /\ handles' = handles \ {r}
  /\ \/ /\ UploadAccepted
        /\ \E j \in JobIds :
             /\ Enqueue(j)
             /\ rjob' = [rjob EXCEPT ![r] = j]
        /\ RequestGoes(r, "upload_commit")
     \/ /\ ~UploadAccepted
        /\ RequestEnds(r)
        /\ UNCHANGED queueVars
  /\ UNCHANGED <<sessionVars, raw, prepared, horseVars>>

UploadCommit(r) ==
  /\ rstep[r] = "upload_commit"
  /\ audio' = [path |-> "raw", purged |-> FALSE, sha |-> r]
  /\ state' = "audio_uploaded"
  /\ jobRow' = [jobRow EXCEPT ![rjob[r]] = "queued"]
  /\ currentJob' = rjob[r]
  /\ RequestEnds(r)
  /\ UNCHANGED <<queueVars, exists, mode, transcript, fileVars, horseVars>>

----------------------------------------------------------------------------
(* DELETE /sessions/{id}/audio : purge_audio_for_session.                  *)

PurgeCheck(r) ==
  /\ rstep[r] = "idle"
  /\ exists /\ state # "transcribing"
  /\ RequestGoes(r, "purge_files")
  /\ UNCHANGED <<queueVars, sessionVars, fileVars, rjob, horseVars>>

\* The file the row names is unlinked, unless the row is purged already, and
\* the raw directory removed; only then is the row marked.
UnlinkAudio ==
  /\ RawDirRemoved
  /\ prepared' = IF audio.path = "prepared" /\ ~audio.purged
                 THEN NoFile ELSE prepared

PurgeFiles(r) ==
  /\ rstep[r] = "purge_files"
  /\ UnlinkAudio
  /\ RequestGoes(r, IF HasAudio /\ ~audio.purged THEN "purge_mark_commit"
                                                 ELSE "purge_commit")
  /\ UNCHANGED <<queueVars, sessionVars, rjob, horseVars>>

\* Every derived output goes, the job reference too; the job itself stays.
MutantPurgedRow == transcript' = NoJob /\ state' = "created" /\ UNCHANGED currentJob
PurgedRow == transcript' = NoJob /\ state' = "created" /\ currentJob' = NoJob

PurgeCommit(r) ==
  /\ rstep[r] \in {"purge_commit", "purge_mark_commit"}
  /\ ~RowLocked
  /\ IF exists
     THEN /\ audio' = [audio EXCEPT !.purged =
                         @ \/ rstep[r] = "purge_mark_commit"]
          /\ PurgedRow
     ELSE UNCHANGED <<audio, transcript, currentJob, state>>
  /\ RequestEnds(r)
  /\ UNCHANGED <<queueVars, exists, mode, jobRow, fileVars, horseVars>>

----------------------------------------------------------------------------
(* POST /sessions/{id}/transcription/restart and .../recover.              *)

MutantRestartable == state \in {"audio_uploaded", "transcription_failed", "transcribed"}
Restartable == state \in {"transcription_failed", "transcribed"}

RestartCheck(r) ==
  /\ rstep[r] = "idle"
  /\ exists /\ Restartable
  /\ HasAudio /\ ~audio.purged
  /\ RequestGoes(r, "restart_enqueue")
  /\ UNCHANGED <<queueVars, sessionVars, fileVars, rjob, horseVars>>

\* Outputs deleted and state updated, then the job enqueued before the commit.
\* A session deleted meanwhile makes the job row violate its foreign key.
RestartEnqueue(r) ==
  /\ rstep[r] = "restart_enqueue"
  /\ ~RowLocked
  /\ \E j \in JobIds :
       /\ Enqueue(j)
       /\ rjob' = [rjob EXCEPT ![r] = IF exists THEN j ELSE NoJob]
  /\ RequestGoes(r, IF exists THEN "restart_commit" ELSE "idle")
  /\ UNCHANGED <<sessionVars, fileVars, horseVars>>

MutantRestartedRow == state' = "audio_uploaded" /\ UNCHANGED transcript
MutantRestartedOutput == UNCHANGED state /\ transcript' = NoJob
RestartedRow == state' = "audio_uploaded" /\ transcript' = NoJob

RestartCommit(r) ==
  /\ rstep[r] = "restart_commit"
  /\ RestartedRow
  /\ jobRow' = [jobRow EXCEPT ![rjob[r]] = "queued"]
  /\ currentJob' = rjob[r]
  /\ RequestEnds(r)
  /\ UNCHANGED <<queueVars, exists, mode, audio, fileVars, horseVars>>

\* Recovery is refused while the current job is alive in RQ.
MutantRecoverable == exists /\ state = "transcribing"
Recoverable ==
  /\ exists /\ state = "transcribing"
  /\ ~Active(currentJob)

RecoverCheck(r) ==
  /\ rstep[r] = "idle"
  /\ Recoverable
  /\ RequestGoes(r, "recover_commit")
  /\ rjob' = [rjob EXCEPT ![r] = currentJob]
  /\ UNCHANGED <<queueVars, sessionVars, fileVars, horseVars>>

RecoverCommit(r) ==
  /\ rstep[r] = "recover_commit"
  /\ ~RowLocked
  /\ IF exists
     THEN /\ state' = "transcription_failed"
          /\ jobRow' = IF rjob[r] = NoJob THEN jobRow
                       ELSE [jobRow EXCEPT ![rjob[r]] = "failed"]
     ELSE UNCHANGED <<state, jobRow>>
  /\ RequestEnds(r)
  /\ UNCHANGED <<queueVars, exists, mode, currentJob, audio, transcript,
                 fileVars, horseVars>>

----------------------------------------------------------------------------
(* DELETE /sessions/{id} : delete_session.                                 *)

\* The job the request read as current is stopped or canceled, best effort.
DeleteAbort(r) ==
  /\ rstep[r] = "idle"
  /\ exists
  /\ Abort(currentJob)
  /\ RequestGoes(r, "delete_files")
  /\ UNCHANGED <<sessionVars, fileVars, rjob, horseVars>>

DeleteFiles(r) ==
  /\ rstep[r] = "delete_files"
  /\ UnlinkAudio
  /\ RequestGoes(r, "delete_commit")
  /\ UNCHANGED <<queueVars, sessionVars, rjob, horseVars>>

DeleteCommit(r) ==  \* every row of the session goes with it (ON DELETE CASCADE)
  /\ rstep[r] = "delete_commit"
  /\ ~RowLocked
  /\ exists' = FALSE
  /\ state' = "created"
  /\ currentJob' = NoJob
  /\ audio' = NoAudio
  /\ jobRow' = [j \in JobIds |-> "absent"]
  /\ transcript' = NoJob
  /\ RequestEnds(r)
  /\ UNCHANGED <<queueVars, mode, fileVars, horseVars>>

\* The API process dies, or the handler ends in an unexpected exception: its
\* transaction rolls back, what Redis and the disk already show stays.
ApiCrash(r) ==
  /\ "api_crash" \in Faults
  /\ rstep[r] # "idle"
  /\ RequestEnds(r)
  /\ handles' = handles \ {r}
  /\ UNCHANGED <<queueVars, sessionVars, raw, prepared, horseVars>>

----------------------------------------------------------------------------
(* The worker: transcribe_session_job / _transcribe_session.               *)

HorseStart(w) ==
  /\ wstep[w] = "idle"
  /\ \E j \in JobIds : Dequeue(w, j)
  /\ HorseGoes(w, "load")
  /\ UNCHANGED <<sessionVars, fileVars, requestVars, wpath, wsrc>>

\* First transaction, its reads: without a usable audio row, PermanentJobError
\* and no change of state.
HorseLoad(w) ==
  /\ wstep[w] = "load"
  /\ \/ /\ ~exists \/ ~HasAudio \/ audio.purged
        /\ HorseGoes(w, "raise_permanent")
        /\ UNCHANGED wpath
     \/ /\ exists /\ HasAudio /\ ~audio.purged
        /\ HorseGoes(w, "claim")
        /\ wpath' = [wpath EXCEPT ![w] = audio.path]
  /\ UNCHANGED <<queueVars, sessionVars, fileVars, requestVars, wsrc>>

\* Its update waits for the row; a row deleted meanwhile is a StaleDataError.
HorseClaim(w) ==
  /\ wstep[w] = "claim"
  /\ ~RowLocked
  /\ state' = IF exists THEN "transcribing" ELSE state
  /\ HorseGoes(w, IF exists THEN "open" ELSE "raise")
  /\ UNCHANGED <<queueVars, exists, mode, currentJob, audio, jobRow, transcript,
                 fileVars, requestVars, wpath, wsrc>>

\* The file must exist; ffmpeg then opens the raw file and truncates its target.
HorseOpen(w) ==
  /\ wstep[w] = "open"
  /\ \/ /\ File(wpath[w]) = NoFile
        /\ HorseGoes(w, "fail")
        /\ UNCHANGED <<prepared, wsrc>>
     \/ /\ File(wpath[w]) # NoFile
        /\ wpath[w] = "raw"
        /\ prepared' = Partial
        /\ wsrc' = [wsrc EXCEPT ![w] = raw]
        /\ HorseGoes(w, "prepare")
     \/ /\ File(wpath[w]) # NoFile
        /\ wpath[w] = "prepared"
        /\ HorseGoes(w, "build")
        /\ UNCHANGED <<prepared, wsrc>>
  /\ UNCHANGED <<queueVars, sessionVars, raw, handles, requestVars, wpath>>

\* ffmpeg succeeds on the complete file it opened, or on what overwrote it; a
\* truncated or mixed M4A file has no usable index.
PrepareOk(w) ==
  /\ wstep[w] = "prepare"
  /\ \E c \in {wsrc[w], raw} \ {NoFile, Partial} :
       /\ prepared' = c
       /\ wsrc' = [wsrc EXCEPT ![w] = c]
  /\ HorseGoes(w, "relink")
  /\ UNCHANGED <<queueVars, sessionVars, raw, handles, requestVars, wpath>>

\* AudioReduceError: the target and the whole raw directory are removed.
PrepareFails(w) ==
  /\ wstep[w] = "prepare"
  /\ prepared' = NoFile
  /\ RawDirRemoved
  /\ HorseGoes(w, "fail")
  /\ UNCHANGED <<queueVars, sessionVars, requestVars, wpath, wsrc>>

MutantRelinkedRow(w) == [audio EXCEPT !.sha = wsrc[w]]
MutantStaleHashRow(w) == [audio EXCEPT !.path = "prepared"]
RelinkedRow(w) == [audio EXCEPT !.path = "prepared", !.sha = wsrc[w]]

\* Second transaction: the audio row, if it is still there, names the
\* prepared file.  purged_at is not looked at.
HorseRelink(w) ==
  /\ wstep[w] = "relink"
  /\ \/ /\ HasAudio
        /\ audio' = RelinkedRow(w)
        /\ HorseGoes(w, "sweep")
     \/ /\ ~HasAudio
        /\ HorseGoes(w, "fail")
        /\ UNCHANGED audio
  /\ UNCHANGED <<queueVars, exists, mode, state, currentJob, jobRow, transcript,
                 fileVars, requestVars, wpath, wsrc>>

HorseSweep(w) ==  \* _cleanup_transient_audio_dir
  /\ wstep[w] = "sweep"
  /\ RawDirRemoved
  /\ HorseGoes(w, "build")
  /\ UNCHANGED <<queueVars, sessionVars, prepared, requestVars, wpath, wsrc>>

\* The owner's model settings are read; an unvalidated local provider raises
\* PermanentJobError here, outside the handlers that update the session.
HorseBuild(w) ==
  /\ wstep[w] = "build"
  /\ \/ HorseGoes(w, "call")
     \/ "misconfigured" \in Faults /\ HorseGoes(w, "raise_permanent")
  /\ UNCHANGED <<queueVars, sessionVars, fileVars, requestVars, wpath, wsrc>>

\* The adapter call: success needs a file to read; transient and permanent
\* errors have handlers; a missing file or the job timeout has none.
HorseCall(w) ==
  /\ wstep[w] = "call"
  /\ \/ prepared # NoFile /\ HorseGoes(w, "persist")
     \/ "transient" \in Faults /\ HorseGoes(w, "restore")
     \/ HorseGoes(w, "fail")
     \/ prepared = NoFile /\ HorseGoes(w, "raise")
  /\ UNCHANGED <<queueVars, sessionVars, fileVars, requestVars, wpath, wsrc>>

\* JobTimeoutException interrupts ffmpeg or the call; no handler restores the state.
HorseTimeout(w) ==
  /\ "timeout" \in Faults
  /\ wstep[w] \in {"prepare", "call"}
  /\ HorseGoes(w, "raise")
  /\ UNCHANGED <<queueVars, sessionVars, fileVars, requestVars, wpath, wsrc>>

\* Third transaction: the output and the state, whatever the state is now.
\* Chunks that are already there violate uq_jdr_chunks_session_ordre; a
\* deleted session violates the foreign key.
HorsePersist(w) ==
  /\ wstep[w] = "persist"
  /\ \/ /\ exists
        /\ mode = "non_diarised" => transcript = NoJob
        /\ ~RowLocked
        /\ transcript' = running[w]
        /\ state' = "transcribed"
        /\ HorseGoes(w, "finish")
     \/ /\ ~exists \/ (mode = "non_diarised" /\ transcript # NoJob)
        /\ HorseGoes(w, "raise")
        /\ UNCHANGED <<transcript, state>>
  /\ UNCHANGED <<queueVars, exists, mode, currentJob, audio, jobRow, fileVars,
                 requestVars, wpath, wsrc>>

HorseRestore(w) ==  \* _restore_session_state(AUDIO_UPLOADED), then TransientJobError
  /\ wstep[w] = "restore"
  /\ ~RowLocked
  /\ state' = IF exists THEN "audio_uploaded" ELSE state
  /\ HorseGoes(w, "raise")
  /\ UNCHANGED <<queueVars, exists, mode, currentJob, audio, jobRow, transcript,
                 fileVars, requestVars, wpath, wsrc>>

\* _mark_session_failed fails the session and the row of whatever job is
\* current; the caller then raises PermanentJobError.
HorseFail(w) ==
  /\ wstep[w] = "fail"
  /\ ~RowLocked
  /\ state' = IF exists THEN "transcription_failed" ELSE state
  /\ jobRow' = IF currentJob = NoJob THEN jobRow
               ELSE [jobRow EXCEPT ![currentJob] = "failed"]
  /\ HorseGoes(w, "raise_permanent")
  /\ UNCHANGED <<queueVars, exists, mode, currentJob, audio, transcript,
                 fileVars, requestVars, wpath, wsrc>>

HorseRaise(w) ==
  /\ wstep[w] \in {"raise", "raise_permanent"}
  /\ JobRaises(w)
  /\ HorseEnds(w)
  /\ UNCHANGED <<sessionVars, fileVars, requestVars>>

HorseFinish(w) ==
  /\ wstep[w] = "finish"
  /\ Complete(w)
  /\ HorseEnds(w)
  /\ UNCHANGED <<sessionVars, fileVars, requestVars>>

\* The horse is killed: by the kernel under a living worker, together with its
\* worker, or by a stop command.
HorseKilled(w) ==
  /\ wstep[w] # "idle"
  /\ \/ "worker_death" \in Faults /\ JobRaises(w)
     \/ WorkerDies(w)
     \/ StopDelivered(w)
  /\ HorseEnds(w)
  /\ UNCHANGED <<sessionVars, fileVars, requestVars>>

----------------------------------------------------------------------------
Upload(r) ==
  \/ UploadBegin(r) \/ UploadWrite(r) \/ UploadTooLarge(r)
  \/ UploadInsert(r) \/ UploadCommit(r)

Purge(r) == PurgeCheck(r) \/ PurgeFiles(r) \/ PurgeCommit(r)
Restart(r) == RestartCheck(r) \/ RestartEnqueue(r) \/ RestartCommit(r)
Recover(r) == RecoverCheck(r) \/ RecoverCommit(r)
Delete(r) == DeleteAbort(r) \/ DeleteFiles(r) \/ DeleteCommit(r)

Request(r) ==
  Upload(r) \/ Purge(r) \/ Restart(r) \/ Recover(r) \/ Delete(r) \/ ApiCrash(r)

Horse(w) ==
  \/ HorseStart(w) \/ HorseLoad(w) \/ HorseClaim(w) \/ HorseOpen(w)
  \/ PrepareOk(w) \/ PrepareFails(w) \/ HorseRelink(w) \/ HorseSweep(w)
  \/ HorseBuild(w) \/ HorseCall(w) \/ HorseTimeout(w) \/ HorsePersist(w)
  \/ HorseRestore(w) \/ HorseFail(w) \/ HorseRaise(w) \/ HorseFinish(w)
  \/ HorseKilled(w)

Redis(j) ==
  /\ Reap(j) \/ Requeue(j) \/ JobLost(j)
  /\ UNCHANGED <<sessionVars, fileVars, requestVars, horseVars>>

Next ==
  \/ \E r \in Requests : Request(r)
  \/ \E w \in Workers : Horse(w)
  \/ \E j \in JobIds : Redis(j)

Spec == Init /\ [][Next]_vars

\* Requests that have begun go on, the worker processes run, and RQ maintains
\* its registries.  Nothing obliges a fault, a client or a scheduler to act.
Fairness ==
  /\ \A r \in Requests :
       WF_vars(rstep[r] # "idle" /\ (Upload(r) \/ Purge(r) \/ Restart(r)
                                     \/ Recover(r) \/ Delete(r)))
  /\ \A w \in Workers : WF_vars(Horse(w))
  /\ \A j \in JobIds : WF_vars(Reap(j) /\ UNCHANGED <<sessionVars, fileVars,
                                             requestVars, horseVars>>)

FairSpec == Spec /\ Fairness


----------------------------------------------------------------------------
(* The inductive invariant.                                                *)

PastLoad(w) == wstep[w] \notin {"idle", "load", "raise", "raise_permanent", "finish"}

\* A row lock has one holder, and what its guard saw is still so.
LocksHold ==
  /\ \A r, s \in Requests : Locked(r) /\ Locked(s) => r = s
  /\ \A r \in Requests : rstep[r] = "upload_commit" =>
       exists /\ ~HasAudio /\ rjob[r] # NoJob
  /\ \A r \in Requests : rstep[r] = "restart_commit" =>
       exists /\ HasAudio /\ rjob[r] # NoJob

\* A session no upload was accepted for is untouched; a deleted one is bare.
UntouchedBeforeUpload ==
  /\ ~HasAudio => state = "created" /\ transcript = NoJob
  /\ ~exists => ~HasAudio

\* Horses that found an audio row, and requests about to recover or
\* restart, act on a session whose upload was accepted, or is deleted.
ActorsFollowAnUpload ==
  /\ \A w \in Workers : PastLoad(w) => HasAudio \/ ~exists
  /\ \A r \in Requests : rstep[r] \in {"recover_commit", "restart_enqueue"} =>
       HasAudio \/ ~exists
  /\ \A w \in Workers : wstep[w] = "idle" <=> running[w] = NoJob

TranscribedIsPublished == state = "transcribed" => transcript # NoJob

\* The strengthening behind RefinesLifecycle: it fails as soon as a step of one
\* actor undercuts what another actor's earlier read relies on.
LifecycleInv ==
  /\ LocksHold
  /\ UntouchedBeforeUpload
  /\ ActorsFollowAnUpload
  /\ TranscribedIsPublished

----------------------------------------------------------------------------
(* Properties of every configuration.                                      *)

Lifecycle == INSTANCE SessionLifecycle WITH
  phase <- IF exists THEN state ELSE "deleted",
  accepted <- HasAudio,
  published <- transcript # NoJob

\* Whatever the interleaving of API requests, worker steps, retries and faults,
\* a client sees the session change by the steps of SessionLifecycle only.
RefinesLifecycle == Lifecycle!Spec

\* With one worker, the checksum of the audio row is that of the prepared file
\* it names, also when a concurrent upload overwrote the raw file.
HashMatchesPreparedFile ==
  audio.path = "prepared" /\ prepared # NoFile => prepared = audio.sha

----------------------------------------------------------------------------
(* Properties of one API request at a time and no scheduler.               *)

Busy(w) == wstep[w] \notin {"idle", "raise", "raise_permanent", "finish"}
Pending(j) == rq[j] = "queued" \/ \E w \in Workers : running[w] = j /\ Busy(w)

\* At most one run of the pipeline is queued or under way: no two runs write
\* the session's rows and files.
OneRunAtATime == \A i, j \in JobIds : Pending(i) /\ Pending(j) => i = j

\* Recovery never takes a session with a usable audio from a horse that is still
\* working on it, also in the window between its check and its commit.  (A purge
\* clears the reference recovery looks at, possibly between a horse's read of the
\* audio row and its claim of the session: hence the exception.)
RecoveryRacesNoHorse ==
  \A r \in Requests, w \in Workers : rstep[r] = "recover_commit" =>
    ~Busy(w) \/ audio.purged \/ ~exists

\* current_job_id is set exactly while the session has an audio to process or play.
CurrentJobTracksAudio == currentJob # NoJob <=> HasAudio /\ ~audio.purged

\* A job row is marked failed only for a job that ran and did not succeed,
\* although the worker marks whatever job is current.
FailedRowsAreFailures ==
  \A j \in JobIds : jobRow[j] = "failed" => rq[j] \notin {"none", "queued", "finished"}

\* Between its first and last transaction a horse finds the session as it left
\* it, transcribing, unless the audio was purged or the session deleted.
HorseOwnsTheSession ==
  \A w \in Workers : PastLoad(w) /\ wstep[w] # "claim" =>
    state = "transcribing" \/ audio.purged \/ ~exists

\* A transcribed session keeps its prepared audio for playback and restart,
\* except while a purge or a deletion is removing it.
TranscribedAudioIsPlayable ==
  /\ state = "transcribed" /\ ~audio.purged
  /\ \A r \in Requests : rstep[r] \notin {"delete_commit", "purge_mark_commit"}
  => audio.path = "prepared" /\ prepared # NoFile /\ prepared = audio.sha

\* A transcript is readable exactly while the session is transcribed: a restart
\* or a purge leaves none behind, and nothing sets back a session it describes.
TranscriptOnlyWhenTranscribed == transcript # NoJob <=> state = "transcribed"

----------------------------------------------------------------------------
(* Liveness, whether or not a scheduler runs.                              *)

\* A session does not stay transcribing with the recovery refused, but for one
\* cause: its job waits for a retry that no worker starts, and that recovery
\* takes for a sign of life (_ACTIVE_RQ_JOB_STATUSES).
TranscribingEndsOrIsRecoverable ==
  state = "transcribing" ~>
    \/ state # "transcribing" \/ Recoverable
    \/ [](\E j \in JobIds : currentJob = j /\ rq[j] = "scheduled")
=============================================================================
