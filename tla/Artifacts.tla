----------------------------- MODULE Artifacts -----------------------------
(***************************************************************************)
(* The artifacts of one JDR session: the jobs that generate the summary,   *)
(* the narrative, the elements card and the points of view                 *)
(* (app/jobs/jdr.py), the endpoints that trigger them, edit artifacts,     *)
(* edit the transcript or change who played whom (app/services/jdr/        *)
(* router.py), and the operations that invalidate artifacts                *)
(* (app/services/jdr/logic.py).                                            *)
(*                                                                         *)
(* A generation reads its source in one transaction, talks to a language   *)
(* model for minutes without any, and stores its result in another one.    *)
(* Texts are abstracted to the version of the source they come from: every *)
(* change of a source takes the next version.                              *)
(*                                                                         *)
(* Transcription itself is coarse here (see Transcription): the session is *)
(* transcribed once when the behaviour begins, and again after a restart.  *)
(***************************************************************************)
EXTENDS JobQueue

CONSTANTS
  Requests,    \* concurrent API requests
  Modes,       \* the transcription modes a session may have
  Texts,       \* the artifacts generated like the narrative
  Pjs,         \* the characters; also the kinds of their points of view
  Forces,      \* the values of the force parameter that clients use
  MaxVersion   \* bound: an edit of the transcript begins below this version only

ASSUME ArtifactsAssumption ==
  /\ JobIds \subseteq Nat
  /\ Modes \subseteq {"diarised", "non_diarised"}
  /\ Texts \subseteq {"narrative", "elements"}
  /\ Pjs \cap {"summary", "narrative", "elements", "none", "povs",
               "transcription"} = {}
  /\ Forces \subseteq BOOLEAN
  /\ MaxVersion \in Nat

VARIABLES
  exists,      \* the session row has not been deleted
  mode,        \* transcription_mode, immutable
  state,       \* SessionState
  purged,      \* the audio row is purged
  currentJob,  \* current_job_id
  clock,       \* the last version given to a source
  base,        \* version of the transcription or chunk rows, 0 without them
  sums,        \* version of the chunks' summary_text, 0 when they are null
  edit,        \* version of edited_transcript_md, 0 when it is null
  who,         \* characters in the mapping or the player list
  artifact,    \* the artifact rows: version of the source, edited by hand?
  jkind,       \* what each job does
  jforce,      \* was the job requested with force=true?
  rstep,       \* where each API request is
  rkind,       \* the artifact kind, or job kind, the request is about
  rforce,      \* its force parameter
  rjob,        \* the job it has enqueued
  wstep,       \* where each work horse is
  wread        \* what the work horse has read

sourceVars == <<clock, base, sums, edit, who>>
sessionVars == <<exists, mode, state, purged, currentJob, sourceVars, artifact>>
jobVars == <<jkind, jforce>>
requestVars == <<rstep, rkind, rforce, rjob>>
horseVars == <<wstep, wread>>
vars == <<queueVars, sessionVars, jobVars, requestVars, horseVars>>

----------------------------------------------------------------------------
States == {"created", "audio_uploaded", "transcribing",
           "transcription_failed", "transcribed"}

Kinds == {"summary"} \cup Texts \cup Pjs
Downstream == Texts \cup Pjs
ArtifactJobKinds == {"summary", "povs"} \cup Texts
JobKinds == ArtifactJobKinds \cup {"transcription"}

Artifact == [from : Nat, edited : BOOLEAN]
NoArtifact == [from |-> 0, edited |-> FALSE]
Has(k) == artifact[k].from # 0

Read == [from : Nat, chunks : Nat, who : SUBSET Pjs]
NothingRead == [from |-> 0, chunks |-> 0, who |-> {}]

TypeOK ==
  /\ QueueTypeOK
  /\ exists \in BOOLEAN /\ purged \in BOOLEAN
  /\ mode \in Modes
  /\ state \in States
  /\ currentJob \in JobIds \cup {NoJob}
  /\ clock \in Nat /\ base \in Nat /\ sums \in Nat /\ edit \in Nat
  /\ who \in SUBSET Pjs
  /\ artifact \in [Kinds -> Artifact]
  /\ jkind \in [JobIds -> JobKinds \cup {"none"}]
  /\ jforce \in [JobIds -> BOOLEAN]
  /\ rstep \in [Requests -> {"idle", "post_enqueue", "post_commit", "edit",
                             "transcript", "mapping", "purge", "restart", "delete"}]
  /\ rkind \in [Requests -> Kinds \cup JobKinds \cup {"none"}]
  /\ \A r \in Requests : rstep[r] = "post_enqueue" => rkind[r] \in ArtifactJobKinds
  /\ rforce \in [Requests -> BOOLEAN]
  /\ rjob \in [Requests -> JobIds \cup {NoJob}]
  /\ wstep \in [Workers -> {"idle", "load", "source", "call", "persist",
                            "transcribe", "raise", "finish"}]
  /\ wread \in [Workers -> Read]

\* The first transcription has been published.  Its job, finished, is still the
\* current one: no guard tells such a reference from none.
Init ==
  /\ QueueInit
  /\ exists = TRUE /\ purged = FALSE
  /\ mode \in Modes
  /\ state = "transcribed"
  /\ currentJob = NoJob
  /\ clock = 1 /\ base = 1 /\ sums = 0 /\ edit = 0
  /\ who = {}
  /\ artifact = [k \in Kinds |-> NoArtifact]
  /\ jkind = [j \in JobIds |-> "none"]
  /\ jforce = [j \in JobIds |-> FALSE]
  /\ rstep = [r \in Requests |-> "idle"]
  /\ rkind = [r \in Requests |-> "none"]
  /\ rforce = [r \in Requests |-> FALSE]
  /\ rjob = [r \in Requests |-> NoJob]
  /\ wstep = [w \in Workers |-> "idle"]
  /\ wread = [w \in Workers |-> NothingRead]

----------------------------------------------------------------------------
(* Helpers.                                                                *)

RequestBegins(r, to, kind, force) ==
  /\ rstep[r] = "idle"
  /\ rstep' = [rstep EXCEPT ![r] = to]
  /\ rkind' = [rkind EXCEPT ![r] = kind]
  /\ rforce' = [rforce EXCEPT ![r] = force]
  /\ UNCHANGED rjob

RequestEnds(r) ==
  /\ rstep' = [rstep EXCEPT ![r] = "idle"]
  /\ rkind' = [rkind EXCEPT ![r] = "none"]
  /\ rforce' = [rforce EXCEPT ![r] = FALSE]
  /\ rjob' = [rjob EXCEPT ![r] = NoJob]

HorseGoes(w, to) == wstep' = [wstep EXCEPT ![w] = to]
HorseEnds(w) ==
  /\ HorseGoes(w, "idle")
  /\ wread' = [wread EXCEPT ![w] = NothingRead]

\* Job identifiers are used in order, and a queue is first in, first out; a
\* scheduled retry joins it again at the end.
NewJob(j, kind, force) ==
  /\ \A i \in JobIds : rq[i] = "none" => j <= i
  /\ Enqueue(j)
  /\ jkind' = [jkind EXCEPT ![j] = kind]
  /\ jforce' = [jforce EXCEPT ![j] = force]

\* Bound: a request that will enqueue a job begins while an identifier is free.
JobsLeft == \E j \in JobIds : rq[j] = "none"

NextQueued(j) ==
  WithScheduler \/ \A i \in JobIds : rq[i] = "queued" => j <= i

\* An artifact is dropped: its row is deleted.
Dropped(ks) == [k \in Kinds |-> IF k \in ks THEN NoArtifact ELSE artifact[k]]

----------------------------------------------------------------------------
(* POST /sessions/{id}/artifacts/{summary,narrative,elements,povs}.        *)

\* What each kind of generation needs: for a non-diarised session, a summary
\* (or an edited transcript) before anything is derived, chunks before a
\* summary; characters before points of view.
Prerequisites(kind) ==
  /\ exists /\ state = "transcribed"
  /\ kind = "summary" => mode = "non_diarised" /\ (base # 0 \/ edit # 0)
  /\ kind # "summary" /\ mode = "non_diarised" => Has("summary") \/ edit # 0
  /\ kind = "povs" => who # {}

\* The artifacts a job of this kind replaces or drops.
MutantAffected(kind) == IF kind = "povs" THEN Pjs ELSE {kind}
Affected(kind) ==
  CASE kind = "summary" -> Kinds
    [] kind = "povs" -> Pjs
    [] OTHER -> {kind}

\* _guard_regeneration_not_edited
RegenerationAllowed(kind, force) ==
  force \/ \A k \in Affected(kind) : ~artifact[k].edited

PostCheck(r) ==
  /\ JobsLeft
  /\ \E kind \in ArtifactJobKinds, force \in Forces :
       /\ Prerequisites(kind)
       /\ RegenerationAllowed(kind, force)
       /\ RequestBegins(r, "post_enqueue", kind, force)
  /\ UNCHANGED <<queueVars, sessionVars, jobVars, horseVars>>

PostEnqueue(r) ==  \* published in Redis; the rows are written and committed next
  /\ rstep[r] = "post_enqueue"
  /\ \E j \in JobIds :
       /\ NewJob(j, rkind[r], rforce[r])
       /\ rjob' = [rjob EXCEPT ![r] = j]
  /\ rstep' = [rstep EXCEPT ![r] = "post_commit"]
  /\ UNCHANGED <<sessionVars, rkind, rforce, horseVars>>

\* The new job takes the place of whatever job was current.  A session deleted
\* meanwhile violates the job row's foreign key.
PostCommit(r) ==
  /\ rstep[r] = "post_commit"
  /\ currentJob' = IF exists THEN rjob[r] ELSE currentJob
  /\ RequestEnds(r)
  /\ UNCHANGED <<queueVars, exists, mode, state, purged, sourceVars, artifact,
                 jobVars, horseVars>>

----------------------------------------------------------------------------
(* PATCH/PUT /sessions/{id}/artifacts/... : manual edits.                  *)

\* _guard_artifact_edit_not_busy looks at the current job only.
MutantGenerationBusy == FALSE
GenerationBusy ==
  /\ Active(currentJob)
  /\ jkind[currentJob] \in ArtifactJobKinds

EditCheck(r) ==
  /\ exists /\ ~GenerationBusy
  /\ \E k \in Kinds : RequestBegins(r, "edit", k, FALSE)
  /\ UNCHANGED <<queueVars, sessionVars, jobVars, horseVars>>

\* update_content: an edit is not a creation.
MutantEditedArtifact(k) == [artifact EXCEPT ![k].edited = TRUE, ![k].from = clock]
EditedArtifact(k) ==
  IF Has(k) THEN [artifact EXCEPT ![k].edited = TRUE] ELSE artifact

EditCommit(r) ==
  /\ rstep[r] = "edit"
  /\ artifact' = EditedArtifact(rkind[r])
  /\ RequestEnds(r)
  /\ UNCHANGED <<queueVars, exists, mode, state, purged, currentJob, sourceVars,
                 jobVars, horseVars>>

----------------------------------------------------------------------------
(* PUT .../transcription, PUT .../mapping, POST .../players.               *)

TranscriptEditCheck(r) ==  \* save_session_transcription_edit
  /\ clock < MaxVersion
  /\ exists /\ state = "transcribed"
  /\ RequestBegins(r, "transcript", "none", FALSE)
  /\ UNCHANGED <<queueVars, sessionVars, jobVars, horseVars>>

\* No artifact is invalidated.
TranscriptEditCommit(r) ==
  /\ rstep[r] = "transcript"
  /\ clock' = IF exists THEN clock + 1 ELSE clock
  /\ edit' = IF exists THEN clock + 1 ELSE edit
  /\ RequestEnds(r)
  /\ UNCHANGED <<queueVars, exists, mode, state, purged, currentJob, base, sums,
                 who, artifact, jobVars, horseVars>>

MappingCheck(r) ==  \* a mapping needs a transcript, a player list does not
  /\ exists
  /\ mode = "diarised" => state = "transcribed"
  /\ RequestBegins(r, "mapping", "none", FALSE)
  /\ UNCHANGED <<queueVars, sessionVars, jobVars, horseVars>>

\* set_session_mapping drops every point of view, set_session_players none.
Mapped == IF mode = "diarised" THEN Dropped(Pjs) ELSE artifact

MappingCommit(r) ==
  /\ rstep[r] = "mapping"
  /\ IF exists THEN who' \in SUBSET Pjs /\ artifact' = Mapped
               ELSE UNCHANGED <<who, artifact>>
  /\ RequestEnds(r)
  /\ UNCHANGED <<queueVars, exists, mode, state, purged, currentJob, clock, base,
                 sums, edit, jobVars, horseVars>>

----------------------------------------------------------------------------
(* DELETE .../audio, POST .../transcription/restart, DELETE /sessions/{id}. *)

PurgeCheck(r) ==
  /\ exists /\ state # "transcribing"
  /\ RequestBegins(r, "purge", "none", FALSE)
  /\ UNCHANGED <<queueVars, sessionVars, jobVars, horseVars>>

RestartCheck(r) ==
  /\ JobsLeft
  /\ exists /\ ~purged
  /\ state \in {"transcription_failed", "transcribed"}
  /\ RequestBegins(r, "restart", "none", FALSE)
  /\ UNCHANGED <<queueVars, sessionVars, jobVars, horseVars>>

\* Both drop every output of the session, those of a job still at work not yet.
MutantOutputsDropped ==
  /\ base' = 0 /\ sums' = 0
  /\ artifact' = Dropped(Kinds)
  /\ UNCHANGED <<clock, edit>>
OutputsDropped ==
  /\ base' = 0 /\ sums' = 0 /\ edit' = 0
  /\ artifact' = Dropped(Kinds)
  /\ UNCHANGED clock

PurgeCommit(r) ==
  /\ rstep[r] = "purge"
  /\ \/ /\ exists
        /\ OutputsDropped
        /\ purged' = TRUE
        /\ state' = "created"
        /\ currentJob' = NoJob
     \/ /\ ~exists
        /\ UNCHANGED <<state, purged, currentJob, clock, base, sums, edit, artifact>>
  /\ RequestEnds(r)
  /\ UNCHANGED <<queueVars, exists, mode, who, jobVars, horseVars>>

\* The mapping goes too, the player list stays.
RestartCommit(r) ==
  /\ rstep[r] = "restart"
  /\ \E j \in JobIds :
       /\ NewJob(j, "transcription", FALSE)
       /\ \/ /\ exists
             /\ OutputsDropped
             /\ who' = IF mode = "diarised" THEN {} ELSE who
             /\ state' = "audio_uploaded"
             /\ currentJob' = j
          \/ /\ ~exists
             /\ UNCHANGED <<state, currentJob, sourceVars, artifact>>
  /\ RequestEnds(r)
  /\ UNCHANGED <<exists, mode, purged, horseVars>>

DeleteAbort(r) ==
  /\ exists
  /\ Abort(currentJob)
  /\ RequestBegins(r, "delete", "none", FALSE)
  /\ UNCHANGED <<sessionVars, jobVars, horseVars>>

DeleteCommit(r) ==
  /\ rstep[r] = "delete"
  /\ OutputsDropped
  /\ exists' = FALSE
  /\ who' = {}
  /\ state' = "created"
  /\ currentJob' = NoJob
  /\ RequestEnds(r)
  /\ UNCHANGED <<queueVars, mode, purged, jobVars, horseVars>>

ApiCrash(r) ==
  /\ "api_crash" \in Faults
  /\ rstep[r] # "idle"
  /\ RequestEnds(r)
  /\ UNCHANGED <<queueVars, sessionVars, jobVars, horseVars>>

----------------------------------------------------------------------------
(* The worker.                                                             *)

HorseStart(w) ==
  /\ wstep[w] = "idle"
  /\ \E j \in JobIds : NextQueued(j) /\ Dequeue(w, j)
  /\ HorseGoes(w, "load")
  /\ UNCHANGED <<sessionVars, jobVars, requestVars, wread>>

Kind(w) == jkind[running[w]]

\* _load_session_source_document: the edited transcript before anything else;
\* 0 when rows or chunk summaries are missing.
MutantSource == IF mode = "diarised" THEN base ELSE IF sums # 0 THEN sums ELSE edit
Source ==
  IF edit # 0 THEN edit ELSE IF mode = "diarised" THEN base ELSE sums

\* The source of a derived artifact, read with the state it requires.
LoadSource(w) ==
  \/ /\ exists /\ state = "transcribed" /\ Source # 0
     /\ wread' = [wread EXCEPT ![w].from = Source]
     /\ HorseGoes(w, "call")
  \/ /\ ~(exists /\ state = "transcribed" /\ Source # 0)
     /\ HorseGoes(w, "raise")
     /\ UNCHANGED wread

LoadText(w) ==  \* _generate_narrative, _generate_elements
  /\ wstep[w] = "load" /\ Kind(w) \in Texts
  /\ LoadSource(w)
  /\ UNCHANGED <<queueVars, sessionVars, jobVars, requestVars>>

\* _generate_povs reads the characters in a transaction of its own.
LoadCharacters(w) ==
  /\ wstep[w] = "load" /\ Kind(w) = "povs"
  /\ \/ /\ exists /\ state = "transcribed" /\ who # {}
        /\ wread' = [wread EXCEPT ![w].who = who]
        /\ HorseGoes(w, "source")
     \/ /\ ~(exists /\ state = "transcribed" /\ who # {})
        /\ HorseGoes(w, "raise")
        /\ UNCHANGED wread
  /\ UNCHANGED <<queueVars, sessionVars, jobVars, requestVars>>

LoadCharactersSource(w) ==
  /\ wstep[w] = "source"
  /\ LoadSource(w)
  /\ UNCHANGED <<queueVars, sessionVars, jobVars, requestVars>>

\* _generate_summary: the edited transcript, or the chunks it will come back to.
MutantLoadSums == sums' = 0 /\ artifact' = Dropped(Downstream)
LoadSums == UNCHANGED <<sums, artifact>>
LoadSummary(w) ==
  /\ wstep[w] = "load" /\ Kind(w) = "summary"
  /\ \/ /\ Prerequisites("summary")
        /\ wread' = [wread EXCEPT
             ![w].from = IF edit # 0 THEN edit ELSE base,
             ![w].chunks = IF edit # 0 THEN 0 ELSE base]
        /\ HorseGoes(w, "call")
        /\ LoadSums
     \/ /\ ~Prerequisites("summary")
        /\ HorseGoes(w, "raise")
        /\ UNCHANGED <<wread, sums, artifact>>
  /\ UNCHANGED <<queueVars, exists, mode, state, purged, currentJob, clock, base,
                 edit, who, jobVars, requestVars>>

\* The calls to the language model (and the settings they need) succeed, or end
\* the job by one of its errors or its timeout.
HorseCall(w) ==
  /\ wstep[w] = "call"
  /\ HorseGoes(w, "persist") \/ HorseGoes(w, "raise")
  /\ UNCHANGED <<queueVars, sessionVars, jobVars, requestVars, wread>>

Written(w) == IF Kind(w) = "povs" THEN wread[w].who ELSE {Kind(w)}

\* upsert: content and provenance of a generation.
MutantGenerated(w) ==
  [k \in Kinds |-> IF k \in Written(w) THEN [from |-> wread[w].from, edited |-> FALSE]
                   ELSE artifact[k]]
Generated(w) ==
  [k \in Kinds |->
     IF k \in Written(w) THEN [from |-> wread[w].from, edited |-> FALSE]
     ELSE IF Kind(w) = "summary" THEN NoArtifact
     ELSE artifact[k]]

Stores(w) == exists  \* foreign key of jdr_artifacts

\* The summary resets the chunk summaries and writes those of the chunks it has
\* read, if they are still there, and drops what was derived from the old ones.
HorsePersist(w) ==
  /\ wstep[w] = "persist"
  /\ \/ /\ Stores(w)
        /\ artifact' = Generated(w)
        /\ IF Kind(w) = "summary" /\ wread[w].chunks # 0 /\ wread[w].chunks = base
           THEN clock' = clock + 1 /\ sums' = clock + 1
           ELSE /\ UNCHANGED clock
                /\ sums' = IF Kind(w) = "summary" THEN 0 ELSE sums
        /\ HorseGoes(w, "finish")
     \/ /\ ~Stores(w)
        /\ HorseGoes(w, "raise")
        /\ UNCHANGED <<artifact, clock, sums>>
  /\ UNCHANGED <<queueVars, exists, mode, state, purged, currentJob, base, edit,
                 who, jobVars, requestVars, wread>>

\* The transcription of a restarted session, in two steps (see Transcription).
TranscriptionClaim(w) ==
  /\ wstep[w] = "load" /\ Kind(w) = "transcription"
  /\ \/ /\ exists /\ ~purged
        /\ state' = "transcribing"
        /\ HorseGoes(w, "transcribe")
     \/ /\ ~exists \/ purged
        /\ HorseGoes(w, "raise")
        /\ UNCHANGED state
  /\ UNCHANGED <<queueVars, exists, mode, purged, currentJob, sourceVars, artifact,
                 jobVars, requestVars, wread>>

TranscriptionEnds(w) ==
  /\ wstep[w] = "transcribe"
  /\ \/ /\ exists
        /\ mode = "non_diarised" => base = 0
        /\ clock' = clock + 1 /\ base' = clock + 1
        /\ state' = "transcribed"
        /\ HorseGoes(w, "finish")
     \/ /\ state' \in IF exists THEN {"transcription_failed", "audio_uploaded", state}
                      ELSE {state}
        /\ HorseGoes(w, "raise")
        /\ UNCHANGED <<clock, base>>
  /\ UNCHANGED <<queueVars, exists, mode, purged, currentJob, sums, edit, who,
                 artifact, jobVars, requestVars, wread>>

HorseRaise(w) ==
  /\ wstep[w] = "raise"
  /\ JobRaises(w)
  /\ HorseEnds(w)
  /\ UNCHANGED <<sessionVars, jobVars, requestVars>>

HorseFinish(w) ==
  /\ wstep[w] = "finish"
  /\ Complete(w)
  /\ HorseEnds(w)
  /\ UNCHANGED <<sessionVars, jobVars, requestVars>>

HorseKilled(w) ==
  /\ wstep[w] # "idle"
  /\ \/ "worker_death" \in Faults /\ JobRaises(w)
     \/ WorkerDies(w)
     \/ StopDelivered(w)
  /\ HorseEnds(w)
  /\ UNCHANGED <<sessionVars, jobVars, requestVars>>

----------------------------------------------------------------------------
RequestContinues(r) ==
  \/ PostEnqueue(r) \/ PostCommit(r) \/ EditCommit(r) \/ TranscriptEditCommit(r)
  \/ MappingCommit(r) \/ PurgeCommit(r) \/ RestartCommit(r) \/ DeleteCommit(r)

Request(r) ==
  \/ PostCheck(r) \/ EditCheck(r) \/ TranscriptEditCheck(r) \/ MappingCheck(r)
  \/ PurgeCheck(r) \/ RestartCheck(r) \/ DeleteAbort(r)
  \/ RequestContinues(r) \/ ApiCrash(r)

Horse(w) ==
  \/ HorseStart(w) \/ LoadText(w) \/ LoadCharacters(w) \/ LoadCharactersSource(w)
  \/ LoadSummary(w) \/ HorseCall(w) \/ HorsePersist(w)
  \/ TranscriptionClaim(w) \/ TranscriptionEnds(w)
  \/ HorseRaise(w) \/ HorseFinish(w) \/ HorseKilled(w)

Redis(j) ==
  /\ Reap(j) \/ Requeue(j) \/ JobLost(j)
  /\ UNCHANGED <<sessionVars, jobVars, requestVars, horseVars>>

Next ==
  \/ \E r \in Requests : Request(r)
  \/ \E w \in Workers : Horse(w)
  \/ \E j \in JobIds : Redis(j)

Spec == Init /\ [][Next]_vars

\* Requests that have begun go on, workers run, RQ maintains its registries.  No
\* scheduler is obliged to put a retry back.
Fairness ==
  /\ \A r \in Requests : WF_vars(RequestContinues(r))
  /\ \A w \in Workers : WF_vars(Horse(w))
  /\ \A j \in JobIds : WF_vars(Reap(j) /\ UNCHANGED <<sessionVars, jobVars,
                                             requestVars, horseVars>>)

FairSpec == Spec /\ Fairness

----------------------------------------------------------------------------
(* The inductive invariant of a deployment with one worker.                *)

OneWorker == \A u, v \in Workers : u = v

\* A horse that is not idle runs a job that was enqueued, of the kind its step
\* belongs to.
HorsesKnowTheirJob ==
  \A w \in Workers :
    /\ wstep[w] # "idle" => running[w] \in JobIds /\ rq[running[w]] # "none"
    /\ wstep[w] \in {"source", "call", "persist"} => Kind(w) \in ArtifactJobKinds
    /\ wstep[w] = "source" => Kind(w) = "povs"

\* Versions are handed out by the clock; a deleted session is bare.
VersionsKnown ==
  /\ base <= clock /\ sums <= clock /\ edit <= clock
  /\ \A k \in Kinds : artifact[k].from <= clock
  /\ ~exists => artifact = [k \in Kinds |-> NoArtifact]

Holding(w) == wstep[w] \in {"call", "persist"}

\* The source that a generation of k starting now reads.
CurrentFor(k) ==
  IF edit # 0 THEN edit
  ELSE IF mode = "diarised" \/ k = "summary" THEN base ELSE sums

\* Nothing stored, and nothing about to be, is newer than the current source.
CurrentIsNewest ==
  \A k \in Kinds : CurrentFor(k) # 0 =>
    /\ artifact[k].from <= CurrentFor(k)
    /\ \A w \in Workers : Holding(w) /\ k \in Written(w) => wread[w].from <= CurrentFor(k)

\* A horse holds a version at least as recent as what it will replace.
ReadsAreNewest ==
  \A w \in Workers : Holding(w) =>
    /\ wread[w].from \in 1 .. clock
    /\ \A k \in Written(w) : artifact[k].from <= wread[w].from

\* The strengthening behind RefinesDerived: it fails as soon as a source, once
\* current, can be followed by an older one.
SourcesInv ==
  /\ HorsesKnowTheirJob
  /\ VersionsKnown
  /\ CurrentIsNewest
  /\ ReadsAreNewest

----------------------------------------------------------------------------
(* Properties of every configuration with one worker.                      *)

Derived == INSTANCE DerivedContent WITH
  Names <- Kinds,
  alive <- exists,
  latest <- clock,
  content <- artifact

\* Whatever the interleaving, artifacts change by the steps of DerivedContent
\* only: a generation never replaces an artifact by one from an older source, an
\* edit never creates one, a deleted session has none and gets none.
RefinesDerived == Derived!Spec

\* With one worker a summary leaves nothing derived from what preceded it: every
\* other artifact of a session with a summary has a source as recent as its own.
DerivedFollowsSummary ==
  Has("summary") => \A k \in Downstream : Has(k) => artifact[k].from >= artifact["summary"].from

\* A generation the endpoint accepts finds its source: the endpoint looks for a
\* summary, the job for the chunk summaries, and a regeneration that failed or is
\* under way has destroyed neither.  (Summaries stored after a restart excepted.)
AcceptedDerivationHasSource ==
  Prerequisites("narrative") /\ artifact["summary"].from >= base => Source # 0

----------------------------------------------------------------------------
(* Properties of one API request at a time, without faults or scheduler.   *)

\* A manual edit is replaced or dropped by a job only if its request forced it,
\* although the guard ran when the job was enqueued, any time before.
EditsSurviveUnforcedJobs ==
  [][\A w \in Workers, k \in Kinds :
       wstep[w] = "persist" /\ wstep'[w] = "finish" /\ artifact[k].edited
         => jforce[running[w]] \/ artifact'[k] = artifact[k]]_vars

\* What a generation reads belongs to the transcription that is published, never
\* to an earlier one, although edits, summaries and restarts write their columns
\* in transactions of their own.
SourceIsOfThisTranscription == state = "transcribed" /\ Source # 0 => Source >= base

----------------------------------------------------------------------------
(* Liveness, whether or not a scheduler runs.                              *)

\* Editing is not refused for ever because of one generation, but for one that
\* waits for a retry that no worker starts.
GenerationEndsOrIsReplaced ==
  \A j \in JobIds :
    currentJob = j /\ GenerationBusy ~>
      ~(currentJob = j /\ GenerationBusy) \/ ForgottenRetry(j)

=============================================================================
