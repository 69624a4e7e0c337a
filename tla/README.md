# A TLA+ model of AI-Kaeyris

AI-Kaeyris is a modular monolith (FastAPI, PostgreSQL, Redis/RQ, one worker
process) whose main service, *JDR*, takes the audio of a role-playing session,
transcribes it, and generates artifacts from the transcript. This directory
models the parts of it where several processes share state.

## 1. Inventory

| Part | State | Operations | What is hard |
|---|---|---|---|
| Audio and transcription pipeline (`services/jdr/logic.py`, `batch/router.py`, `jobs/jdr.py`, `audio.py`) | session row (`state`, `current_job_id`), audio row (`path`, `sha256`, `purged_at`), job rows, transcript or chunk rows, `raw.m4a`, `audios/<id>.m4a` | upload, purge, restart, recover, delete; the job: load, prepare, relink, build adapter, call, persist | API and worker interleave, files and rows change in different steps, jobs are published before the commit, horses are killed, jobs retried |
| Job queue (RQ, external) | status and retries of each job, job in each horse | enqueue, dequeue, success, failure and retry, stop, cancel, reap, requeue | retries need a scheduler, a dead horse is noticed late, Redis may lose a second |
| Artifacts (`jobs/jdr.py`, `router.py`) | artifact rows, edited flag, chunk summaries, edited transcript, mapping | generate narrative, elements, points of view, summary; edit; invalidate | generated from a source read before a long LLM call, stored whatever happened since |
| Job projection (`router.py`) | none of its own: RQ status and progress, `jdr_jobs` | list, get, server-sent events | two sources of truth |
| Accounts (`core/users.py`, `core/auth.py`, `auth_router.py`) | users, web sessions, registry of API keys, setup lock | setup, login, logout, create, update, delete, password reset; import of `API_KEYS` at startup | last administrator, setup once, sessions of an account that is deactivated meanwhile |
| Rate limit (`core/rate_limit.py`) | one Redis sorted set per client | check and record | count, then insert; rounding of Retry-After |
| Campaigns, characters, players (`logic.py`, `campaign_context.py`, `session_access.py`) | campaigns, memberships, default campaign, PJs, who played, player keys | create, rename, delete, enrol, revoke, map, read as a player | names checked and stored apart, deletion guards, what a player key reaches |
| Model settings and local validation (`auth_router.py`, `local_model_validation.py`, `adapters/local_models.py`) | settings per administrator, validation records | validate, PATCH, build an adapter, show | a row read before network probes and written after, proofs that expire, files that change |
| Pure algorithms (`text_chunker.py`, `elements.py`, `markdown.py`, segments, Range header) | none | chunk, parse, stitch, merge, flatten | boundaries |
| Adapters, prompts, schemas, logging, metrics, health, config, live prototype | none of the domain | | I/O and wording |

The API handlers run in one request transaction that `core/db.py` commits at the
end or rolls back on an exception; they call Redis and the file system in the
middle of it. The worker runs each job in a forked *work horse*, which opens
several transactions of its own, with long file and network operations in
between. They interact through the rows, the two files and the queue, and no
lock but the row locks of PostgreSQL.

## 2. Modules

| Module | Models |
|---|---|
| `JobQueue` | RQ as the application uses it (external), `enqueue_job`, `_abort_active_session_job`, `_ACTIVE_RQ_JOB_STATUSES` |
| `Transcription` | the pipeline of one session: five requests and the job, step by step |
| `SessionLifecycle` | the abstract specification: what a client sees of a session |
| `JobProjection` | what `GET /jobs` and the event stream say of a job, over `Transcription` |
| `Artifacts` | the artifacts of one session: triggering, editing, invalidating them, the four generating jobs |
| `DerivedContent` | the abstract specification: contents derived from versions of a source |
| `Accounts` | users, web sessions, the registry of keys, restarts of the API |
| `RateLimit` | the sliding window of one client |
| `Campaigns` | campaigns, members, characters, sessions as their owners and players reach them |
| `ModelSettings` | validation records, PATCH of the settings, what a job uses and what is shown |
| `TextChunker`, `AudioRange`, `Segments`, `Elements` | the pure algorithms, as operators |
| `Algorithms` | their inputs, and what their results must be |
| `MC*` | values and symmetry for TLC |
| `JobQueueProofs`, `TranscriptionProofs`, `ArtifactsProofs`, `AccountsProofs`, `CampaignsProofs`, `ModelSettingsProofs`, `RateLimitProofs`, `AlgorithmsProofs` | the proofs |

`Transcription` and `Artifacts` both extend `JobQueue`. Each details what the
other takes coarsely: `Transcription` has the files and the steps of the
pipeline and no artifact, `Artifacts` a transcription of two steps.
`JobProjection` extends `Transcription`. The others share no mutable state with
these two but rows that are taken as given: the account behind a
request, the campaign of a session, and the settings a job reads (the fault
`misconfigured`).

### Transcription

One session is modelled: the rows and files of two sessions are disjoint, and
another session only delays a worker (`Dequeue` picks any queued job).

*State.* `exists`, `mode`, `state`, `currentJob` are the `jdr_sessions` row,
`audio` the `jdr_audio_sources` row, `jobRow` the `jdr_jobs` rows, `transcript`
the job that wrote the transcription row or the chunks. `raw` and `prepared` are
the contents of the two files: a request (standing for the bytes it uploads),
`Partial`, or `NoFile`. `handles` holds the uploads whose open file is still the
one linked at the raw path: after an `rmtree` they write to an unlinked file.
`rstep`/`rjob` say where each API request is, `wstep`/`wpath`/`wsrc` where each
horse is and what it read.

*Actions.* A handler is split where another process can see it: the read its
guard decides on, each change of a file, each publication to Redis, each commit.
`UploadBegin`, `UploadWrite`, `UploadInsert`, `UploadCommit` are
`store_audio_source_for_session` and the commit of `get_db_session`; the insert
step publishes the job while the rows are uncommitted. `Locked` requests have
updated the session row in an open transaction, and other writers of that row
wait for them (`RowLocked`); where a transaction reads rows and then waits for
the lock and something depends on it, read and write are two steps (`HorseLoad`,
`HorseClaim`). `HorsePersist` writes its output whatever the session has become,
and raises when a constraint refuses it.

*Abstractions.* The audio is assumed to contain speech, so a transcription leaves
at least one chunk. The work directory of chunked transcription belongs to the
adapter call. `HorseFail` reads the current job and writes in one step. What purge and restart do
to artifacts is in `Artifacts`. `canceled` and `stopped` jobs are final.

### SessionLifecycle

Phase, whether an upload was accepted, and whether a transcript is published
change by `Accept`, `Attempt`, `Publish`, `SetBack`, `Withdraw`, `Delete` only.
Under the mapping of `Transcription!Lifecycle`, this says that publishing is
atomic with the change of phase, that
nothing happens to a session nobody uploaded to, and that deletion is final.

### Artifacts

*State.* Texts are abstracted to versions. `clock` is the last version given
out; `base` is that of the transcription or chunk rows, `sums` that of the chunks'
`summary_text`, `edit` that of `edited_transcript_md`; 0 is null. `artifact[k]` is the row
of kind `k`: the version it was generated from and its edited flag (a character
stands for the kind `pov:<id>`). `who` is the mapping, or the player list of a
non-diarised session. `rstep`, `rkind`, `rforce`, `rjob` say where an API
request is, `wstep` and `wread` where a horse is and what it has read. `jkind` is
the job's function; `jforce` remembers the `force` of its request, which the code
does not, for `EditsSurviveUnforcedJobs` only.

*Actions.* `PostCheck`, `PostEnqueue`, `PostCommit` are the four `POST .../artifacts`
endpoints: guards, publication, commit. Each edit, mapping, transcript edit,
purge, restart and deletion is a guard and a commit (the deletion publishes its abort with
the guard). A horse reads its source in one transaction (`LoadText`,
`LoadSummary`; the points of view take two, `LoadCharacters` and
`LoadCharactersSource`), talks to the model (`HorseCall`), and stores in another
(`HorsePersist`), where a summary also replaces the chunk summaries and drops
what is derived. `Source` is `_load_session_source_document`: the edited transcript
first, then the transcript, or the chunk summaries of a non-diarised session.

*Abstractions.* A behaviour begins with a transcribed session. A restart
enqueues and commits in one step. Job identifiers are used in order and the queue
is first in, first out, retries excepted (`NextQueued`): without this order an
earlier job could run after a later one, which Redis lists exclude. An artifact
that cannot be stored because the session is gone fails the job (foreign key).

### DerivedContent

`Change`, `Generate`, `Edit`, `Drop`, `Delete`. `Generate` says what a reader
would expect of a cache of derived texts: it never replaces a content by one from
an older version, and writes all its names from one version. The jobs do not
compare versions when they store: that this holds all the same is a property of
the order in which one worker runs them and of what invalidation leaves.

### JobProjection

No state of its own: `Public` maps RQ statuses, `Frame` is what a stream sends
next, `LastFrame` says that it then closes. A scheduled retry is shown as queued. The
progress (phase, percentage) in the same frames is decoration and left out.

### Accounts

*State.* `account` holds the rows of `core_users` (`"none"` before creation; a
deletion is a status), `keys` the registry (`jdr_api_keys`: environment
entries and the internal key of each web user), `session` the web sessions,
`req` the requests in progress, `now` a clock for the expiry of sessions.

*Actions.* A request is one transaction at READ COMMITTED: `SetupCheck`,
`LoginCheck`, `AdminBegin` are what it reads before its first write,
`CreateRead` and `UpdateRead` what it reads next, under the lock of its session's row,
and the `...Commit` actions its commit, whose columns are those SQLAlchemy finds
changed (`Dirty`). The setup lock is released before the commit, so it keeps out
only a second setup of the same name. `Restart` loses the requests in progress
and imports `API_KEYS` into an empty registry. `Abort` is any end without effect.

*Abstractions.* A password and its hash are one value; cookies are session
tokens. `late` and `seen` are history: whether the account had been deactivated
when the session was stored, and the administrators at the time of the count.

### RateLimit

One Redis sorted set, `hits`, whose members are a score (`at`) and a token; the
key's expiry; each request between its clock reading, its count (`Count`) and its
record (`Record`) or refusal (`Refuse`). `admitted` (history) keeps every member
ever added. Time is in ticks, some of them to a second, so that the rounding of
Retry-After is in the model. A request that dies leaves (`Leave`).

### Campaigns

*State.* Users with a role, campaigns numbered in the order of creation, the
membership of each user in each campaign, the default campaign, characters,
sessions with their owner, campaign and players, player keys, and the requests
between check and commit (setup, creation of a user, creation, renaming and
deletion of a campaign). `after` stands for `joined_at`: the campaigns the user
was a member of when he joined this one.

*Actions.* Two steps where a concurrent request can invalidate the check; one
where what is checked never changes while the row exists. The foreign keys
(CASCADE, SET NULL, RESTRICT) are guards and effects of the deletion. `Served`
is what a player key obtains.

*Abstractions.* A mapping or player list is the set of its characters. Sessions
of before campaigns existed (null campaign), the character of a
membership and the user of a character are left out, and so are
`adopt_existing_users_into_default_campaign` and two
`ensure...` helpers that nothing calls. The role of a user does
not change here, and no user is deleted: see `Accounts`.

### ModelSettings

*State.* The validation
records, the settings row of each administrator (a function from its columns to
their values), the PATCHes in progress with the row each has read, and
which triples of category, key and model the provider was asked about
(`probed`, history).

*Actions.* `Validate`, `Expire`; a PATCH reads the row and decides
which proofs and probes it needs (`PatchBegin`), asks the provider
(`ProbeAnswered`, which includes an answer that decides nothing), and writes the
columns that differ from those it has read (`PatchCommit`). `Used` is the
adapter a job builds, `Shown` what the settings page says, for
each environment the operator may have set.

*Paths.* A path in a row or a PATCH is the spelling a client sent. `Normal` is
`normalize_model_path`: the place a spelling stands for, to which a record is bound.
`Opens` is where a runtime looks when a job gives it the spelling of the row: the same
place, or none (`NoPlace`) for a spelling with blanks around it or a `~` at its head,
which only the validation understands. A relative path stands for the same place in the
API and in the worker, whose working directories are assumed equal.

*Abstractions.* A validation id and its hash are one value; empty strings, which every reader takes
for null, and blank ones are left out; one step answers all probes of a PATCH. What becomes of a
model file after its validation is the operator's affair: no code looks at it again before a job
loads it.

### The algorithms

`TextChunker` keeps of a character its role (space, newline, end of a sentence,
letter); `AudioRange` parses a header and streams blocks of a file that may have
shrunk; `Segments` stitches parts of the audio and merges segments into
paragraphs; `Elements` parses a reply, flattens buckets to rows, reads rows and
the older buckets, and groups them. `Algorithms` runs one on each input, and states
its result without the algorithm.

## 3. Runs

| Run | Instance | Shows |
|---|---|---|
| `transcription_full` | 2 requests, 2 jobs, 1 worker, no retry, all faults but the loss of a job, diarised | `TypeOK`, `LifecycleInv`, `HashMatchesPreparedFile`, and that `SessionLifecycle` is implemented |
| `transcription_serial` | 1 request at a time, 3 jobs, 1 retry, no scheduler, no API crash | seven guarantees between one client and the worker |
| `transcription_retry` | 1 request at a time, 2 jobs, 1 retry, retries taken up or not, lost jobs, fair | event streams end for good and transcribing ends or can be recovered, but for a retry that is never taken up |
| `artifacts_full` | 2 requests, 2 jobs, 1 worker, non-diarised, no fault | `TypeOK`, `DerivedFollowsSummary`, `AcceptedDerivationHasSource`, and that `DerivedContent` is implemented |
| `artifacts_faults` | 1 request at a time, 2 jobs, both modes, crashes of the API and of workers, lost jobs | the inductive invariant `SourcesInv`, from which the refinement is proved |
| `artifacts_serial` | 1 request at a time, 3 jobs, both modes, forced or not, no fault | no unforced overwrite, no source of an earlier transcription |
| `artifacts_retry` | 1 request at a time, 2 jobs, 1 retry, retries taken up or not, dying workers, fair | a generation does not block edits for ever, but for a retry that is never taken up |
| `accounts` | 2 users, 2 sessions, 2 requests, 1 environment key, restarts | late imports, the last administrator, refused sessions, lost updates |
| `ratelimit` | 2 requests, limit 2, window of 2 s of 2 ticks, 8 ticks | how many are admitted in any window; Retry-After suffices |
| `campaigns` | 2 web users, 1 bearer key, 2 campaigns, 2 names, 1 session, 1 character, 1 player key, 2 requests | nothing outlives its campaign, owners keep their sessions, players stay with their GM, duplicate names only by a race |
| `settings` | 1 administrator, 2 requests, 2 places, 3 spellings, 2 validations, four PATCH bodies | what may be chosen, used, shown and lost |
| `algorithms` | texts of up to 7 characters and maximum 1 to 4, numbers up to 3, up to 2 parts of an audio or segments, 2 names and 1 category | the results of the algorithms on every such input |

*Bounds.* `JobIds` bounds the jobs ever enqueued: two are an upload and a
restart, three allow two restarts. Two requests race on each handler. In the
full run a job has no retry: without a scheduler a scheduled job never runs
again, so a retry differs from a failure only in that recovery is refused, which
removes behaviour. Diarised mode is the larger one there: it may overwrite a
transcript, where the other raises, which a killed horse does as well; the other
runs have both modes. The two safety runs use symmetry on jobs and requests:
no action compares or orders them.

In the artifact runs one text and one character stand for their kind: texts are
handled alike, and a points-of-view job treats its characters alike. Three jobs
are a summary, a derivation and a job after them. `MaxVersion = 2` lets an edit of the
transcript begin before anything else has changed a source, and with two
requests a second one next to it; they commit before or after a job has read or
stored, and summaries and transcriptions raise the clock further. The full run has the mode with
a summary and chunk summaries, which the diarised mode lacks. It uses `Forces = {TRUE}`: a
forced request may do all that an unforced one may, and the flag matters to
`artifacts_serial` only, which has both. The faults are in a run of their
own because of its size. Each run's instance is large enough for the mutants
listed with it to be caught. `artifacts_serial` has no fault: after a lost
current job, or with a job its request never recorded, the guard of manual edits
lets an edit in before an earlier job has run.

In `accounts`, two users are the administrator who changes and the one who is changed;
two administrators who disable each other are the race of
`LastAdminLostOnlyToARace`. Each change has one column, so that a lost update is
a change of another column. The time to live and the clock (1) are enough for a session
to expire while a request is under way. In `ratelimit`, two windows pass and the limit
is met by requests that overlap; `MaxDelay` is an
*assumption* on the environment: nothing in the code bounds the time between a
request's clock reading and its record, and the bound of `AdmittedInAnyWindow` shrinks
with it. Two campaigns let a deletion, a renaming and the choice
of a default matter; one session and one character suffice, because the
properties concern one of each, and two owners contend for them. The
PATCHes of `settings` make the provider local, change the path, change provider and cloud model
together, and reset the provider while they store a key and a path with blanks around it. Two
validations let the record of a row be replaced by one of another place, and be mistaken
for one of the other category. In
`algorithms` a text of 7 with a maximum of 1 to 4 has up to seven chunks and every
kind of boundary on each side of the maximum; three numbers put a range's ends on each
side of the file's.

The type invariants of `Accounts`, `RateLimit`, `Campaigns` and `ModelSettings` are
proved; the listed runs check the other properties.

*Guarantees of the serial run* hold without a scheduler (the deployment) and
without an API crash between enqueue and commit; TLC refutes most of them with
either, since a scheduled or orphaned job then runs next to a new one.
`RecoveryRacesNoHorse` and `HorseOwnsTheSession` except a purged audio: a purge
may commit between a horse's read of the audio row and its claim of the session.

*Fairness* (`FairSpec`): a request that has begun goes on, a worker process runs
its horse and the queue, and the maintenance a worker runs itself (`Reap`) acts. No fault and no
new request is ever obliged to occur, and neither is `Requeue`: the deployed workers
(`docker-compose.yml:152`, `docker-compose.prod.yml:120`) run `rq worker` without
`--with-scheduler`. The retry runs have `WithScheduler = TRUE`, so that a scheduler *may* act, and
owe nothing to it: the behaviours in which it never does are those of the deployment. What is lost
there is named in each liveness property (`ForgottenRetry`, or its counterpart for the current
job): a job of which a retry stays scheduled for ever.

*Limits of the guarantees*, which variants of the runs show and no listed run does.

- Pipeline. A job that raised has up to three retries (`docs/adr/0004-async-jobs-and-rate-limiting.md:79`,
  the docstring of `enqueue_job`), at intervals; RQ schedules them, and in the deployment nobody
  takes them up. So a transient error is not retried, the job shows as queued and the stream of its
  events never ends, a session whose job timed out stays transcribing and cannot be recovered
  (a scheduled job counts as alive), and a failed generation blocks edits until another is
  requested: the exceptions that `StreamsEndForGood`, `TranscribingEndsOrIsRecoverable` and
  `GenerationEndsOrIsReplaced` name. A permanent error that the builder of the adapter
  raises leaves the session transcribing. A purged session accepts no new upload, since the
  audio row remains (`logic.py:772`). A failed reduction deletes the only copy of the
  audio, although `specs/008-current-job-audio-stream/spec.md:83` wants it kept.
- Files. A purge or a deletion that races a horse leaves its prepared file on disk; a concurrent upload
  overwrites the raw file whose checksum the first one recorded (hence
  `HashMatchesPreparedFile`, which says no more than the prepared file).
- Artifacts. Two concurrent requests, a generation and an edit that
  pass their guards before either commits, lose the edit (`EditsSurviveUnforcedJobs`
  with two requests); a job under way stores an artifact of the previous transcription after a
  restart, or of a purged session, or a point of view of a character no longer mapped.
- Accounts. Two setups with different names may both succeed
  (`specs/003-user-password-auth/data-model.md:103` wants the emptiness
  checked again to prevent that; the lock of `users.py:173` does not cover the commit).
  The last administrator can be lost to two overlapping requests (against FR-011
  of the same specification), and then for good. A deleted account
  can be made active again by an update.
- Settings. A record is bound to the normalised path, but the row keeps the path as it was sent
  (`auth_router.py:551-552`) and the job opens that: `~/m.gguf`, or a path with blanks around it,
  is validated and then not found by the job, although FR-013 of
  `specs/017-local-model-validation/spec.md` wants the validated settings used.
  Two PATCHes that overlap on the provider, the path or the record of one category can make an
  unvalidated path the one that is used (a path changed while the provider is not yet local needs no
  record), against FR-009 of the same specification. Overlaps on the key and a cloud model store a
  pair that was not probed, and so does an explicit null model sent with a new key. No other
  overlap does either. The page differs from what jobs use
  in the four cases `ShownIsUsed` lists.
- Campaigns. Two requests can give two campaigns of one owner the same name.
- Chunker. A single newline or a tab is no boundary, although the docstring says
  "whitespace".
- Elements. The export has a section for each category that has elements, and none otherwise
  (one placeholder when there is no element at all): `ElementsAreKept` states that. The docstring of
  `render_elements_md` (`markdown.py:177-178`) still says that empty lists are printed "rather than being omitted, so
  the document always has four h2 sections"; it dates from before categories were free-form.

## 4. Proofs

Every theorem is for any value of the constants that the named assumptions of
its modules admit, and for behaviours of any length. The sets of jobs, requests,
users, keys and so on may be infinite; `RateLimit` counts requests and assumes
them finite.

### Transcription

`TranscriptionProofs` proves, from `QueueAssumption` and
`TranscriptionAssumption`, with or without a scheduler and under any faults:

1. `TypeCorrect`: `Spec => []TypeOK`;
2. `LifecycleHolds`: `Spec => []LifecycleInv`;
3. `Refinement`: `Spec => Lifecycle!Spec`;
4. `AudioHolds`, `ChecksumsMatch`: with one worker, `Spec => []AudioInv`, hence
   `[]HashMatchesPreparedFile`;

and under `Serial` (one worker, one request at a time, no scheduler, no
`"api_crash"`; any jobs, retries, modes and other faults):

5. `SerialHolds`: `Spec => []SerialInv`, and from it the seven properties of the
   run `transcription_serial`.

*Refinement.* The abstract steps have guards (`Live`, accepted, phase created)
that the concrete steps do not test when they write. `LifecycleInv` says why they
hold all the same: whoever writes has read an audio row before
(`ActorsFollowAnUpload`), an audio row disappears with the session only
(`UntouchedBeforeUpload`), and the two requests that publish a job hold the row
lock until they commit, so what they read is still so (`LocksHold`).
`TranscribedIsPublished` is carried along: publication and withdrawal each change
state and transcript in one commit.

*Audio.* The checksum is computed when `ffmpeg` ends, and committed with the path
in a transaction of its own. Nothing else may write the prepared file in between
(`HashesKept`), which takes one worker, and the path a horse acts on must still be
the row's (`PathsKept`).

*Serial.* The seven properties need each other, and what each actor knows between
its steps. The heart is `RunsAreCurrent`: a run that is queued or under way is
the one of `currentJob`, or of a request that has published it and not committed,
or follows a purge or a deletion. An enqueue keeps it because the state it has
checked implies that nothing runs (`RestartsKnow`): a session is `transcribed` or
failed only when its run is over. That is why a horse must own the session
(`HorseOwnsTheSession`), a recovery must find its job dead at the commit too
(`RecoveriesKnow`; no scheduler can revive it), and a horse that loaded its
rows before a purge must not write over it: the purge removes files before rows,
so such a horse finds no file (`PurgesKnow`, `PurgedIsQuiet`).
`FailuresAreFinal` and `CurrentJobRan` relate rows to RQ, and
`PersistsPlayable` says that what is transcribed is still on disk.

### Artifacts

`ArtifactsProofs` proves, with or without scheduler and under any faults, from
`QueueAssumption` and `ArtifactsAssumption`:

1. `TypeCorrect`: `Spec => []TypeOK`, for any number of workers;
2. `SourcesHold`: with one worker, `Spec => []SourcesInv`;
3. `DerivedRefinement`: with one worker, `Spec => Derived!Spec`;
4. `DerivationHolds`: with one worker, `Spec => []DerivationInv`, hence
   `SummaryComesFirst` (`DerivedFollowsSummary`) and `AcceptedFindsSource`
   (`AcceptedDerivationHasSource`);

and, with one worker, one request at a time and no scheduler:

5. `PublishedHolds`, `SourcesAreOfTheirTranscription`: `[]PublishedInv`, hence
   `SourceIsOfThisTranscription`, under any faults;
6. `EditsHold`, `EditsSurvive`: `[]EditsInv`, hence `EditsSurviveUnforcedJobs`, when
   nothing is lost (`NothingLost`: neither `"api_crash"` nor `"job_lost"`).

The hard step is `HorsePersist`: `Generate` requires that what is replaced is no
newer than what the horse has read, minutes ago. `ReadsAreNewest` says so, and is
inductive only with two more facts. First, what a horse reads is at least as new as
what is stored when it reads, and that is `CurrentIsNewest`: the source a
generation would read now is at least as new as everything stored or about to be.
It survives a change of source because a source is replaced by a newer one or
taken away, never by an older one (`NewVersion`, `OutputsGone`). Second, while a horse
holds its source nothing else stores: there is one worker (`PersistVersions`);
with two workers TLC refutes the refinement in seconds. `VersionsKnown` bounds versions by the clock, and
`HorsesKnowTheirJob` keeps a running job's kind fixed.

`DerivationInv` follows the order of derivation: chunk summaries are of the chunks
(`SumsFollowBase`), a summary has its chunk summaries unless the transcript was
edited (`SummaryHasSums`), and what a horse has read for a downstream artifact is no older than the
summary stored (`ReadFollowsSummary`): a new summary drops what is downstream, but
cannot drop what a horse holds.

The publication invariant is that one transcription at most is still to publish, and none
once the session is transcribed (`PendingOnce`); an edited transcript is then always of the
published one. For the edits, a job that was requested without `force` and is still to store
must find nothing to overwrite, hours after the check of its request. The invariant says
why, by the queue: identifiers are taken in order and run in order (`IdsInOrder`,
`FirstInFirstOut`), so that the current job is the last one of the queue; while it is
waiting or running, edits are refused; once it is over, nothing before it is
left.

### Accounts

`AccountsProofs` proves, for any sets of users, keys, tokens, requests and changes and
any time to live, from `AccountsAssumption`:

1. `TypeCorrect`: `Spec => []TypeOK`;
2. `AccountsHold`: `Spec => []AccountsInv`;
3. `NoLateImportHolds`, `NoLostUpdateHolds`, `RefusedStaysRefusedHolds`,
   `LockoutIsFinalHolds`, `LastAdminHolds`: the five properties of the run
   `accounts`.

The argument: each property is about one step, and says what the request that
takes it had read steps before. `AccountsInv` carries that along.
`UsersHaveKeys` makes the registry non-empty once an account exists, hence no
late import. `UpdatesAreAsked` says that a pending write holds only columns the request
names, of an account that still exists: rows are never removed (`AccountsStay`). `OthersWereSeen`
keeps the result of the count of administrators until the commit, where it is
compared with the administrators of that moment. `SessionsAreOfActiveUsers` is why a
refusal is final: an account that leaves the status active takes its sessions with
it, in the same transaction, so that a reactivation finds none alive; the
exception, a sign-in that commits afterwards, is `late`.

### RateLimit

`RateLimitProofs` proves, from `RateLimitAssumption`, `TypeCorrect`, `InvHolds`,
`WindowIsLimited` (`AdmittedInAnyWindow`) and `WaitingFreesAPlace`
(`RetryAfterFreesAPlace`). Counting and recording are two transactions, so the bound
is the limit and one more for each other request. The invariant counts ahead
(`Budget`): in any window, those admitted and those that have counted and not yet
recorded are within the bound. It is inductive because a member leaves the set only
after it has left the window of every request still under way (`LeftWhenOld`,
`ClocksAreBehind`), hence a count never misses one that matters. The second property
is arithmetic of the rounding: the first member leaves within the time announced.

### Campaigns

`CampaignsProofs` proves, from `CampaignsAssumption`, `TypeCorrect`, `InvHolds`, and
the four properties of the run `campaigns`. The guards of the deletion and the foreign keys
make `NothingOutlivesItsCampaign` inductive by itself. The other two invariants need
`MembersHaveAccounts`, `OwnersAreGms` (who created a session stays a GM of its campaign)
and `ListedMayPlay` (a character listed in a session may play in it), which mapping,
enrolment and the renewal of keys keep (`MembersHaveAccounts`: nobody is a member before his account exists). `SeenNamesDiffer` keeps the outcome of the check of a name until the commit.

### ModelSettings

`ModelSettingsProofs` proves, from `SettingsAssumption`, `TypeCorrect`, `InvHolds`, and the
three properties of the run `settings`. A PATCH writes what it has decided from a row it read
before its probes, so the invariant keeps, for each request in progress, what the row it
saw demanded: `NeededProofsAreBacked` (a record for the place that its path stands for) and
`NeededProbesAreMade`; `ProofsHavePaths` holds because no column but a provider is ever cleared.
`TriedBeforeChosen` follows column by column: on a column that nobody else has changed,
a commit writes what the request asked for over what it has seen (`FreshColumn`), so an overlap on
other columns is harmless (`FreshCommitOfLocal`). `ShownIsUsed` has no
induction: it is a case analysis over all rows and environments.

### Algorithms

`AlgorithmsProofs` proves, from `AlgorithmsAssumption`, for inputs of any size (any
`MaxText`, `MaxNumber` and `MaxPieces`, any `Speakers`, `Names` and `Categories`): `RangesAreServed`
(`RangeServesWhatWasAsked`), `SegmentsKept` (`SegmentsKeepTheirPlace`), `ElementsKept`
(`ElementsAreKept`) and `TextKept` (`TextIsChunked`).

The algorithms are loops, in the model folds and recursive functions. What they compute for
every input is an induction over the input, and the induction theorems of the library
cannot be cited: they take the predicate as a parameter. `Induct` replaces them: a set of
numbers that has 0 and with each number its successor is `Nat`, since the least number that it
lacks, had it one, would contradict it. From it follow that a recursive function
exists (`Recursion`, `JumpsExist`) and how `FlattenSeq` and the fold of the grouping
unfold (`FlattenSeqDef`, `FlattenInduct`, and by `FoldExists` `GroupUnfolds` and
`FilingUnfolds`).

*Ranges.* The blocks that are streamed follow each other (`Contiguous`), so that they are
one range of the file; what the header asks is a case analysis (`RangeIsParsed`).
*Segments.* While parts are stitched, every segment lies in the stretch of its part, after those before
it (`InStretches`). While segments are merged, the paragraphs so far partition the segments read, and
the last one is still open (`Paragraphs`).
*Elements.* What is kept of a reply is kept as it is when it is read back
(`CardsReadBack`), and while rows are filed each category seen has one group, which holds
its rows in order (`Filing`).
*Chunks.* A turn of the loop takes a chunk and the blanks after it (`ChunkTaken`), and a
cut at a character that is not blank is one where `_find_cut_point` found nothing else
(`CutFound`). `ChunksFrom` says what the chunks of the rest of a text are; a chunk in front
keeps it so (`ChunkAdded`), since the number of characters printed before a place tells
the place (`BeforeTells`).

### Model-checked only

- Liveness: `StreamsEndForGood`, `TranscribingEndsOrIsRecoverable`,
  `GenerationEndsOrIsReplaced`. They rest on fairness, hence on ENABLED, which is out of
  the reach of the provers.
- `SerialInv`, `AudioInv` and the other inductive invariants were model-checked on
  the instances of the runs before they were proved; the proofs do not depend on that.

## 5. Not modelled

- The HTTP clients of the LLM and transcription adapters: their outcome is a
  nondeterministic choice of the worker's steps.
- The migrations: one-shot scripts. The constraints of the schema are in the
  actions that meet them.
- The live transcription prototype, which keeps no state; prompts, schemas,
  formatting, logging, metrics, tracing and health.

## 6. Plan

Every invariant and every action property the runs check is stated by a theorem. Left
are weaker hypotheses than `Serial`: which of its seven guarantees survive a second
request, a scheduler or an API crash.
