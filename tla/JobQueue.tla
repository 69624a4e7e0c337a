------------------------------ MODULE JobQueue ------------------------------
(***************************************************************************)
(* The Redis job queue (RQ 2.9) as the application uses it.  RQ itself is  *)
(* not part of the repository: this module is an external component,       *)
(* modelled from the way app/jobs/__init__.py enqueues jobs, from the      *)
(* statuses app/services/jdr/logic.py tests, and from the worker command   *)
(* of docker-compose.prod.yml.                                             *)
(*                                                                         *)
(* Jobs are executed by work horses, one per worker process.  Every job is *)
(* enqueued with Retry(max, interval), so a job that raises is parked in   *)
(* the scheduled registry while it has retries left; only a worker started *)
(* with a scheduler takes it out of there again.                           *)
(***************************************************************************)
EXTENDS Naturals, FiniteSets

CONSTANTS
  JobIds,         \* identifiers of jobs; bounds how many can be enqueued
  Workers,        \* the worker processes (one in the deployment)
  NoJob,          \* the null job reference
  MaxRetries,     \* DEFAULT_RETRY_MAX
  WithScheduler,  \* may a worker run RQ's scheduler? (none is deployed)
  Faults          \* the faults of the environment that may occur

AllFaults == {"api_crash", "worker_death", "job_lost", "timeout",
              "transient", "misconfigured"}

ASSUME QueueAssumption ==
  /\ NoJob \notin JobIds
  /\ MaxRetries \in Nat
  /\ WithScheduler \in BOOLEAN
  /\ Faults \subseteq AllFaults

VARIABLES
  rq,        \* status of each job in Redis ("none": not enqueued yet)
  retries,   \* retries each job has left
  running,   \* the job in the work horse of each worker, or NoJob
  stopping   \* jobs a stop command has been published for

queueVars == <<rq, retries, running, stopping>>

RqStatus == {"none", "queued", "started", "scheduled",
             "finished", "failed", "stopped", "canceled", "gone"}

\* The statuses under which the API considers a job alive.
MutantActiveStatuses == {"queued", "deferred", "scheduled", "started", "failed"}
ActiveStatuses == {"queued", "deferred", "scheduled", "started"}

Active(j) == j # NoJob /\ rq[j] \in ActiveStatuses

QueueTypeOK ==
  /\ rq \in [JobIds -> RqStatus]
  /\ retries \in [JobIds -> 0 .. MaxRetries]
  /\ running \in [Workers -> JobIds \cup {NoJob}]
  /\ stopping \subseteq JobIds

QueueInit ==
  /\ rq = [j \in JobIds |-> "none"]
  /\ retries = [j \in JobIds |-> MaxRetries]
  /\ running = [w \in Workers |-> NoJob]
  /\ stopping = {}

\* enqueue_job: the job is in Redis, visible to workers, at once.
Enqueue(j) ==
  /\ rq[j] = "none"
  /\ rq' = [rq EXCEPT ![j] = "queued"]
  /\ UNCHANGED <<retries, running, stopping>>

\* An idle worker forks a work horse for a queued job.  Which queued job is
\* next is left open: the queue is shared with the jobs of other sessions.
Dequeue(w, j) ==
  /\ running[w] = NoJob
  /\ rq[j] = "queued"
  /\ rq' = [rq EXCEPT ![j] = "started"]
  /\ running' = [running EXCEPT ![w] = j]
  /\ UNCHANGED <<retries, stopping>>

\* The job function returned.
Complete(w) ==
  /\ running[w] # NoJob
  /\ rq' = [rq EXCEPT ![running[w]] = "finished"]
  /\ running' = [running EXCEPT ![w] = NoJob]
  /\ UNCHANGED <<retries, stopping>>

MutantFailure(j) ==
  \/ /\ rq' = [rq EXCEPT ![j] = "scheduled"]
     /\ retries' = [retries EXCEPT ![j] = @ - 1]
  \/ /\ rq' = [rq EXCEPT ![j] = "failed"]
     /\ UNCHANGED retries

MutantEndlessFailure(j) ==
  /\ rq' = [rq EXCEPT ![j] = "scheduled"]
  /\ UNCHANGED retries

\* What a failure of job j does: scheduled for a retry, or failed for good.
\* The class of the exception plays no part in it.
Failure(j) ==
  \/ /\ retries[j] > 0
     /\ rq' = [rq EXCEPT ![j] = "scheduled"]
     /\ retries' = [retries EXCEPT ![j] = @ - 1]
  \/ /\ retries[j] = 0
     /\ rq' = [rq EXCEPT ![j] = "failed"]
     /\ UNCHANGED retries

\* The job function raised, or its horse died under a living worker.
JobRaises(w) ==
  /\ running[w] # NoJob
  /\ Failure(running[w])
  /\ running' = [running EXCEPT ![w] = NoJob]
  /\ UNCHANGED stopping

\* The worker process dies with its horse: the job stays "started" in Redis.
WorkerDies(w) ==
  /\ "worker_death" \in Faults
  /\ running[w] # NoJob
  /\ running' = [running EXCEPT ![w] = NoJob]
  /\ UNCHANGED <<rq, retries, stopping>>

\* The registry maintenance of a worker finds a started job whose horse no
\* longer beats and treats it as failed.
Abandoned(j) == rq[j] = "started" /\ \A w \in Workers : running[w] # j

Reap(j) ==
  /\ Abandoned(j)
  /\ Failure(j)
  /\ UNCHANGED <<running, stopping>>

\* The scheduler moves a job whose interval has elapsed back to the queue.  The
\* deployed workers are started without --with-scheduler: this step may happen
\* where an operator adds one, and nothing ever obliges it.
Requeue(j) ==
  /\ WithScheduler
  /\ rq[j] = "scheduled"
  /\ rq' = [rq EXCEPT ![j] = "queued"]
  /\ UNCHANGED <<retries, running, stopping>>

\* A worker receives the stop command for the job it runs and kills the horse.
StopDelivered(w) ==
  /\ running[w] \in stopping
  /\ rq' = [rq EXCEPT ![running[w]] = "stopped"]
  /\ running' = [running EXCEPT ![w] = NoJob]
  /\ UNCHANGED <<retries, stopping>>

\* Redis restarts without the last second of its log, or is flushed: a job no
\* horse runs is not known any more.
JobLost(j) ==
  /\ "job_lost" \in Faults
  /\ rq[j] \in {"queued", "scheduled"} \/ Abandoned(j)
  /\ rq' = [rq EXCEPT ![j] = "gone"]
  /\ UNCHANGED <<retries, running, stopping>>

\* The job waits, for good, for a retry that no worker starts.
ForgottenRetry(j) == [](rq[j] = "scheduled")

\* Job.cancel / send_stop_job_command, as delete_session's abort calls them:
\* j is the job reference the request read, possibly NoJob or no longer known.
Abort(j) ==
  /\ \/ /\ j # NoJob
        /\ rq[j] \in {"queued", "scheduled"}
        /\ rq' = [rq EXCEPT ![j] = "canceled"]
        /\ UNCHANGED stopping
     \/ /\ j # NoJob
        /\ rq[j] = "started"
        /\ stopping' = stopping \cup {j}
        /\ UNCHANGED rq
     \/ /\ ~Active(j)
        /\ UNCHANGED <<rq, stopping>>
  /\ UNCHANGED <<retries, running>>
=============================================================================
