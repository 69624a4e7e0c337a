--------------------------- MODULE JobProjection ---------------------------
(***************************************************************************)
(* What a client is told of a job: GET /jobs/{id} and the event stream of  *)
(* /jobs/{id}/events read RQ's status at each poll, and jdr_jobs not at    *)
(* all (app/services/jdr/router.py).                                       *)
(***************************************************************************)
EXTENDS Transcription

JobStatus == {"queued", "running", "succeeded", "failed"}
TerminalStatuses == {"succeeded", "failed"}

MutantPublic(status) ==
  CASE status = "queued" -> "queued"
    [] status = "started" -> "running"
    [] status = "finished" -> "succeeded"
    [] status \in {"scheduled", "failed", "stopped", "canceled"} -> "failed"

\* _RQ_STATUS_TO_JOB_STATUS, _project_rq_job_out.
Public(status) ==
  CASE status \in {"queued", "scheduled"} -> "queued"
    [] status = "started" -> "running"
    [] status = "finished" -> "succeeded"
    [] status \in {"failed", "stopped", "canceled"} -> "failed"

Known(j) == rq[j] \notin {"none", "gone"}

\* The status of the next frame: a stream whose job has disappeared from Redis
\* ends with a failure.
Frame(j) == IF Known(j) THEN Public(rq[j]) ELSE "failed"

\* _job_event_stream: a frame with such a status is the last.
LastFrame(j) == Frame(j) \in TerminalStatuses

----------------------------------------------------------------------------
\* Every event stream ends, unless its job waits for a retry that no worker
\* starts, and a client is never told later, by GET or by another stream, the
\* contrary of what the stream ended with: a stream that ends during a retry, or
\* never for a job that is retried for ever, does not.  (The job is in Redis:
\* after its time to live GET answers 404.)
StreamsEndForGood ==
  /\ \A j \in JobIds : Known(j) ~> LastFrame(j) \/ ForgottenRetry(j)
  /\ [][\A j \in JobIds :
          Known(j) /\ LastFrame(j) => Frame(j)' = Frame(j)]_vars
=============================================================================
