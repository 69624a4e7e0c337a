--------------------------- MODULE JobQueueProofs ---------------------------
(***************************************************************************)
(* Lemmas about JobQueue that the proofs about its users cite.             *)
(***************************************************************************)
EXTENDS JobQueue, TLAPS

USE DEF RqStatus

QueueStep ==
  \/ \E j \in JobIds : Enqueue(j) \/ Abort(j) \/ Reap(j) \/ Requeue(j) \/ JobLost(j)
  \/ Abort(NoJob)
  \/ \E w \in Workers : \/ \E j \in JobIds : Dequeue(w, j)
                        \/ Complete(w) \/ JobRaises(w)
                        \/ WorkerDies(w) \/ StopDelivered(w)

\* Whatever happens in the queue, every job keeps a status and a number of
\* retries within its bound: Failure never takes a retry that is not left.
LEMMA QueueStepType ==
  ASSUME QueueTypeOK, QueueStep
  PROVE  QueueTypeOK'
<1>1. ASSUME NEW j \in JobIds, Failure(j)
      PROVE  /\ rq' \in [JobIds -> RqStatus]
             /\ retries' \in [JobIds -> 0 .. MaxRetries]
  BY <1>1, QueueAssumption DEF QueueTypeOK, Failure
<1>2. ASSUME NEW j \in JobIds,
             Enqueue(j) \/ Abort(j) \/ Reap(j) \/ Requeue(j) \/ JobLost(j)
      PROVE  QueueTypeOK'
  <2>1. CASE Enqueue(j) BY <2>1 DEF QueueTypeOK, Enqueue
  <2>2. CASE Abort(j) BY <2>2 DEF QueueTypeOK, Abort
  <2>3. CASE Reap(j) BY <1>1, <2>3 DEF QueueTypeOK, Reap
  <2>4. CASE Requeue(j) BY <2>4 DEF QueueTypeOK, Requeue
  <2>5. CASE JobLost(j) BY <2>5 DEF QueueTypeOK, JobLost
  <2> QED BY <1>2, <2>1, <2>2, <2>3, <2>4, <2>5
<1>3. ASSUME Abort(NoJob) PROVE QueueTypeOK'
  BY <1>3 DEF QueueTypeOK, Abort
<1>4. ASSUME NEW w \in Workers,
             \/ \E j \in JobIds : Dequeue(w, j)
             \/ Complete(w) \/ JobRaises(w) \/ WorkerDies(w) \/ StopDelivered(w)
      PROVE  QueueTypeOK'
  <2>1. CASE \E j \in JobIds : Dequeue(w, j) BY <2>1 DEF QueueTypeOK, Dequeue
  <2>2. CASE Complete(w) BY <2>2 DEF QueueTypeOK, Complete
  <2>3. CASE JobRaises(w)
    <3>1. running[w] \in JobIds BY <2>3 DEF QueueTypeOK, JobRaises
    <3> QED BY <1>1, <2>3, <3>1 DEF QueueTypeOK, JobRaises
  <2>4. CASE WorkerDies(w) BY <2>4 DEF QueueTypeOK, WorkerDies
  <2>5. CASE StopDelivered(w) BY <2>5 DEF QueueTypeOK, StopDelivered
  <2> QED BY <1>4, <2>1, <2>2, <2>3, <2>4, <2>5
<1> QED BY <1>2, <1>3, <1>4 DEF QueueStep

LEMMA QueueUnchanged ==
  ASSUME QueueTypeOK, UNCHANGED queueVars
  PROVE  QueueTypeOK'
BY DEF QueueTypeOK, queueVars
=============================================================================
