-------------------------- MODULE MCTranscription --------------------------
(***************************************************************************)
(* Transcription for TLC.  The configurations give every constant a value; *)
(* Symmetry is used by the runs that check safety only: jobs and requests  *)
(* are interchangeable, no action compares or orders them.                 *)
(***************************************************************************)
EXTENDS JobProjection, TLC

Symmetry == Permutations(JobIds) \cup Permutations(Requests)
=============================================================================
