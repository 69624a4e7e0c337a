-------------------------- MODULE SessionLifecycle --------------------------
(***************************************************************************)
(* What the pipeline promises about one session, whatever races, crashes   *)
(* and retries happen below: a client polling the session sees its phase,  *)
(* whether an upload was ever accepted and whether a transcript is         *)
(* published, and these change by the six steps below and no other.        *)
(* Nothing happens before an upload is accepted, publication and           *)
(* withdrawal are atomic with their change of phase, and deletion is final.*)
(***************************************************************************)
VARIABLES
  phase,      \* SessionState, or "deleted"
  accepted,   \* an upload has been accepted
  published   \* a transcript can be read

vars == <<phase, accepted, published>>

Init ==
  /\ phase = "created"
  /\ accepted = FALSE
  /\ published = FALSE

Live == phase # "deleted"

Accept ==
  /\ phase = "created" /\ ~accepted
  /\ phase' = "audio_uploaded"
  /\ accepted' = TRUE
  /\ UNCHANGED published

Attempt ==
  /\ Live /\ accepted
  /\ phase' = "transcribing"
  /\ UNCHANGED <<accepted, published>>

Publish ==
  /\ Live /\ accepted
  /\ phase' = "transcribed"
  /\ published' = TRUE
  /\ UNCHANGED accepted

SetBack ==
  /\ Live /\ accepted
  /\ phase' \in {"audio_uploaded", "transcription_failed"}
  /\ UNCHANGED <<accepted, published>>

\* By a purge, back to created; by a restart, back to audio_uploaded.
Withdraw ==
  /\ Live /\ accepted
  /\ phase' \in {"created", "audio_uploaded"}
  /\ published' = FALSE
  /\ UNCHANGED accepted

Delete ==
  /\ phase' = "deleted"
  /\ accepted' = FALSE
  /\ published' = FALSE

Next == Accept \/ Attempt \/ Publish \/ SetBack \/ Withdraw \/ Delete

Spec == Init /\ [][Next]_vars
=============================================================================
