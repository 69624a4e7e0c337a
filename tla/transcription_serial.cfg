SPECIFICATION Spec
CONSTANTS
  JobIds = {j1, j2, j3}
  Workers = {w1}
  Requests = {r1}
  NoJob = NoJob
  NoFile = NoFile
  Partial = Partial
  MaxRetries = 1
  WithScheduler = FALSE
  Faults = {"worker_death", "job_lost", "timeout", "transient", "misconfigured"}
  Modes = {"diarised", "non_diarised"}
SYMMETRY Symmetry
INVARIANTS
  OneRunAtATime
  RecoveryRacesNoHorse
  CurrentJobTracksAudio
  FailedRowsAreFailures
  HorseOwnsTheSession
  TranscribedAudioIsPlayable
  TranscriptOnlyWhenTranscribed
CHECK_DEADLOCK FALSE
