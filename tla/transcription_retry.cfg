SPECIFICATION FairSpec
CONSTANTS
  JobIds = {j1, j2}
  Workers = {w1}
  Requests = {r1}
  NoJob = NoJob
  NoFile = NoFile
  Partial = Partial
  MaxRetries = 1
  WithScheduler = TRUE
  Faults = {"worker_death", "timeout", "transient", "job_lost"}
  Modes = {"diarised", "non_diarised"}
PROPERTIES
  StreamsEndForGood
  TranscribingEndsOrIsRecoverable
CHECK_DEADLOCK FALSE
