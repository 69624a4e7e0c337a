SPECIFICATION FairSpec
CONSTANTS
  JobIds = {1, 2}
  Workers = {w1}
  Requests = {r1}
  NoJob = NoJob
  MaxRetries = 1
  WithScheduler = TRUE
  Faults = {"worker_death"}
  Modes = {"diarised"}
  Texts = {"narrative"}
  Pjs = {p1}
  Forces = {TRUE}
  MaxVersion = 1
PROPERTIES
  GenerationEndsOrIsReplaced
CHECK_DEADLOCK FALSE
