SPECIFICATION Spec
CONSTANTS
  JobIds = {1, 2}
  Workers = {w1}
  Requests = {r1}
  NoJob = NoJob
  MaxRetries = 0
  WithScheduler = FALSE
  Faults = {"api_crash", "worker_death", "job_lost"}
  Modes = {"diarised", "non_diarised"}
  Texts = {"narrative"}
  Pjs = {p1}
  Forces = {TRUE}
  MaxVersion = 2
INVARIANTS
  SourcesInv
CHECK_DEADLOCK FALSE
