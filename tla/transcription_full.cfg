SPECIFICATION Spec
CONSTANTS
  JobIds = {j1, j2}
  Workers = {w1}
  Requests = {r1, r2}
  NoJob = NoJob
  NoFile = NoFile
  Partial = Partial
  MaxRetries = 0
  WithScheduler = FALSE
  Faults = {"api_crash", "worker_death", "timeout", "transient", "misconfigured"}
  Modes = {"diarised"}
SYMMETRY Symmetry
INVARIANTS
  TypeOK
  LifecycleInv
  HashMatchesPreparedFile
PROPERTY RefinesLifecycle
CHECK_DEADLOCK FALSE
