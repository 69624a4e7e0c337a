SPECIFICATION Spec
CONSTANTS
  JobIds = {1, 2, 3}
  Workers = {w1}
  Requests = {r1}
  NoJob = NoJob
  MaxRetries = 0
  WithScheduler = FALSE
  Faults = {}
  Modes = {"diarised", "non_diarised"}
  Texts = {"narrative"}
  Pjs = {p1}
  Forces = {TRUE, FALSE}
  MaxVersion = 2
INVARIANTS
  SourceIsOfThisTranscription
PROPERTIES
  EditsSurviveUnforcedJobs
CHECK_DEADLOCK FALSE
