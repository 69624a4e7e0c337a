SPECIFICATION Spec
CONSTANTS
  JobIds = {1, 2}
  Workers = {w1}
  Requests = {r1, r2}
  NoJob = NoJob
  MaxRetries = 0
  WithScheduler = FALSE
  Faults = {}
  Modes = {"non_diarised"}
  Texts = {"narrative"}
  Pjs = {p1}
  Forces = {TRUE}
  MaxVersion = 2
SYMMETRY Symmetry
INVARIANTS
  TypeOK
  DerivedFollowsSummary
  AcceptedDerivationHasSource
PROPERTIES
  RefinesDerived
CHECK_DEADLOCK FALSE
