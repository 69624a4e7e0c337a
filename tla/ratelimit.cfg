SPECIFICATION Spec
CONSTANTS
  Requests = {r1, r2}
  Limit = 2
  WindowS = 2
  Second = 2
  MaxDelay = 1
  MaxTime = 8
SYMMETRY Symmetry
INVARIANTS
  AdmittedInAnyWindow
PROPERTIES
  RetryAfterFreesAPlace
CHECK_DEADLOCK FALSE
