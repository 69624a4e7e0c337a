SPECIFICATION Spec
CONSTANTS
  Users = {u1, u2}
  Passwords = {p1}
  EnvKeys = {k1}
  Tokens = {t1, t2}
  Requests = {r1, r2}
  Changes <- MCChanges
  TTL = 1
  MaxTime = 1
  NoPassword = NoPassword
SYMMETRY Symmetry
PROPERTIES
  NoLateImport
  LastAdminLostOnlyToARace
  LockoutIsFinal
  RefusedStaysRefused
  NoLostUpdate
CHECK_DEADLOCK FALSE
