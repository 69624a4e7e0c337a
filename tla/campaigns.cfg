SPECIFICATION Spec
CONSTANTS
  Users = {u1, u2}
  Bearers = {b1}
  Names = {n1, n2}
  Pjs = {p1}
  Sessions = {s1}
  Keys = {k1}
  Requests = {r1, r2}
  MaxCampaigns = 2
  None = None
SYMMETRY Symmetry
INVARIANTS
  NothingOutlivesItsCampaign
  OwnersManageTheirSessions
  PlayersStayWithTheirGm
PROPERTIES
  SameNameOnlyByRace
CHECK_DEADLOCK FALSE
