SPECIFICATION Spec
CONSTANTS
  Admins = {u1}
  Paths = {p1, p2, padded}
  Places = {d1, d2}
  Place <- MCPlace
  Literal = {padded}
  NoPlace = NoPlace
  OldPaths <- MCOldPaths
  Models = {m1}
  ApiKeys = {k1}
  p1 = p1
  p2 = p2
  padded = padded
  d1 = d1
  d2 = d2
  m1 = m1
  k1 = k1
  Proofs = {v1, v2}
  Requests = {r1, r2}
  Patches <- MCPatches
  NoRow = NoRow
  Null = Null
  Unset = Unset
SYMMETRY Symmetry
INVARIANTS
  ShownIsUsed
PROPERTIES
  OnlyTriedModelsAreChosen
  NoLostSetting
