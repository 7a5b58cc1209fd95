SPECIFICATION MorningSpec
CONSTANTS
  e1 = e1
  e2 = e2
  b1 = b1
  b2 = b2
  b3 = b3
  Cases = {c1, c2}
  Employees = {e1, e2}
  Bundles = {b1, b2, b3}
  Owner <- MCOwner
  None = None
  MaxPack = 1
SYMMETRY Symmetry
INVARIANTS
  TypeOK
  HeldWorkIsOnAnOpenCart
  DoneWorkKeepsItsBundle
  OneOpenBundlePerEmployee
PROPERTIES
  CasesFollowTheGraph
  TeamleadPlacementKept
  RunningPackUntouched
  NothingStartableLeftBehind
