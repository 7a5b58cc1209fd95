SPECIFICATION Spec
CONSTANTS
  Employees = {e1, e2}
  Positions = {p1, p2}
  MaxCount = 2
  MaxHandIns = 3
  Slots = {s1}
  MayStop = {"complete", "partial"}
  Meanwhile = {"check", "share"}
  None = None
SYMMETRY Symmetry
INVARIANTS
  NeverOverbooked
  NobodyIsBookedMoreThanHisKey
PROPERTIES
  OwnWorkIsBookedInFull
CHECK_DEADLOCK FALSE
