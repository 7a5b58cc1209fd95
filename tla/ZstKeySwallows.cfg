SPECIFICATION Spec
CONSTANTS
  Employees = {e1, e2}
  Positions = {p1, p2}
  MaxCount = 2
  MaxHandIns = 3
  Slots = {s1}
  MayStop = {}
  Meanwhile = {}
  None = None
SYMMETRY Symmetry
PROPERTIES
  SharedWorkIsBookedInFull
CHECK_DEADLOCK FALSE
