SPECIFICATION CartSpec
CONSTANTS
  e1 = e1
  e2 = e2
  b1 = b1
  b2 = b2
  b3 = b3
  Cases = {c1, c2}
  Employees = {e1, e2}
  Bundles = {b1, b3}
  Owner <- TwoCartsOwner
  None = None
  MaxPack = 1
  Planned = {}
  Slots = {s1, s2}
  Ops = {"start", "cancel", "park", "parkRemaining", "add", "assign", "move", "moveWithin"}
SYMMETRY Symmetry
INVARIANT
  HeldWorkHasItsItem
CHECK_DEADLOCK FALSE
