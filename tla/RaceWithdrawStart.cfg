SPECIFICATION CartSpec
CONSTANTS
  e1 = e1
  e2 = e2
  b1 = b1
  b2 = b2
  b3 = b3
  Cases = {c1}
  Employees = {e1}
  Bundles = {b1, b2}
  Owner <- OneEmployeeOwner
  None = None
  MaxPack = 1
  Planned = {}
  Slots = {s1, s2}
  Ops = {"start", "withdraw"}
PROPERTY
  StartedWorkStays
CHECK_DEADLOCK FALSE
