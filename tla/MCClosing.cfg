SPECIFICATION CartFairSpec
CONSTANTS
  e1 = e1
  e2 = e2
  b1 = b1
  b2 = b2
  b3 = b3
  Cases = {c1, c2, c3}
  Employees = {e1, e2}
  Bundles = {b1, b2}
  Owner <- OneEmployeeOwner
  None = None
  MaxPack = 1
  Planned = {c3}
  Slots = {s1, s2}
  Ops = {"start", "complete", "advance", "share"}
CONSTRAINT
  OneIsShared
PROPERTY
  LastCompletionCloses
CHECK_DEADLOCK FALSE
