SPECIFICATION Spec
CONSTANTS
  Employees = {e1, e2, e3}
  Positions = {p1, p2}
  Slots = {s1, s2}
  None = None
  Exclusive <- Racing
SYMMETRY Symmetry

  
PROPERTIES
  GateAtTheEnd
  AnswersAreNotOverwritten
CHECK_DEADLOCK FALSE
