SPECIFICATION Spec
CONSTANTS
  Values = {v1}
  MaxInputs = 2
  MaxColleague = 1
  Expected = Expected
INVARIANTS
  ResetsAreHandedIn
  OwnDeviationsAreStored
  ScreenTellsTheTruth
PROPERTIES
  DeviationsAreHandedIn
CHECK_DEADLOCK FALSE
