SPECIFICATION Spec
CONSTANTS
  c1 = c1
  c2 = c2
  c3 = c3
  p1 = p1
  p2 = p2
  k1 = k1
  n1 = n1
  Cases <- MCCases
  Parts <- MCParts
  Arrivals <- MCArrivals
  Workers = {1, 2}
  Skills <- MCSkills
  Shifts <- MCShifts
  Budgets = {4}
  MinTeile = 3
  MaxTeile = 4
  MinFollowUp = 2
  MaxFollowUp = 3
  LargeBeleg = 5
  Selections <- MCSelections
  MaxCorrections = 1
  LastDay = 2
  LoadPlan <- MCLoadPlan
  DailyAreas = {}
  NoDate = 0
  NoKey = NoKey
  Tiers = {"source", "note", "run"}
  MaxGap = 1
  DistributeSuspected = FALSE
INVARIANTS
  EveryBelegHasOnePlace
  UrgentIsPackedFirst
  DeliveryStaysInOnePack
  NobodyIdleWhileWorkFits
  PlanHoldsIncompleteDeliveries
  PartsCarryTheGoods
PROPERTY
  WaitingKeepsUrgency
CHECK_DEADLOCK FALSE
