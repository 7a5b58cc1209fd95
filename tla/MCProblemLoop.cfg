SPECIFICATION FairSpec
CONSTANTS
  Issues = {i1, i2}
  Slots = {s1, s2, s3}
  Exclusive <- Racing
  MayStop = TRUE
INVARIANTS
  StatusTellsTheProblems
  FinishedMeansReported
  DeviationReportedOnce
PROPERTIES
  LoopKeepsItsPromise
  MismatchPasses
CHECK_DEADLOCK FALSE
