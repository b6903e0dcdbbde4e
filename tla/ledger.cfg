CONSTANTS
  Task = {a, b}
  EveryTask = EveryTask
  DropAnchor = TRUE
  InitGated = {b}
  ContractRuns = {c}
  MaxCoreRuns = 1
  MaxLog = 5
  NoRun = NoRun
SPECIFICATION Spec
INVARIANTS BoardLoads ClaimsHold DoneIsCurrent LandedOnce
PROPERTIES AuthoredMoves
CHECK_DEADLOCK FALSE
