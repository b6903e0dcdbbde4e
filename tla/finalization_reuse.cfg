SPECIFICATION Spec
CONSTANTS
  Run = {r1}
  Mode = {squash, manual}
  Manual = manual
  Work = {w1}
  Row = {}
  Nobody = nobody
  MaxPlan = 3
  MaxBase = 4
INVARIANT BaseWorkKept
CHECK_DEADLOCK FALSE
