SPECIFICATION Spec
CONSTANTS
  Run = {r1, r2}
  Mode = {squash, manual}
  Manual = manual
  Work = {w1}
  Row = {o1}
  Nobody = nobody
  MaxPlan = 3
  MaxBase = 5
INVARIANTS IntegratedOnce PreparedKeepsBase CompletionsHold
PROPERTY DelayedKeepsBase
CHECK_DEADLOCK FALSE
SYMMETRY Symmetry
