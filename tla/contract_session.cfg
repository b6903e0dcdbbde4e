SPECIFICATION FairSpec
CONSTANTS
  Worker = {w1, w2}
  GitChild = {g1}
  MaxSessions = 3
  MaxForeign = 1
INVARIANTS OneOwner PermitCoversEarlier
PROPERTIES StartAnswered
CHECK_DEADLOCK FALSE
