SPECIFICATION FairSpec
CONSTANTS
  Controls = 1
  MaxTurns = 2
  MaxChunks = 1
  EventCap = 1
  OutCap = 1
  Kids = {"stubborn"}
  Watchdog = TRUE
INVARIANTS TurnDelivered Released Reapable
PROPERTIES CallsEnd
CHECK_DEADLOCK FALSE
