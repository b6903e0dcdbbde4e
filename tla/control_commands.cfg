CONSTANTS
  r1 = r1
  r2 = r2
  Runs = {r1, r2}
  Commands = {1, 2, 3}
  Mixes <- AnyThree
  Faults = {"io", "publish"}
  Nobody = Nobody
  NoHandle = NoHandle
SPECIFICATION FairSpec
INVARIANTS RunningOwned WaitingIsQueued OnlyLiveHandles ResetAlone
PROPERTIES Answered RunEnds
CHECK_DEADLOCK FALSE
