CONSTANTS
  a = a
  b = b
  c = c
  d = d
  Nobody = Nobody
  Tasks = {a, c, d}
  DependsOn <- Fork
  Concurrency = 2
  GateCap = 1
  ReviewCap = 2
  Typed = TRUE
  Seed <- ForkSeed
  Faults = {"cancel", "wallclock", "panic", "persist", "git"}
  MaxReruns = 0
SPECIFICATION FairSpec
INVARIANTS DoneIsLanded MergeLockOwned
PROPERTIES DoneIsFinal RunEnds
