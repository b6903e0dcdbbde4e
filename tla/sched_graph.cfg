CONSTANTS
  a = a
  b = b
  c = c
  d = d
  Nobody = Nobody
  Tasks = {a, b, c}
  DependsOn <- Join2
  Concurrency = 2
  GateCap = 2
  ReviewCap = 1
  Typed = FALSE
  Seed <- AllPlanned
  Faults = {"pause", "panic"}
  MaxReruns = 1
SPECIFICATION Spec
INVARIANTS PrerequisitesLanded SkippedBehindFailure NoTaskStranded WithinLimits
PROPERTY BoardSpec
