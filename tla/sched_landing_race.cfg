CONSTANTS
  a = a
  b = b
  c = c
  d = d
  Nobody = Nobody
  Tasks = {a, b}
  DependsOn <- Free
  Concurrency = 2
  GateCap = 2
  ReviewCap = 2
  Typed = TRUE
  Seed <- AllPlanned
  Faults = {}
  MaxReruns = 0
SPECIFICATION Spec
INVARIANT LandingRetained
