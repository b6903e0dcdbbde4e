CONSTANTS
  r1 = r1
  r2 = r2
  r3 = r3
  t1 = t1
  p = p
  q = q
  Nobody = Nobody
  Requests = {r1, r2, r3}
  Processes = {p, q}
  ProcessOf <- ThreeCalls
  Trying = {}
  Faults = {"cancel", "io", "crash"}
SPECIFICATION FairSpec
PROPERTIES CancelEnds AloneAnswered
CHECK_DEADLOCK FALSE
