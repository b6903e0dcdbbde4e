CONSTANTS
  r1 = r1
  r2 = r2
  r3 = r3
  t1 = t1
  p = p
  q = q
  Nobody = Nobody
  Requests = {r1, r2, r3, t1}
  Processes = {p, q}
  ProcessOf <- TwoProcesses
  Trying = {t1}
  Faults = {"cancel", "io", "crash"}
SPECIFICATION Spec
INVARIANTS OneMutator EntryAlive
PROPERTY NoOvertaking
CHECK_DEADLOCK FALSE
