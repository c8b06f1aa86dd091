\* A login lets two processes write the same temporary file.
CONSTANTS
  p1 = p1
  p2 = p2
  c1 = c1
  c2 = c2
  c3 = c3
  Process = {p1, p2}
  Caller = {c1, c2, c3}
  Home <- TwoProcesses
  Faults = {}
  MaxGrants = 3
  MaxLogins = 1
  None = None
  Torn = Torn
  Absent = Absent
SPECIFICATION Spec
INVARIANT FileParses
CHECK_DEADLOCK FALSE
