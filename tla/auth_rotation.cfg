\* Two processes on one auth.json; each step of a refresh may fail.
CONSTANTS
  p1 = p1
  p2 = p2
  c1 = c1
  c2 = c2
  c3 = c3
  Process = {p1, p2}
  Caller = {c1, c2, c3}
  Home <- TwoProcesses
  Faults = {"drop", "crash", "reply", "write"}
  MaxGrants = 2
  MaxLogins = 0
  None = None
  Torn = Torn
  Absent = Absent
SPECIFICATION RotationSpec
SYMMETRY Neighbours
INVARIANT FileParses
PROPERTIES
  ForwardOnly
  RotatesOnlyRejected
CHECK_DEADLOCK FALSE
