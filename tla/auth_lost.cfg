\* One process whose client goes away during a refresh.
CONSTANTS
  p1 = p1
  p2 = p2
  c1 = c1
  c2 = c2
  c3 = c3
  Process = {p1}
  Caller = {c1, c2}
  Home <- OneProcess
  Faults = {"drop"}
  MaxGrants = 2
  MaxLogins = 0
  None = None
  Torn = Torn
  Absent = Absent
SPECIFICATION RotationSpec
INVARIANT RefreshTokenKept
CHECK_DEADLOCK FALSE
