\* An ask that goes away while it waits for the auth generation.
CONSTANTS
  Task = {t1, t2}
  Warmer = warmer
  Socket = {s1, s2}
  Enabled <- OnlyWss
  Initial <- TwoEach
  Maximum <- TwoEach
  AggregateMax = 2
  Pauses = {1}
  GatePermits = 1
  Attempts = 2
  Prewarm = 0
SPECIFICATION Spec
INVARIANT OneEventPerRequest
CHECK_DEADLOCK FALSE
