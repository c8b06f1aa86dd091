\* Both lanes, three callers that ask again and again.
CONSTANTS
  Task = {t1, t2, t3}
  Enabled <- Both
  Initial <- OneEach
  Maximum <- TwoEach
  AggregateMax = 2
  MinPause = 1
  DefaultPause = 1
  MaxPause = 2
  RetryAfter = {0, 3}
  Recurring = TRUE
SPECIFICATION Spec
SYMMETRY TaskSymmetry
INVARIANTS
  TypeOK
  Conservation
  RespectsMaxima
  ThrottleReachesWaiters
PROPERTY LedgerSpec
