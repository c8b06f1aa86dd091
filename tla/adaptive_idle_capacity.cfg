\* Slow start opens two slots with one wakeup.
CONSTANTS
  Task = {t1, t2, t3}
  Enabled <- OnlyWss
  Initial <- OneEach
  Maximum <- TwoEach
  AggregateMax = 2
  MinPause = 1
  DefaultPause = 1
  MaxPause = 1
  RetryAfter = {}
  Recurring = FALSE
SPECIFICATION Spec
INVARIANT NoIdleCapacity
CHECK_DEADLOCK FALSE
