\* Every ask ends, whatever the provider does or fails to do.
CONSTANTS
  Task = {t1, t2}
  Warmer = warmer
  Socket = {s1, s2, s3}
  Enabled <- Both
  Initial <- OneEach
  Maximum <- OneEach
  AggregateMax = 2
  Pauses = {1}
  GatePermits = 1
  Attempts = 2
  Prewarm = 1
SPECIFICATION FairSpec
INVARIANT ConnectionsBounded
PROPERTY EveryAskEnds
CHECK_DEADLOCK FALSE
