\* WSS alone, as by default, with asks without end over a window that grows
\* and halves.
CONSTANTS
  Task = {t1, t2, t3}
  Enabled <- OnlyWss
  Initial <- OneEach
  Maximum <- TwoEach
  AggregateMax = 2
  MinPause = 1
  DefaultPause = 1
  MaxPause = 1
  RetryAfter = {}
  Recurring = TRUE
SPECIFICATION FairSpec
INVARIANT NoLostWakeup
PROPERTIES
  LedgerFairSpec
  EveryAskSettles
