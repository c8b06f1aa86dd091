\* Both lanes: windows that move, a throttle that pauses both, no replay; and
\* every stream of up to three events, cut into chunks anywhere.
CONSTANTS
  Task = {t1, t2, t3}
  Warmer = warmer
  Socket = {s1, s2, s3}
  Enabled <- Both
  Initial <- OneEach
  Maximum <- TwoEach
  AggregateMax = 2
  Pauses = {1}
  GatePermits = 1
  Attempts = 2
  Prewarm = 1
  Events <- AllEvents
  MaxEvents = 3
  MaxChunk = 5
  BufferMax = 10
SPECIFICATION ResponsesSpec
SYMMETRY Names
INVARIANTS
  NothingLeaks
  SentAtMostOnce
  SocketsExclusive
  AnswersOwnAsk
  LanesAgree
  SuccessIsTheWholeAnswer
CHECK_DEADLOCK FALSE
