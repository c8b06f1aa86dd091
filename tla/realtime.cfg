\* Three asks of two threads, one thread resident, one caller that may go away
\* and one lost reply; three exchanges that share two permits; and two processes
\* with a login on one auth.json, where no step fails.
CONSTANTS
  b1 = b1
  b2 = b2
  b3 = b3
  k1 = k1
  k2 = k2
  c1 = c1
  c2 = c2
  c3 = c3
  ThreadAsk = {b1, b2, b3}
  KeyOf <- Keys
  Key = {k1, k2}
  Inputs <- Windows
  MaxItems = 2
  MaxThreads = 1
  Hasty = {b1}
  Losses = 1
  ExAsk = {c1, c2, c3}
  ModeOf <- Modes
  Capacity = 2
  MaxToolCalls = 3
  MaxToolChars = 3
  Outputs = {1, 9}
  Hint = 1
  Wrapper = 1
  Growth = 2
  Batches = {1, 2}
  p1 = p1
  p2 = p2
  r1 = r1
  r2 = r2
  Process = {p1, p2}
  Caller = {r1, r2}
  Home <- Apart
  Faults = {}
  MaxGrants = 4
  MaxLogins = 1
  None = None
  Torn = Torn
  Absent = Absent
SPECIFICATION RealtimeSpec
INVARIANTS
  LogMatchesConversation
  AsksItsWindow
  RepliesNeedDesertion
  ToolBudget
  RefreshTokenKept
PROPERTY TimedAsksEnd
CHECK_DEADLOCK FALSE
