\* A caller goes away: the load of its ask stays.
CONSTANTS
  a1 = a1
  a2 = a2
  a3 = a3
  f = f
  g = g
  WarmAsk = {a1, a2, a3}
  KindOf <- OneOfEach
  FamilyOf <- Families
  Family = {f, g}
  PerModel = 2
  Overflow = 1
  Sticky = TRUE
  Impatient = {a1}
  Closings = 2
  MaxTurns = 3
  MaxCalls = 2
SPECIFICATION WarmGatewaySpec
INVARIANT LoadIsInFlight
CHECK_DEADLOCK FALSE
