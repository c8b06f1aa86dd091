\* Two installers, a stray daemon and two releases to come, the second of them
\* a prerelease; two asks and a health check over one loader; two callers of
\* a client while the endpoints change.
CONSTANTS
  i1 = i1
  i2 = i2
  LastRelease = 3
  Rank <- Ranks
  Prerelease = {3}
  Port = {"own", "other"}
  Installer = {i1, i2}
  PortOf <- Ports
  MaxBackoff = 2
  Strays = 1
  Uninstalls = 1
  Troubles = 2
  Together = 3
  u1 = u1
  u2 = u2
  h = h
  warm = warm
  User = {u1, u2, h}
  Loader = {warm}
  LoaderOf <- Loaders
  HealthCheck = {h}
  Hurried = {u1, h}
  MaxLeases = 3
  ClientAsk = {a1, a2}
  Garbled = TRUE
  Changes = 1
SPECIFICATION DaemonSpec
INVARIANTS
  ServingIsAdvertised
  TriedOnce
  InstallsLeaveJob
PROPERTIES
  ServiceReturns
  ReleasesTried
  LeasesForward
  RetryUsesAnotherLease
  EveryLoadEnds
  PythonReconnects
CHECK_DEADLOCK FALSE
