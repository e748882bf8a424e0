\* Two connections, a failing pthread_create, a failing service, a SIGINT.
SPECIFICATION FairSpec
CONSTANTS
  Sessions = {s1, s2}
  TidAfterFailure = {"zero", "garbage"}
  ServiceMayFail = TRUE
  MaxSigint = 1
INVARIANTS
  TypeOK
  NobodyLeftAsleep
PROPERTIES
  KeepsContextLife
  StopEndsService
  OverIsFreed
