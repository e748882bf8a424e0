\* Any call may fail, two SIGINTs.
SPECIFICATION FairSpec
CONSTANTS
  MayFail = {"context", "proxy", "connect", "sock", "thread"}
  ErrorOnDestroy = TRUE
  MaxSigint = 2
INVARIANTS
  TypeOK
  OpenMeansEstablished
  WsiIsLive
  FailedIsClean
PROPERTIES
  OpenReturns
  StopEndsThread
