\* Two calls of one or two chunks, a foreign thread, one failed write.
SPECIFICATION Spec
CONSTANTS
  Foreign = {f1}
  SendContent = 1
  MaxLen = 2
  MaxCalls = 2
  MaxFails = 1
  HealthChecks = TRUE
INVARIANTS
  TypeOK
  WritableToken
  PingWaits
  SuccessMeansWritten
PROPERTIES
  SleepsAsPromised
  ChunksInOrder
