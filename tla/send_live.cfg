\* A buffer of one or two chunks; poll may sleep for ever.
SPECIFICATION FairSpec
CONSTANTS
  Foreign = {f1}
  SendContent = 1
  MaxLen = 2
  MaxCalls = 1
  MaxFails = 0
  HealthChecks = TRUE
PROPERTIES
  ShortSendReturns
  SendReturnsInTime
