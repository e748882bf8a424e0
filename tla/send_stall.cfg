\* A buffer of two chunks.
SPECIFICATION Spec
CONSTANTS
  Foreign = {}
  SendContent = 1
  MaxLen = 2
  MaxCalls = 1
  MaxFails = 0
  HealthChecks = FALSE
INVARIANTS
  WritableWillHappen
