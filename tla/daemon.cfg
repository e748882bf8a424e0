\* Files named by absolute and relative paths; any call may fail, two SIGINTs.
SPECIFICATION Spec
CONSTANTS
  PidFiles = {"absolute", "relative"}
  KeyFiles = {"absolute", "relative"}
  MayFail = {"fopen", "fprintf", "driver", "daemon", "context", "service", "crash"}
  MaxSigint = 2
INVARIANTS
  TypeOK
  ReturnTakesBack
