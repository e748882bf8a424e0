\* The fork after the pid file.
SPECIFICATION Spec
CONSTANTS
  PidFiles = {"absolute"}
  KeyFiles = {"absolute"}
  MayFail = {}
  MaxSigint = 0
INVARIANTS
  PidFileNamesDaemon
