\* Up to four options in any order, any argument, any call may fail.
SPECIFICATION Spec
CONSTANTS
  Libusb = FALSE
  MaxOptions = 4
INVARIANTS
  TypeOK
  ActsOnTarget
  ExitTellsOutcome
  TargetReturned
CHECK_DEADLOCK FALSE
