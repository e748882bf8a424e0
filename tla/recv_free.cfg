\* Any caller, any frames, malloc may fail; the queue and its list in memory.
SPECIFICATION ListSpec
CONSTANTS
  Callers = {c1, c2}
  PduEnds = {2, 4}
  MaxPos = 4
  MaxFrame = 2
  MaxQueue = 3
  MaxLen = 3
  Aligned = FALSE
  Blocks = {b1, b2, b3}
  ListHead = head
  None = none
SYMMETRY Symmetry
INVARIANTS
  TypeOK
  Accounting
  OverrunIsBounded
  ShortReadMeansClosed
  ListHoldsQueue
PROPERTIES
  SleepsAsPromised
