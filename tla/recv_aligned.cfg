\* Callers ask for bytes up to the end of a message, of all or of part of it;
\* messages of 1, 3 and 2 bytes; the session may end and malloc fail at any
\* moment, and everybody has to come home.
SPECIFICATION FairSpec
CONSTANTS
  Callers = {c1}
  PduEnds = {1, 4, 6}
  MaxPos = 6
  MaxFrame = 2
  MaxQueue = 4
  MaxLen = 5
  Aligned = TRUE
INVARIANTS
  NoOverrun
PROPERTIES
  ReadsStream
  RecvReturns
  CloseEnds
