----------------------------- MODULE ByteStream -----------------------------
(***************************************************************************)
(* What the receive side of a session promises the USB/IP library: the     *)
(* bytes of the peer, taken in order, each once, never before they have    *)
(* been written, and none after the end of the session was seen.  A        *)
(* stream that was broken promises nothing any more.                       *)
(***************************************************************************)
EXTENDS Integers

VARIABLES
  written,  \* bytes the peer has written
  last,     \* the interval of the stream taken last: from, upto
  ended,    \* the reader has seen the end
  broken    \* bytes were lost on the way

vars == <<written, last, ended, broken>>

Init ==
  written = 0 /\ last = [from |-> 0, upto |-> 0] /\ ended = FALSE /\ broken = FALSE

Write == written' > written /\ UNCHANGED <<last, ended>>

Take ==
  /\ ~ended
  /\ last'.from = last.upto
  /\ last'.upto > last.upto
  /\ last'.upto <= written
  /\ UNCHANGED written
  /\ ended' \in BOOLEAN

End == ended' = TRUE /\ UNCHANGED <<written, last>>

Break == broken' = TRUE

Next == ((Write \/ Take \/ End) /\ UNCHANGED broken) \/ Break

Spec == Init /\ [][Next]_vars
=============================================================================
