---------------------------- MODULE MCUsbwsSend ----------------------------
(***************************************************************************)
(* Instances of UsbwsSend for TLC, and what a comment of the program says  *)
(* of the send side.                                                       *)
(***************************************************************************)
EXTENDS UsbwsSend, TLC

Symmetry == Permutations(Foreign)

(* usbws_session.c:195-199: "cancel service otherwise writable will not    *)
(* happen until service timeout".  So the service thread does not sit in a *)
(* poll that cannot end with a writable callback while a sender waits.     *)
WritableWillHappen ==
  pc[Sender] = "blocked" /\ pc[Service] = "poll" /\ cont => armed \/ cancelled
                                     \/ \E t \in Foreign : pc[t] # "idle"
=============================================================================
