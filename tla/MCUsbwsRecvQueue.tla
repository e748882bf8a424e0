-------------------------- MODULE MCUsbwsRecvQueue --------------------------
(* Interchangeable threads for the runs of UsbwsRecvQueue.                 *)
EXTENDS UsbwsRecvQueue, TLC

(* Threads that discontinue the session do nothing else and are            *)
(* interchangeable.                                                        *)
Symmetry == Permutations(Callers)
=============================================================================
