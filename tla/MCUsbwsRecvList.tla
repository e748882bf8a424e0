--------------------------- MODULE MCUsbwsRecvList ---------------------------
(* Interchangeable threads and blocks for the run of UsbwsRecvList.         *)
EXTENDS UsbwsRecvList, TLC

Symmetry == Permutations(Callers) \cup Permutations(Blocks)
=============================================================================
