---------------------------- MODULE MCUsbwsService ----------------------------
(* Interchangeable connections for the safety runs of UsbwsService.         *)
EXTENDS UsbwsService, TLC

Symmetry == Permutations(Sessions)
=============================================================================
