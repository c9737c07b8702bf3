------------------------- MODULE MCDeviceHeartbeat -------------------------
(***************************************************************************)
(* The instances of DeviceHeartbeat that TLC checks: the constants are     *)
(* given in the .cfg files.                                                *)
(***************************************************************************)
EXTENDS DeviceHeartbeat, TLC

MCFewIds == 1 .. 3
MCMsgIds == 1 .. 5

(* Calls and consumers are interchangeable; message ids are not, because   *)
(* the lowest free one is taken.  Not used for liveness.                   *)
MCSymmetry == Permutations(Handlers) \cup Permutations(Background) \cup Permutations(Consumers)
=============================================================================
