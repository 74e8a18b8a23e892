--------------------------- MODULE MCDeviceStatus ----------------------------
(***************************************************************************)
(* Instance of DeviceStatus: two requests beside a batch of up to two      *)
(* commands, to one device or two, and one subscriber.                     *)
(***************************************************************************)
EXTENDS DeviceStatus, TLC

CONSTANTS r1, r2, l1, l2

CallerSymmetry == Permutations({r1, r2}) \cup Permutations({l1, l2})
=============================================================================
