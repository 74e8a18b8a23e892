--------------------------- MODULE MCFieldTripHub ---------------------------
(* FieldTripHub on small instances; the cfg files choose the faults.       *)
EXTENDS FieldTripCodes, TLC

(* Ids are only ever compared for equality.                                *)
HubSymmetry == Permutations(Groups) \cup Permutations(Devices)
=============================================================================
