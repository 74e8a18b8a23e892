--------------------------- MODULE MCTenantPolicy ----------------------------
(***************************************************************************)
(* Instance of TenantPolicy: four requests, so that two can work at the    *)
(* same time on what others created; a list that names one app twice, the  *)
(* other once; and a status that the code has no name for.                 *)
(***************************************************************************)
EXTENDS TenantPolicy, TLC

CONSTANTS r1, r2, r3, r4, a, b

Lists == {<<[app |-> a, option |-> "x"], [app |-> b, option |-> "x"], [app |-> a, option |-> "y"]>>}

RequestSymmetry == Permutations({r1, r2, r3, r4})
=============================================================================
