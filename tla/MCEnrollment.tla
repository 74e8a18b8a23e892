---------------------------- MODULE MCEnrollment ----------------------------
(***************************************************************************)
(* Instance of Enrollment: the repository as it is, with a database that   *)
(* never fails, and one request of each kind.                              *)
(***************************************************************************)
EXTENDS Enrollment

CONSTANTS k1, r1, f1, v1
=============================================================================
