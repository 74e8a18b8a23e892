------------------------- MODULE MCFieldTripMailbox -------------------------
(* FieldTripMailbox on small instances; the cfg files choose the faults.   *)
EXTENDS FieldTripMailbox, TLC

(* Requests never compare their ids, nor do polls: those of one kind are   *)
(* interchangeable (not where liveness is checked).                        *)
MailboxSymmetry ==
    Permutations(Sets \ (EmptyLists \cup Unmarkable)) \cup Permutations(Polls)
=============================================================================
