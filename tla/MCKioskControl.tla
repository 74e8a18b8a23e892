--------------------------- MODULE MCKioskControl ----------------------------
(***************************************************************************)
(* Instance of KioskControl: calls to one tablet, to a group of two and to *)
(* lists with an id that does not exist, beside two toggles.               *)
(***************************************************************************)
EXTENDS KioskControl

CONSTANTS t1, t2, x

Lists == {<<>>, <<t1, x, t2>>, <<t2, t2>>}
=============================================================================
