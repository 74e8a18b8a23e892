-------------------------- MODULE MCCommandService --------------------------
(* CommandService on small instances.  The cfg files choose the actors, and*)
(* let every statement that carries maps succeed or fail: the behaviours   *)
(* with the drivers of go.mod, where all of them fail, are among these.    *)
EXTENDS CommandService, TLC

(* The commands are alike; used where only invariants are checked.         *)
CommandsAlike == Permutations(Commands)
=============================================================================
