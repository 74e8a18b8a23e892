-------------------------- MODULE CommandLifecycle --------------------------
(***************************************************************************)
(* What the command service promises about one device command, without     *)
(* saying how: the caller of SendCommand is told one verdict, once, and    *)
(* the history row of the command leaves "pending" at most once, for the   *)
(* final status that belongs to the verdict, or for "canceled" when an     *)
(* operator canceled it first.                                             *)
(***************************************************************************)

CONSTANT Commands       (* the command ids; every call gets a fresh uuid *)

VARIABLES status,       (* status[c]: the command_history row of c       *)
          verdict       (* verdict[c]: what the caller was told about c  *)

lifecycleVars == <<status, verdict>>

Final    == {"success", "failed", "timeout", "canceled"}
Statuses == Final \cup {"absent", "pending"}
Verdicts == Final \cup {"none", "offline", "publishError"}

(* The status a verdict is recorded as: a command that could not be        *)
(* published has failed, the other verdicts carry the status's name.       *)
StatusOf(v) == IF v = "publishError" THEN "failed" ELSE v

LifecycleInit ==
    /\ status = [c \in Commands |-> "absent"]
    /\ verdict = [c \in Commands |-> "none"]

Accept(c) ==
    /\ status[c] = "absent" /\ verdict[c] = "none"
    /\ status' = [status EXCEPT ![c] = "pending"]
    /\ UNCHANGED verdict

Decide(c) ==
    /\ verdict[c] = "none"
    /\ \E v \in Verdicts \ {"none"} :
          /\ v = "offline" => status[c] = "absent"
          /\ verdict' = [verdict EXCEPT ![c] = v]
    /\ UNCHANGED status

Complete(c) ==
    /\ status[c] = "pending" /\ verdict[c] \notin {"none", "offline"}
    /\ status' = [status EXCEPT ![c] = StatusOf(verdict[c])]
    /\ UNCHANGED verdict

Cancel(c) ==
    /\ status[c] = "pending"
    /\ status' = [status EXCEPT ![c] = "canceled"]
    /\ UNCHANGED verdict

LifecycleNext == \E c \in Commands : Accept(c) \/ Decide(c) \/ Complete(c) \/ Cancel(c)

LifecycleSpec == LifecycleInit /\ [][LifecycleNext]_lifecycleVars
=============================================================================
