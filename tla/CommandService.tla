--------------------------- MODULE CommandService ---------------------------
(***************************************************************************)
(* The command service (internal/services/command_service.go).  One call   *)
(* of SendCommand per command id, running as a goroutine of its own: it    *)
(* stores a history row, registers a response channel of capacity one in   *)
(* the table pendingCommands, publishes the command over MQTT and waits in *)
(* a select for the response, a timeout or the caller's context.  Response *)
(* handlers run in other goroutines: they look the channel up under the    *)
(* read lock and send on it after the lock is released.  CancelCommand     *)
(* runs in yet other goroutines and touches only the history row.          *)
(*                                                                         *)
(* One action is one critical section, channel operation, database         *)
(* statement or publish: the points where goroutines interleave.           *)
(***************************************************************************)
CONSTANTS Commands,     (* command ids                                     *)
          Handlers,     (* goroutines that may run HandleCommandResponse   *)
          Cancelers,    (* goroutines that may run CancelCommand           *)
          MapColumns,   (* how a statement can fare that hands the driver  *)
                        (* a Go map, or scans a column into one: {FALSE}   *)
                        (* with the drivers of go.mod, which refuse both,  *)
                        (* so that no history row is ever stored; BOOLEAN  *)
                        (* for a repository that converts its maps, whose  *)
                        (* statements may succeed or fail                  *)
          NoMsg         (* "the channel is empty", "the goroutine holds no *)
                        (* message": not a response                        *)

Responses == [commandId : Commands, success : BOOLEAN]

ASSUME MapColumnsAssumption == MapColumns \in {{FALSE}, BOOLEAN}
ASSUME NoMsgAssumption == NoMsg \notin Responses

VARIABLES
    pc,               (* pc[c]: where the SendCommand call for c stands     *)
    ctxDone,          (* ctxDone[c]: the caller's context is canceled       *)
    outcome,          (* outcome[c]: what the call returns                  *)
    record,           (* record[c]: the status column of c's history row    *)
    pendingCommands,  (* the ids that have an entry in the table            *)
    respChan,         (* respChan[c]: the one slot of the response channel  *)
    closed,           (* closed[c]: close(respChan) was executed            *)
    published,        (* the ids whose command message reached the broker   *)
    responses,        (* every response a device ever sent: delivery is at  *)
                      (* least once, in any order, as late as it likes      *)
    hpc, hmsg,        (* a handler's next step and the message it holds     *)
    xpc, xcmd,        (* a canceler's next step and the row it has read     *)
    panicked          (* a goroutine sent on a closed channel: the process  *)
                      (* is dead                                            *)

callVars    == <<pc, ctxDone, outcome>>
chanVars    == <<pendingCommands, respChan, closed>>
deviceVars  == <<published, responses>>
handlerVars == <<hpc, hmsg>>
cancelVars  == <<xpc, xcmd>>
vars == <<callVars, record, chanVars, deviceVars, handlerVars, cancelVars, panicked>>

CL == INSTANCE CommandLifecycle WITH status <- record, verdict <- outcome

Labels == {"idle", "create", "register", "publish", "await",
           "update", "delete", "close", "done"}

TypeOK ==
    /\ pc \in [Commands -> Labels]
    /\ ctxDone \in [Commands -> BOOLEAN]
    /\ outcome \in [Commands -> CL!Verdicts]
    /\ record \in [Commands -> CL!Statuses]
    /\ pendingCommands \subseteq Commands
    /\ respChan \in [Commands -> Responses \cup {NoMsg}]
    /\ closed \in [Commands -> BOOLEAN]
    /\ published \subseteq Commands
    /\ responses \subseteq Responses
    /\ hpc \in [Handlers -> {"idle", "send"}]
    /\ hmsg \in [Handlers -> Responses \cup {NoMsg}]
    /\ xpc \in [Cancelers -> {"idle", "write"}]
    /\ xcmd \in [Cancelers -> Commands \cup {NoMsg}]
    /\ panicked \in BOOLEAN

Init ==
    /\ pc = [c \in Commands |-> "idle"]
    /\ ctxDone = [c \in Commands |-> FALSE]
    /\ outcome = [c \in Commands |-> "none"]
    /\ record = [c \in Commands |-> "absent"]
    /\ pendingCommands = {}
    /\ respChan = [c \in Commands |-> NoMsg]
    /\ closed = [c \in Commands |-> FALSE]
    /\ published = {} /\ responses = {}
    /\ hpc = [h \in Handlers |-> "idle"] /\ hmsg = [h \in Handlers |-> NoMsg]
    /\ xpc = [x \in Cancelers |-> "idle"] /\ xcmd = [x \in Cancelers |-> NoMsg]
    /\ panicked = FALSE

Goto(c, from, to) ==
    /\ pc[c] = from
    /\ pc' = [pc EXCEPT ![c] = to]

Return(c, o) == outcome' = [outcome EXCEPT ![c] = o]

(* Create and Update pass the record's Payload and Result, which are maps. *)
(* ExecContext refuses a canceled context before it looks at them.  Every  *)
(* caller ignores the error.                                               *)
Stored(c) == IF ctxDone[c] THEN {FALSE} ELSE MapColumns

-----------------------------------------------------------------------------
(* SendCommand, step by step.                                              *)

CheckOnline(c) ==
    /\ \/ Goto(c, "idle", "create") /\ UNCHANGED outcome
       \/ Goto(c, "idle", "done") /\ Return(c, "offline")
    /\ UNCHANGED <<ctxDone, record, chanVars, deviceVars, handlerVars, cancelVars, panicked>>

CreateRecord(c) ==
    /\ Goto(c, "create", "register")
    /\ \E ok \in Stored(c) : record' = IF ok THEN [record EXCEPT ![c] = "pending"] ELSE record
    /\ UNCHANGED <<ctxDone, outcome, chanVars, deviceVars, handlerVars, cancelVars, panicked>>

Register(c) ==
    /\ Goto(c, "register", "publish")
    /\ pendingCommands' = pendingCommands \cup {c}
    /\ UNCHANGED <<ctxDone, outcome, record, respChan, closed, deviceVars,
                   handlerVars, cancelVars, panicked>>

(* A QoS 1 publish can report an error after the broker took the message   *)
(* (its acknowledgement was lost), so a failed publish may be delivered.   *)
Publish(c) ==
    /\ \/ /\ Goto(c, "publish", "await") /\ UNCHANGED outcome
          /\ published' = published \cup {c}
       \/ /\ Goto(c, "publish", "update") /\ Return(c, "publishError")
          /\ published' \in {published, published \cup {c}}
    /\ UNCHANGED <<ctxDone, record, chanVars, responses, handlerVars, cancelVars, panicked>>

(* The three cases of the select; Go picks any one that is ready.          *)
AwaitResponse(c) ==
    /\ Goto(c, "await", "update")
    /\ respChan[c] # NoMsg
    /\ Return(c, IF respChan[c].success THEN "success" ELSE "failed")
    /\ respChan' = [respChan EXCEPT ![c] = NoMsg]
    /\ UNCHANGED <<ctxDone, record, pendingCommands, closed, deviceVars,
                   handlerVars, cancelVars, panicked>>

(* Faulty variants: the timeout returns without the deferred clean-up, is  *)
(* followed by a retry of the same command, or was never armed.            *)
TimeoutSkipsCleanUp(c) ==
    /\ Goto(c, "await", "done") /\ Return(c, "timeout")
    /\ UNCHANGED <<ctxDone, record, chanVars, deviceVars, handlerVars, cancelVars, panicked>>

TimeoutRetries(c) ==
    /\ Goto(c, "await", "publish") /\ Return(c, "timeout")
    /\ UNCHANGED <<ctxDone, record, chanVars, deviceVars, handlerVars, cancelVars, panicked>>

TimeoutNotArmed(c) ==
    /\ ctxDone[c]
    /\ Goto(c, "await", "update") /\ Return(c, "timeout")
    /\ UNCHANGED <<ctxDone, record, chanVars, deviceVars, handlerVars, cancelVars, panicked>>

AwaitTimeout(c) ==
    /\ Goto(c, "await", "update") /\ Return(c, "timeout")
    /\ UNCHANGED <<ctxDone, record, chanVars, deviceVars, handlerVars, cancelVars, panicked>>

AwaitCtxDone(c) ==
    /\ ctxDone[c]
    /\ Goto(c, "await", "update") /\ Return(c, "canceled")
    /\ UNCHANGED <<ctxDone, record, chanVars, deviceVars, handlerVars, cancelVars, panicked>>

(* commandRepo.Update(ctx, record): UPDATE ... WHERE id = record.ID, which *)
(* changes nothing when the row was never created.                         *)
UpdateAs(c, v) ==
    /\ Goto(c, "update", "delete")
    /\ \E ok \in Stored(c) :
          record' = IF ok /\ record[c] # "absent" THEN [record EXCEPT ![c] = v] ELSE record
    /\ UNCHANGED <<ctxDone, outcome, chanVars, deviceVars, handlerVars, cancelVars, panicked>>

(* Faulty variants: the raw verdict is stored as the status, or the        *)
(* device's own success flag is not looked at.                             *)
UpdateStoresVerdict(c) == UpdateAs(c, outcome[c])
UpdateIgnoresSuccessFlag(c) ==
    UpdateAs(c, IF outcome[c] = "failed" THEN "success" ELSE CL!StatusOf(outcome[c]))

UpdateRecord(c) == UpdateAs(c, CL!StatusOf(outcome[c]))

(* The deferred clean-up: delete under the lock, close after it.           *)
DeletePending(c) ==
    /\ Goto(c, "delete", "close")
    /\ pendingCommands' = pendingCommands \ {c}
    /\ UNCHANGED <<ctxDone, outcome, record, respChan, closed, deviceVars,
                   handlerVars, cancelVars, panicked>>

CloseChannel(c) ==
    /\ Goto(c, "close", "done")
    /\ closed' = [closed EXCEPT ![c] = TRUE]
    /\ UNCHANGED <<ctxDone, outcome, record, pendingCommands, respChan, deviceVars,
                   handlerVars, cancelVars, panicked>>

(* The HTTP client goes away, or a deadline set by the caller passes.      *)
CancelContext(c) ==
    /\ pc[c] \notin {"idle", "done"} /\ ~ctxDone[c]
    /\ ctxDone' = [ctxDone EXCEPT ![c] = TRUE]
    /\ UNCHANGED <<pc, outcome, record, chanVars, deviceVars, handlerVars, cancelVars, panicked>>

-----------------------------------------------------------------------------
(* The device, and the goroutines that deliver its responses.              *)

DeviceReply(c, success) ==
    /\ c \in published
    /\ responses' = responses \cup {[commandId |-> c, success |-> success]}
    /\ UNCHANGED <<callVars, record, chanVars, published, handlerVars, cancelVars, panicked>>

(* Faulty variant: a response that matches no entry goes to some other.    *)
LookupAnyPending(h) ==
    /\ hpc[h] = "idle"
    /\ \E r \in responses, c \in pendingCommands :
          /\ hpc' = [hpc EXCEPT ![h] = "send"]
          /\ hmsg' = [hmsg EXCEPT ![h] = [r EXCEPT !.commandId = c]]
    /\ UNCHANGED <<callVars, record, chanVars, deviceVars, cancelVars, panicked>>

(* HandleCommandResponse finds the channel under the read lock.  Without   *)
(* an entry the response is dropped, which changes nothing.                *)
LookupPending(h) ==
    /\ hpc[h] = "idle"
    /\ \E r \in responses :
          /\ r.commandId \in pendingCommands
          /\ hpc' = [hpc EXCEPT ![h] = "send"]
          /\ hmsg' = [hmsg EXCEPT ![h] = r]
    /\ UNCHANGED <<callVars, record, chanVars, deviceVars, cancelVars, panicked>>

(* The non-blocking send that follows the lookup, outside the lock: it     *)
(* fills an empty slot, drops the message when the slot is full, and       *)
(* panics when the channel was closed in between.                          *)
SendResponse(h) ==
    /\ hpc[h] = "send"
    /\ LET c == hmsg[h].commandId IN
          /\ respChan' = IF ~closed[c] /\ respChan[c] = NoMsg
                         THEN [respChan EXCEPT ![c] = hmsg[h]] ELSE respChan
          /\ panicked' = closed[c]
    /\ hpc' = [hpc EXCEPT ![h] = "idle"]
    /\ hmsg' = [hmsg EXCEPT ![h] = NoMsg]
    /\ UNCHANGED <<callVars, record, pendingCommands, closed, deviceVars, cancelVars>>

-----------------------------------------------------------------------------
(* CancelCommand: read the row, refuse unless it is pending, then write.   *)
(* The read scans the maps of the row, so where they are refused nobody    *)
(* gets as far as the check.                                               *)

CancelRead(x) ==
    /\ xpc[x] = "idle"
    /\ TRUE \in MapColumns
    /\ \E c \in Commands :
          /\ record[c] = "pending"
          /\ xpc' = [xpc EXCEPT ![x] = "write"]
          /\ xcmd' = [xcmd EXCEPT ![x] = c]
    /\ UNCHANGED <<callVars, record, chanVars, deviceVars, handlerVars, panicked>>

CancelWrite(x) ==
    /\ xpc[x] = "write"
    /\ \E ok \in MapColumns :
          record' = IF ok THEN [record EXCEPT ![xcmd[x]] = "canceled"] ELSE record
    /\ xpc' = [xpc EXCEPT ![x] = "idle"]
    /\ xcmd' = [xcmd EXCEPT ![x] = NoMsg]
    /\ UNCHANGED <<callVars, chanVars, deviceVars, handlerVars, panicked>>

-----------------------------------------------------------------------------
Await(c) == AwaitResponse(c) \/ AwaitTimeout(c) \/ AwaitCtxDone(c)

SendCommand(c) ==
    \/ CheckOnline(c) \/ CreateRecord(c) \/ Register(c) \/ Publish(c)
    \/ Await(c) \/ UpdateRecord(c) \/ DeletePending(c) \/ CloseChannel(c)

HandleCommandResponse(h) == LookupPending(h) \/ SendResponse(h)

CancelCommand(x) == CancelRead(x) \/ CancelWrite(x)

Next ==
    /\ ~panicked
    /\ \/ \E c \in Commands : SendCommand(c) \/ CancelContext(c)
       \/ \E c \in Commands, success \in BOOLEAN : DeviceReply(c, success)
       \/ \E h \in Handlers : HandleCommandResponse(h)
       \/ \E x \in Cancelers : CancelCommand(x)

Spec == Init /\ [][Next]_vars

(* The Go scheduler runs every goroutine that can run, and a timer that is *)
(* armed fires: each call keeps taking steps.  Nothing makes a device      *)
(* answer, a caller give up or an operator cancel.                         *)
FairSpec == Spec /\ \A c \in Commands : WF_vars(~panicked /\ pc[c] # "idle" /\ SendCommand(c))
-----------------------------------------------------------------------------
(* The table and the calls agree: a call has an entry exactly from its     *)
(* registration to its deferred clean-up, whichever way the select went,   *)
(* so no return path leaks an entry; and an entry's channel is open, so a  *)
(* handler that looked it up under the lock got a usable channel.          *)
TableTracksCalls ==
    \A c \in Commands :
        /\ c \in pendingCommands <=> pc[c] \in {"publish", "await", "update", "delete"}
        /\ c \in pendingCommands => ~closed[c]

(* A caller is told "success" or "failed" only because its own device      *)
(* answered this very command so, however late, duplicated or reordered    *)
(* the responses of all the commands arrive and whichever handlers carry   *)
(* them.                                                                   *)
VerdictFromDevice ==
    \A c \in Commands : outcome[c] \in {"success", "failed"} =>
        [commandId |-> c, success |-> outcome[c] = "success"] \in responses

(* The history never invents a result: a row that reads success, failed or *)
(* timeout carries the verdict the caller was given.                       *)
HistoryTellsVerdict ==
    \A c \in Commands : record[c] \in {"success", "failed", "timeout"} =>
        record[c] = CL!StatusOf(outcome[c])

(* The service implements what it promises about one command, as long as   *)
(* no CancelCommand gets to its write.                                     *)
ImplementsLifecycle == CL!LifecycleSpec

(* Every call returns, although devices may never answer: the timeout and  *)
(* the clean-up see to it.  (A process that has panicked runs nothing.)    *)
CallReturns == \A c \in Commands : pc[c] = "create" ~> pc[c] = "done" \/ panicked

(* What a response that arrives too late must come to: the default branch  *)
(* of HandleCommandResponse, a warning.  The code does not keep this.      *)
LateResponseIsDropped == ~panicked
=============================================================================
