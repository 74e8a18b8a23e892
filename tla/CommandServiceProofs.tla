------------------------ MODULE CommandServiceProofs ------------------------
(***************************************************************************)
(* Proofs about CommandService, for any number of commands, handlers and   *)
(* cancelers, with statements that are refused because of the maps they    *)
(* carry, or that may succeed or fail.                                     *)
(***************************************************************************)
EXTENDS CommandService, TLAPS

BeforeVerdict == {"idle", "create", "register", "publish", "await"}
Registered    == {"publish", "await", "update", "delete"}
RowWritable   == {"register", "publish", "await", "update"}

(* A message on its way, in a handler's hands or in a channel, is one that *)
(* a device sent, and a channel only ever holds answers to its own command.*)
MessagesGenuine ==
    /\ \A h \in Handlers : hpc[h] = "send" => hmsg[h] \in responses
    /\ \A c \in Commands : respChan[c] # NoMsg =>
          respChan[c] \in responses /\ respChan[c].commandId = c

(* A call has its verdict exactly from the select (or the failed check or  *)
(* publish) on; only a call that ended closes its channel.                 *)
VerdictInv ==
    \A c \in Commands :
        /\ pc[c] \in BeforeVerdict <=> outcome[c] = "none"
        /\ outcome[c] = "offline" => pc[c] = "done"
        /\ closed[c] => pc[c] = "done"

(* The row before the call's own final update: nothing yet, pending, or    *)
(* canceled by an operator, who can only have found it when it existed.    *)
RowInv ==
    /\ \A c \in Commands :
          /\ pc[c] \in {"idle", "create"} => record[c] = "absent"
          /\ pc[c] \in RowWritable => record[c] \in {"absent", "pending", "canceled"}
          /\ pc[c] \in RowWritable /\ record[c] = "canceled" => Cancelers # {}
          /\ outcome[c] = "offline" => record[c] = "absent"
    /\ \A x \in Cancelers : xpc[x] = "write" =>
          xcmd[x] \in Commands /\ record[xcmd[x]] # "absent"

IInv ==
    /\ TypeOK
    /\ TableTracksCalls
    /\ MessagesGenuine
    /\ VerdictFromDevice
    /\ VerdictInv
    /\ RowInv
    /\ HistoryTellsVerdict
-----------------------------------------------------------------------------
LEMMA InitIInv == Init => IInv
<1> SUFFICES ASSUME Init PROVE IInv
  OBVIOUS
<1> USE DEF Init
<1>1. TypeOK
  BY DEF TypeOK, Labels, CL!Verdicts, CL!Statuses, CL!Final
<1>2. TableTracksCalls /\ VerdictInv /\ RowInv
  BY DEF TableTracksCalls, VerdictInv, RowInv, BeforeVerdict, RowWritable
<1>3. MessagesGenuine /\ VerdictFromDevice /\ HistoryTellsVerdict
  BY DEF MessagesGenuine, VerdictFromDevice, HistoryTellsVerdict
<1>4. QED
  BY <1>1, <1>2, <1>3 DEF IInv

LEMMA CheckOnlineStep ==
  ASSUME IInv, NEW c \in Commands, CheckOnline(c)
  PROVE  IInv'
<1> USE DEF IInv, TypeOK, CheckOnline, Goto, Return, callVars, chanVars, deviceVars, handlerVars, cancelVars
<1>1. TypeOK'
  BY NoMsgAssumption DEF Labels, CL!Verdicts, CL!Statuses, CL!Final, CL!StatusOf, Responses
<1>2. TableTracksCalls' /\ VerdictInv'
  BY DEF TableTracksCalls, VerdictInv, Labels, BeforeVerdict
<1>3. MessagesGenuine' /\ VerdictFromDevice'
  BY NoMsgAssumption DEF MessagesGenuine, VerdictFromDevice, VerdictInv, Responses, BeforeVerdict
<1>4. RowInv' /\ HistoryTellsVerdict'
  BY DEF RowInv, HistoryTellsVerdict, VerdictInv, RowWritable, BeforeVerdict, CL!StatusOf, CL!Verdicts, CL!Final
<1>5. QED
  BY <1>1, <1>2, <1>3, <1>4

LEMMA CreateRecordStep ==
  ASSUME IInv, NEW c \in Commands, CreateRecord(c)
  PROVE  IInv'
<1> USE DEF IInv, TypeOK, CreateRecord, Goto, callVars, chanVars, deviceVars, handlerVars, cancelVars
<1>1. TypeOK'
  BY NoMsgAssumption DEF Labels, CL!Verdicts, CL!Statuses, CL!Final, CL!StatusOf, Responses
<1>2. TableTracksCalls' /\ VerdictInv'
  BY DEF TableTracksCalls, VerdictInv, Labels, BeforeVerdict
<1>3. MessagesGenuine' /\ VerdictFromDevice'
  BY NoMsgAssumption DEF MessagesGenuine, VerdictFromDevice, VerdictInv, Responses, BeforeVerdict
<1>4. RowInv' /\ HistoryTellsVerdict'
  BY DEF RowInv, HistoryTellsVerdict, VerdictInv, RowWritable, BeforeVerdict, CL!StatusOf, CL!Verdicts, CL!Final
<1>5. QED
  BY <1>1, <1>2, <1>3, <1>4

LEMMA RegisterStep ==
  ASSUME IInv, NEW c \in Commands, Register(c)
  PROVE  IInv'
<1> USE DEF IInv, TypeOK, Register, Goto, callVars, chanVars, deviceVars, handlerVars, cancelVars
<1>1. TypeOK'
  BY NoMsgAssumption DEF Labels, CL!Verdicts, CL!Statuses, CL!Final, CL!StatusOf, Responses
<1>2. TableTracksCalls' /\ VerdictInv'
  BY DEF TableTracksCalls, VerdictInv, Labels, BeforeVerdict
<1>3. MessagesGenuine' /\ VerdictFromDevice'
  BY NoMsgAssumption DEF MessagesGenuine, VerdictFromDevice, VerdictInv, Responses, BeforeVerdict
<1>4. RowInv' /\ HistoryTellsVerdict'
  BY DEF RowInv, HistoryTellsVerdict, VerdictInv, RowWritable, BeforeVerdict, CL!StatusOf, CL!Verdicts, CL!Final
<1>5. QED
  BY <1>1, <1>2, <1>3, <1>4

LEMMA PublishStep ==
  ASSUME IInv, NEW c \in Commands, Publish(c)
  PROVE  IInv'
<1> USE DEF IInv, TypeOK, Publish, Goto, Return, callVars, chanVars, deviceVars, handlerVars, cancelVars
<1>1. TypeOK'
  BY NoMsgAssumption DEF Labels, CL!Verdicts, CL!Statuses, CL!Final, CL!StatusOf, Responses
<1>2. TableTracksCalls' /\ VerdictInv'
  BY DEF TableTracksCalls, VerdictInv, Labels, BeforeVerdict
<1>3. MessagesGenuine' /\ VerdictFromDevice'
  BY NoMsgAssumption DEF MessagesGenuine, VerdictFromDevice, VerdictInv, Responses, BeforeVerdict
<1>4. RowInv' /\ HistoryTellsVerdict'
  BY DEF RowInv, HistoryTellsVerdict, VerdictInv, RowWritable, BeforeVerdict, CL!StatusOf, CL!Verdicts, CL!Final
<1>5. QED
  BY <1>1, <1>2, <1>3, <1>4

LEMMA AwaitResponseStep ==
  ASSUME IInv, NEW c \in Commands, AwaitResponse(c)
  PROVE  IInv'
<1> USE DEF IInv, TypeOK, AwaitResponse, Goto, Return, callVars, chanVars, deviceVars, handlerVars, cancelVars
<1>1. TypeOK'
  BY NoMsgAssumption DEF Labels, CL!Verdicts, CL!Statuses, CL!Final, CL!StatusOf, Responses
<1>2. TableTracksCalls' /\ VerdictInv'
  BY DEF TableTracksCalls, VerdictInv, Labels, BeforeVerdict
<1>3. MessagesGenuine' /\ VerdictFromDevice'
  BY NoMsgAssumption DEF MessagesGenuine, VerdictFromDevice, VerdictInv, Responses, BeforeVerdict
<1>4. RowInv' /\ HistoryTellsVerdict'
  BY DEF RowInv, HistoryTellsVerdict, VerdictInv, RowWritable, BeforeVerdict, CL!StatusOf, CL!Verdicts, CL!Final
<1>5. QED
  BY <1>1, <1>2, <1>3, <1>4

LEMMA AwaitTimeoutStep ==
  ASSUME IInv, NEW c \in Commands, AwaitTimeout(c)
  PROVE  IInv'
<1> USE DEF IInv, TypeOK, AwaitTimeout, Goto, Return, callVars, chanVars, deviceVars, handlerVars, cancelVars
<1>1. TypeOK'
  BY NoMsgAssumption DEF Labels, CL!Verdicts, CL!Statuses, CL!Final, CL!StatusOf, Responses
<1>2. TableTracksCalls' /\ VerdictInv'
  BY DEF TableTracksCalls, VerdictInv, Labels, BeforeVerdict
<1>3. MessagesGenuine' /\ VerdictFromDevice'
  BY NoMsgAssumption DEF MessagesGenuine, VerdictFromDevice, VerdictInv, Responses, BeforeVerdict
<1>4. RowInv' /\ HistoryTellsVerdict'
  BY DEF RowInv, HistoryTellsVerdict, VerdictInv, RowWritable, BeforeVerdict, CL!StatusOf, CL!Verdicts, CL!Final
<1>5. QED
  BY <1>1, <1>2, <1>3, <1>4

LEMMA AwaitCtxDoneStep ==
  ASSUME IInv, NEW c \in Commands, AwaitCtxDone(c)
  PROVE  IInv'
<1> USE DEF IInv, TypeOK, AwaitCtxDone, Goto, Return, callVars, chanVars, deviceVars, handlerVars, cancelVars
<1>1. TypeOK'
  BY NoMsgAssumption DEF Labels, CL!Verdicts, CL!Statuses, CL!Final, CL!StatusOf, Responses
<1>2. TableTracksCalls' /\ VerdictInv'
  BY DEF TableTracksCalls, VerdictInv, Labels, BeforeVerdict
<1>3. MessagesGenuine' /\ VerdictFromDevice'
  BY NoMsgAssumption DEF MessagesGenuine, VerdictFromDevice, VerdictInv, Responses, BeforeVerdict
<1>4. RowInv' /\ HistoryTellsVerdict'
  BY DEF RowInv, HistoryTellsVerdict, VerdictInv, RowWritable, BeforeVerdict, CL!StatusOf, CL!Verdicts, CL!Final
<1>5. QED
  BY <1>1, <1>2, <1>3, <1>4

LEMMA UpdateRecordStep ==
  ASSUME IInv, NEW c \in Commands, UpdateRecord(c)
  PROVE  IInv'
<1> USE DEF IInv, TypeOK, UpdateRecord, UpdateAs, Goto, callVars, chanVars, deviceVars, handlerVars, cancelVars
<1>0. CL!StatusOf(outcome[c]) \in CL!Statuses
  BY DEF CL!StatusOf, CL!Verdicts, CL!Statuses, CL!Final, VerdictInv, BeforeVerdict
<1>1. TypeOK'
  BY <1>0 DEF Labels, CL!Verdicts, CL!Statuses, CL!Final, CL!StatusOf, Responses
<1>2. TableTracksCalls' /\ VerdictInv'
  BY DEF TableTracksCalls, VerdictInv, Labels, BeforeVerdict
<1>3. MessagesGenuine' /\ VerdictFromDevice'
  BY NoMsgAssumption DEF MessagesGenuine, VerdictFromDevice, VerdictInv, Responses, BeforeVerdict
<1>4. RowInv' /\ HistoryTellsVerdict'
  BY DEF RowInv, HistoryTellsVerdict, VerdictInv, RowWritable, BeforeVerdict, CL!StatusOf, CL!Verdicts, CL!Final
<1>5. QED
  BY <1>1, <1>2, <1>3, <1>4

LEMMA DeletePendingStep ==
  ASSUME IInv, NEW c \in Commands, DeletePending(c)
  PROVE  IInv'
<1> USE DEF IInv, TypeOK, DeletePending, Goto, callVars, chanVars, deviceVars, handlerVars, cancelVars
<1>1. TypeOK'
  BY NoMsgAssumption DEF Labels, CL!Verdicts, CL!Statuses, CL!Final, CL!StatusOf, Responses
<1>2. TableTracksCalls' /\ VerdictInv'
  BY DEF TableTracksCalls, VerdictInv, Labels, BeforeVerdict
<1>3. MessagesGenuine' /\ VerdictFromDevice'
  BY NoMsgAssumption DEF MessagesGenuine, VerdictFromDevice, VerdictInv, Responses, BeforeVerdict
<1>4. RowInv' /\ HistoryTellsVerdict'
  BY DEF RowInv, HistoryTellsVerdict, VerdictInv, RowWritable, BeforeVerdict, CL!StatusOf, CL!Verdicts, CL!Final
<1>5. QED
  BY <1>1, <1>2, <1>3, <1>4

LEMMA CloseChannelStep ==
  ASSUME IInv, NEW c \in Commands, CloseChannel(c)
  PROVE  IInv'
<1> USE DEF IInv, TypeOK, CloseChannel, Goto, callVars, chanVars, deviceVars, handlerVars, cancelVars
<1>1. TypeOK'
  BY NoMsgAssumption DEF Labels, CL!Verdicts, CL!Statuses, CL!Final, CL!StatusOf, Responses
<1>2. TableTracksCalls' /\ VerdictInv'
  BY DEF TableTracksCalls, VerdictInv, Labels, BeforeVerdict
<1>3. MessagesGenuine' /\ VerdictFromDevice'
  BY NoMsgAssumption DEF MessagesGenuine, VerdictFromDevice, VerdictInv, Responses, BeforeVerdict
<1>4. RowInv' /\ HistoryTellsVerdict'
  BY DEF RowInv, HistoryTellsVerdict, VerdictInv, RowWritable, BeforeVerdict, CL!StatusOf, CL!Verdicts, CL!Final
<1>5. QED
  BY <1>1, <1>2, <1>3, <1>4

LEMMA CancelContextStep ==
  ASSUME IInv, NEW c \in Commands, CancelContext(c)
  PROVE  IInv'
<1> USE DEF IInv, TypeOK, CancelContext, callVars, chanVars, deviceVars, handlerVars, cancelVars
<1>1. TypeOK'
  BY NoMsgAssumption DEF Labels, CL!Verdicts, CL!Statuses, CL!Final, CL!StatusOf, Responses
<1>2. TableTracksCalls' /\ VerdictInv'
  BY DEF TableTracksCalls, VerdictInv, Labels, BeforeVerdict
<1>3. MessagesGenuine' /\ VerdictFromDevice'
  BY NoMsgAssumption DEF MessagesGenuine, VerdictFromDevice, VerdictInv, Responses, BeforeVerdict
<1>4. RowInv' /\ HistoryTellsVerdict'
  BY DEF RowInv, HistoryTellsVerdict, VerdictInv, RowWritable, BeforeVerdict, CL!StatusOf, CL!Verdicts, CL!Final
<1>5. QED
  BY <1>1, <1>2, <1>3, <1>4

LEMMA DeviceReplyStep ==
  ASSUME IInv, NEW c \in Commands, NEW success \in BOOLEAN, DeviceReply(c, success)
  PROVE  IInv'
<1> USE DEF IInv, TypeOK, DeviceReply, callVars, chanVars, deviceVars, handlerVars, cancelVars
<1>1. TypeOK'
  BY NoMsgAssumption DEF Labels, CL!Verdicts, CL!Statuses, CL!Final, CL!StatusOf, Responses
<1>2. TableTracksCalls' /\ VerdictInv'
  BY DEF TableTracksCalls, VerdictInv, Labels, BeforeVerdict
<1>3. MessagesGenuine' /\ VerdictFromDevice'
  BY NoMsgAssumption DEF MessagesGenuine, VerdictFromDevice, VerdictInv, Responses, BeforeVerdict
<1>4. RowInv' /\ HistoryTellsVerdict'
  BY DEF RowInv, HistoryTellsVerdict, VerdictInv, RowWritable, BeforeVerdict, CL!StatusOf, CL!Verdicts, CL!Final
<1>5. QED
  BY <1>1, <1>2, <1>3, <1>4

LEMMA LookupPendingStep ==
  ASSUME IInv, NEW h \in Handlers, LookupPending(h)
  PROVE  IInv'
<1> USE DEF IInv, TypeOK, LookupPending, callVars, chanVars, deviceVars, handlerVars, cancelVars
<1>1. TypeOK'
  BY NoMsgAssumption DEF Labels, CL!Verdicts, CL!Statuses, CL!Final, CL!StatusOf, Responses
<1>2. TableTracksCalls' /\ VerdictInv'
  BY DEF TableTracksCalls, VerdictInv, Labels, BeforeVerdict
<1>3. MessagesGenuine' /\ VerdictFromDevice'
  BY NoMsgAssumption DEF MessagesGenuine, VerdictFromDevice, VerdictInv, Responses, BeforeVerdict
<1>4. RowInv' /\ HistoryTellsVerdict'
  BY DEF RowInv, HistoryTellsVerdict, VerdictInv, RowWritable, BeforeVerdict, CL!StatusOf, CL!Verdicts, CL!Final
<1>5. QED
  BY <1>1, <1>2, <1>3, <1>4

LEMMA SendResponseStep ==
  ASSUME IInv, NEW h \in Handlers, SendResponse(h)
  PROVE  IInv'
<1> USE DEF IInv, TypeOK, SendResponse, callVars, chanVars, deviceVars, handlerVars, cancelVars
<1>0. hmsg[h] \in Responses /\ hmsg[h].commandId \in Commands
  BY DEF MessagesGenuine, Responses
<1>1. TypeOK'
  BY <1>0 
<1>2. TableTracksCalls' /\ VerdictInv'
  BY DEF TableTracksCalls, VerdictInv, Labels, BeforeVerdict
<1>3. MessagesGenuine' /\ VerdictFromDevice'
  BY NoMsgAssumption DEF MessagesGenuine, VerdictFromDevice, VerdictInv, Responses, BeforeVerdict
<1>4. RowInv' /\ HistoryTellsVerdict'
  BY DEF RowInv, HistoryTellsVerdict, VerdictInv, RowWritable, BeforeVerdict, CL!StatusOf, CL!Verdicts, CL!Final
<1>5. QED
  BY <1>1, <1>2, <1>3, <1>4

LEMMA CancelReadStep ==
  ASSUME IInv, NEW x \in Cancelers, CancelRead(x)
  PROVE  IInv'
<1> USE DEF IInv, TypeOK, CancelRead, callVars, chanVars, deviceVars, handlerVars, cancelVars
<1>1. TypeOK'
  BY NoMsgAssumption DEF Labels, CL!Verdicts, CL!Statuses, CL!Final, CL!StatusOf, Responses
<1>2. TableTracksCalls' /\ VerdictInv'
  BY DEF TableTracksCalls, VerdictInv, Labels, BeforeVerdict
<1>3. MessagesGenuine' /\ VerdictFromDevice'
  BY NoMsgAssumption DEF MessagesGenuine, VerdictFromDevice, VerdictInv, Responses, BeforeVerdict
<1>4. RowInv' /\ HistoryTellsVerdict'
  BY DEF RowInv, HistoryTellsVerdict, VerdictInv, RowWritable, BeforeVerdict, CL!StatusOf, CL!Verdicts, CL!Final
<1>5. QED
  BY <1>1, <1>2, <1>3, <1>4

LEMMA CancelWriteStep ==
  ASSUME IInv, NEW x \in Cancelers, CancelWrite(x)
  PROVE  IInv'
<1> USE DEF IInv, TypeOK, CancelWrite, callVars, chanVars, deviceVars, handlerVars, cancelVars
<1>1. TypeOK'
  BY NoMsgAssumption DEF Labels, CL!Verdicts, CL!Statuses, CL!Final, CL!StatusOf, Responses
<1>2. TableTracksCalls' /\ VerdictInv'
  BY DEF TableTracksCalls, VerdictInv, Labels, BeforeVerdict
<1>3. MessagesGenuine' /\ VerdictFromDevice'
  BY NoMsgAssumption DEF MessagesGenuine, VerdictFromDevice, VerdictInv, Responses, BeforeVerdict
<1>4. RowInv' /\ HistoryTellsVerdict'
  BY DEF RowInv, HistoryTellsVerdict, VerdictInv, RowWritable, BeforeVerdict, CL!StatusOf, CL!Verdicts, CL!Final
<1>5. QED
  BY <1>1, <1>2, <1>3, <1>4
-----------------------------------------------------------------------------
LEMMA StutterStep == IInv /\ UNCHANGED vars => IInv'
<1> SUFFICES ASSUME IInv, UNCHANGED vars PROVE IInv'
  OBVIOUS
<1> USE DEF IInv, vars, callVars, chanVars, deviceVars, handlerVars, cancelVars
<1>1. TypeOK' /\ TableTracksCalls' /\ MessagesGenuine' /\ VerdictFromDevice'
  BY DEF TypeOK, TableTracksCalls, MessagesGenuine, VerdictFromDevice
<1>2. VerdictInv' /\ RowInv' /\ HistoryTellsVerdict'
  BY DEF VerdictInv, RowInv, HistoryTellsVerdict
<1>3. QED
  BY <1>1, <1>2

(* IInv is inductive: every action of every goroutine preserves it.        *)
LEMMA NextIInv == IInv /\ [Next]_vars => IInv'
<1> SUFFICES ASSUME IInv, [Next]_vars PROVE IInv'
  OBVIOUS
<1>1. ASSUME NEW c \in Commands, SendCommand(c) PROVE IInv'
  BY <1>1, CheckOnlineStep, CreateRecordStep, RegisterStep, PublishStep, AwaitResponseStep,
     AwaitTimeoutStep, AwaitCtxDoneStep, UpdateRecordStep, DeletePendingStep,
     CloseChannelStep DEF SendCommand, Await
<1>2. ASSUME NEW c \in Commands, CancelContext(c) PROVE IInv'
  BY <1>2, CancelContextStep
<1>3. ASSUME NEW c \in Commands, NEW success \in BOOLEAN, DeviceReply(c, success) PROVE IInv'
  BY <1>3, DeviceReplyStep
<1>4. ASSUME NEW h \in Handlers, HandleCommandResponse(h) PROVE IInv'
  BY <1>4, LookupPendingStep, SendResponseStep DEF HandleCommandResponse
<1>5. ASSUME NEW x \in Cancelers, CancelCommand(x) PROVE IInv'
  BY <1>5, CancelReadStep, CancelWriteStep DEF CancelCommand
<1>6. CASE UNCHANGED vars
  BY <1>6, StutterStep
<1>7. QED
  BY <1>1, <1>2, <1>3, <1>4, <1>5, <1>6 DEF Next

(* Every reachable state of the service satisfies the inductive invariant. *)
THEOREM Invariance == Spec => []IInv
  BY InitIInv, NextIInv, PTL DEF Spec

(* The state of the service always has its type.                           *)
THEOREM TypeCorrect == Spec => []TypeOK
<1>1. IInv => TypeOK
  BY DEF IInv
<1>2. QED
  BY <1>1, Invariance, PTL

(* The table pendingCommands holds exactly the calls between registration  *)
(* and clean-up, each with an open channel: no return path of SendCommand  *)
(* leaks an entry.                                                         *)
THEOREM TableSafety == Spec => []TableTracksCalls
<1>1. IInv => TableTracksCalls
  BY DEF IInv
<1>2. QED
  BY <1>1, Invariance, PTL

(* No caller is told a result its own device did not send for this very    *)
(* command, whatever is duplicated, delayed or reordered.                  *)
THEOREM VerdictSafety == Spec => []VerdictFromDevice
<1>1. IInv => VerdictFromDevice
  BY DEF IInv
<1>2. QED
  BY <1>1, Invariance, PTL

(* A history row never shows a result other than the caller's verdict.     *)
THEOREM HistorySafety == Spec => []HistoryTellsVerdict
<1>1. IInv => HistoryTellsVerdict
  BY DEF IInv
<1>2. QED
  BY <1>1, Invariance, PTL
-----------------------------------------------------------------------------
(* With drivers that refuse maps the history stays empty and no            *)
(* CancelCommand gets past its read.                                       *)
NothingStored ==
    /\ \A c \in Commands : record[c] = "absent"
    /\ \A x \in Cancelers : xpc[x] = "idle"

LEMMA NextNothingStored ==
  ASSUME MapColumns = {FALSE}, TypeOK, NothingStored, [Next]_vars
  PROVE  NothingStored'
<1> USE DEF NothingStored, TypeOK
<1>1. ASSUME NEW c \in Commands, CreateRecord(c) PROVE NothingStored'
  <2>1. \A ok \in Stored(c) : ok = FALSE
    BY DEF Stored
  <2>2. record' = record /\ xpc' = xpc
    BY <1>1, <2>1 DEF CreateRecord, cancelVars
  <2>3. QED
    BY <2>2
<1>2. ASSUME NEW c \in Commands, UpdateRecord(c) PROVE NothingStored'
  <2>1. \A ok \in Stored(c) : ok = FALSE
    BY DEF Stored
  <2>2. record' = record /\ xpc' = xpc
    BY <1>2, <2>1 DEF UpdateRecord, UpdateAs, cancelVars
  <2>3. QED
    BY <2>2
<1>3. ASSUME NEW c \in Commands, \/ CheckOnline(c) \/ Register(c) \/ Publish(c) \/ Await(c)
                                 \/ DeletePending(c) \/ CloseChannel(c) \/ CancelContext(c)
      PROVE  NothingStored'
  BY <1>3 DEF CheckOnline, Register, Publish, Await, AwaitResponse, AwaitTimeout,
              AwaitCtxDone, DeletePending, CloseChannel, CancelContext, cancelVars
<1>4. ASSUME NEW c \in Commands, NEW success \in BOOLEAN, DeviceReply(c, success)
      PROVE  NothingStored'
  BY <1>4 DEF DeviceReply, cancelVars
<1>5. ASSUME NEW h \in Handlers, HandleCommandResponse(h) PROVE NothingStored'
  BY <1>5 DEF HandleCommandResponse, LookupPending, SendResponse, cancelVars
<1>6. ASSUME NEW x \in Cancelers, CancelCommand(x) PROVE NothingStored'
  BY <1>6 DEF CancelCommand, CancelRead, CancelWrite
<1>7. CASE UNCHANGED vars
  BY <1>7 DEF vars, cancelVars
<1>8. QED
  BY <1>1, <1>2, <1>3, <1>4, <1>5, <1>6, <1>7 DEF Next, SendCommand

(* What the code does with the drivers it is built with: the history of    *)
(* commands is empty, whatever is sent, answered and canceled.             *)
THEOREM NothingRecorded ==
  ASSUME MapColumns = {FALSE}
  PROVE  Spec => []NothingStored
<1>1. Init => NothingStored
  BY DEF Init, NothingStored
<1>2. TypeOK /\ NothingStored /\ [Next]_vars => NothingStored'
  BY NextNothingStored
<1>3. QED
  BY <1>1, <1>2, TypeCorrect, PTL DEF Spec

(* A step of the service is a step of the lifecycle or leaves it alone.    *)
LEMMA StepRefines ==
  ASSUME Cancelers = {} \/ NothingStored, IInv, [Next]_vars
  PROVE  [CL!LifecycleNext]_(CL!lifecycleVars)
<1> USE DEF CL!lifecycleVars, CL!LifecycleNext, Goto, Return
<1>1. ASSUME NEW c \in Commands, CheckOnline(c) \/ Publish(c) \/ Await(c)
      PROVE  CL!Decide(c) \/ UNCHANGED <<record, outcome>>
  <2>1. (pc[c] \in BeforeVerdict /\ pc'[c] # "done") \/ pc[c] = "idle"
    BY <1>1 DEF CheckOnline, Publish, Await, AwaitResponse, AwaitTimeout, AwaitCtxDone,
                BeforeVerdict, IInv, TypeOK
  <2>2. outcome[c] = "none" /\ (pc[c] = "idle" => record[c] = "absent")
    BY <2>1 DEF IInv, VerdictInv, RowInv, BeforeVerdict
  <2>3. QED
    BY <1>1, <2>2 DEF CheckOnline, Publish, Await, AwaitResponse, AwaitTimeout, AwaitCtxDone,
                CL!Decide, CL!Verdicts, CL!Final
<1>2. ASSUME NEW c \in Commands, CreateRecord(c)
      PROVE  CL!Accept(c) \/ UNCHANGED <<record, outcome>>
  <2>1. record[c] = "absent" /\ outcome[c] = "none"
    BY <1>2 DEF CreateRecord, IInv, RowInv, VerdictInv, BeforeVerdict
  <2>2. QED
    BY <1>2, <2>1 DEF CreateRecord, CL!Accept
<1>3. ASSUME NEW c \in Commands, UpdateRecord(c)
      PROVE  CL!Complete(c) \/ UNCHANGED <<record, outcome>>
  <2>1. pc[c] = "update" /\ record[c] \in {"absent", "pending"}
    BY <1>3 DEF UpdateRecord, UpdateAs, IInv, RowInv, RowWritable, NothingStored
  <2>2. outcome[c] \notin {"none", "offline"}
    BY <2>1 DEF IInv, VerdictInv, BeforeVerdict
  <2>3. QED
    BY <1>3, <2>1, <2>2 DEF UpdateRecord, UpdateAs, CL!Complete
<1>4. ASSUME NEW c \in Commands,
             Register(c) \/ DeletePending(c) \/ CloseChannel(c) \/ CancelContext(c)
      PROVE  UNCHANGED <<record, outcome>>
  BY <1>4 DEF Register, DeletePending, CloseChannel, CancelContext
<1>5. ASSUME NEW c \in Commands, NEW success \in BOOLEAN, DeviceReply(c, success)
      PROVE  UNCHANGED <<record, outcome>>
  BY <1>5 DEF DeviceReply, callVars
<1>6. ASSUME NEW h \in Handlers, HandleCommandResponse(h) PROVE UNCHANGED <<record, outcome>>
  BY <1>6 DEF HandleCommandResponse, LookupPending, SendResponse, callVars
<1>7. CASE UNCHANGED vars
  BY <1>7 DEF vars, callVars
<1>8. ASSUME NEW x \in Cancelers, CancelCommand(x) PROVE UNCHANGED <<record, outcome>>
  BY <1>8 DEF CancelCommand, CancelRead, CancelWrite, NothingStored, callVars
<1>9. QED
  BY <1>1, <1>2, <1>3, <1>4, <1>5, <1>6, <1>7, <1>8 DEF Next, SendCommand

(* When no CancelCommand gets to its write, because there is none or       *)
(* because the rows cannot be read, the service implements its lifecycle:  *)
(* one verdict per call, and at most one final status per row, the         *)
(* verdict's own.                                                          *)
THEOREM Refinement ==
  ASSUME Cancelers = {} \/ MapColumns = {FALSE}
  PROVE  Spec => ImplementsLifecycle
<1>1. Init => CL!LifecycleInit
  BY DEF Init, CL!LifecycleInit
<1>2. CASE Cancelers = {}
  <2>1. IInv /\ [Next]_vars => [CL!LifecycleNext]_(CL!lifecycleVars)
    BY <1>2, StepRefines
  <2>2. QED
    BY <1>1, <2>1, Invariance, PTL DEF Spec, ImplementsLifecycle, CL!LifecycleSpec
<1>3. CASE MapColumns = {FALSE}
  <2>1. Spec => []NothingStored
    BY <1>3, NothingRecorded
  <2>2. IInv /\ NothingStored /\ [Next]_vars => [CL!LifecycleNext]_(CL!lifecycleVars)
    BY StepRefines
  <2>3. QED
    BY <1>1, <2>1, <2>2, Invariance, PTL DEF Spec, ImplementsLifecycle, CL!LifecycleSpec
<1>4. QED
  BY <1>2, <1>3
=============================================================================
