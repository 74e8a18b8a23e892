--------------------------- MODULE MqttLinkProofs ---------------------------
(***************************************************************************)
(* Proofs about MqttLink, for any filters, topics and calls: its types;    *)
(* that the table of waiting calls follows them and is left clean; that a  *)
(* command reported as sent was taken by the broker; and that with the     *)
(* filter the hub subscribes, which has a wildcard and so is no topic, no  *)
(* call is ever answered.                                                  *)
(***************************************************************************)
EXTENDS MqttLink, TLAPS

(* Connect stores the handlers in the order of the filters, each before it *)
(* subscribes, and has stored all of them when it returns.                 *)
BootInv ==
    /\ boot \in {"new", "wait"} => next = 1
    /\ boot \in {"store", "subscribe"} => next \in 1..Len(Filters)
    /\ boot \in {"ready", "stopped"} => next = Len(Filters) + 1
    /\ \A i \in 1..Len(Filters) : i < next => Filters[i] \in handlers
    /\ boot = "subscribe" => Filters[next] \in handlers

(* Calls begin when Connect has returned; one that has published is in the *)
(* table until it takes itself out, and only so long.                      *)
TableInv ==
    /\ \A c \in Commands : pc[c] # "idle" => boot \in {"ready", "stopped"}
    /\ TableFollowsCalls
    /\ \A c \in AsyncCalls : pc[c] \in {"idle", "publish", "ack", "done"}

(* A call waits, for the broker or the device, only once it has published. *)
SentInv ==
    /\ \A c \in Commands : pc[c] \in {"ack", "await"} => c \in published
    /\ SentReachedBroker

LinkInv == TypeOK /\ BootInv /\ TableInv /\ SentInv

(* No answer is in a channel, and no call has one.                         *)
NothingAnswered == slot = {} /\ \A c \in Calls : outcome[c] # "answered"

-----------------------------------------------------------------------------
LEMMA FilterSequence ==
    /\ Len(Filters) \in Nat \ {0}
    /\ \A f \in Range(Filters) : \E i \in 1..Len(Filters) : Filters[i] = f
    /\ \A i \in 1..Len(Filters) : Filters[i] \in Range(Filters)
<1>1. /\ Len(Filters) \in Nat /\ DOMAIN Filters = 1..Len(Filters)
      /\ Filters \in [1..Len(Filters) -> Range(Filters)]
  BY FiltersAssumption DEF FiltersAssumption
<1>2. Len(Filters) # 0
  BY FiltersAssumption DEF FiltersAssumption
<1>3. QED
  BY <1>1, <1>2 DEF Range

LEMMA InitLinkInv == Init => LinkInv
<1> SUFFICES ASSUME Init PROVE LinkInv
  OBVIOUS
<1> USE FilterSequence DEF Init
<1>1. next \in 1..(Len(Filters) + 1) /\ session \subseteq Valid /\ connected \in BOOLEAN
  <2>1. next = 1 /\ Len(Filters) \in Nat
    BY FilterSequence
  <2>2. next \in 1..(Len(Filters) + 1)
    BY <2>1
  <2>3. session = {} \/ session = Valid
    OBVIOUS
  <2>4. session \subseteq Valid
    BY <2>3
  <2>5. QED
    BY <2>2, <2>4
<1>2. TypeOK
  BY <1>1 DEF TypeOK
<1>3. BootInv /\ TableInv /\ SentInv
  BY DEF BootInv, TableInv, TableFollowsCalls, SentInv, SentReachedBroker, Commands
<1>4. QED
  BY <1>2, <1>3 DEF LinkInv

(* The connection and the steps of Connect.                                *)
LEMMA LinkSteps ==
    ASSUME LinkInv,
           \/ Connect \/ Disconnect
           \/ ConnectionUp \/ ConnectionDown \/ Callback \/ SessionExpires
    PROVE  LinkInv'
<1> USE FilterSequence DEF LinkInv, TableFollowsCalls, SentInv, SentReachedBroker
<1>1. CASE NewConnection \/ AwaitConnection \/ Disconnect
  BY <1>1 DEF NewConnection, AwaitConnection, Disconnect, TypeOK, BootInv, TableInv, callVars, receiveVars
<1>2. CASE ConnectionUp \/ ConnectionDown \/ Callback
  BY <1>2 DEF ConnectionUp, ConnectionDown, Callback, TypeOK, BootInv, TableInv, callVars, receiveVars
<1>3. CASE SessionExpires
  BY <1>3 DEF SessionExpires, TypeOK, BootInv, TableInv, callVars, Valid
<1>4. CASE StoreHandler
  <2>1. /\ boot = "store" /\ boot' = "subscribe" /\ next \in 1..Len(Filters)
        /\ handlers' = handlers \cup {Filters[next]} /\ Filters[next] \in Range(Filters)
        /\ UNCHANGED <<link, connected, next, session, callVars, receiveVars>>
    BY <1>4 DEF StoreHandler, BootInv
  <2>2. TypeOK'
    BY <2>1 DEF TypeOK, callVars, receiveVars
  <2>3. BootInv' /\ TableInv' /\ SentInv'
    BY <2>1 DEF BootInv, TableInv, callVars
  <2>4. QED
    BY <2>2, <2>3
<1>5. CASE Subscribe
  <2>1. /\ boot = "subscribe" /\ next \in 1..Len(Filters) /\ next' = next + 1
        /\ Filters[next] \in handlers /\ Filters[next] \in Range(Filters)
        /\ session' \subseteq session \cup Valid
        /\ boot' = IF next = Len(Filters) THEN "ready" ELSE "store"
        /\ UNCHANGED <<link, connected, handlers, callVars, receiveVars>>
    BY <1>5 DEF Subscribe, BootInv
  <2>2. next' \in 1..(Len(Filters) + 1)
        /\ (boot' = "store" => next' \in 1..Len(Filters))
        /\ (boot' = "ready" => next' = Len(Filters) + 1)
    BY <2>1
  <2>3. \A i \in 1..Len(Filters) : i < next' => Filters[i] \in handlers
    BY <2>1 DEF BootInv
  <2>4. boot' = "ready" => handlers = Range(Filters)
    <3>1. boot' = "ready" => Range(Filters) \subseteq handlers
      BY <2>2, <2>3
    <3>2. QED
      BY <3>1 DEF TypeOK
  <2>5. TypeOK'
    BY <2>1, <2>2, <2>4 DEF TypeOK, callVars, receiveVars
  <2>6. BootInv' /\ TableInv' /\ SentInv'
    BY <2>1, <2>2, <2>3 DEF BootInv, TableInv, callVars
  <2>7. QED
    BY <2>5, <2>6
<1>6. QED
  BY <1>1, <1>2, <1>3, <1>4, <1>5 DEF Connect

(* The steps of a call: each is made from its place by the call itself.    *)
LEMMA CallSteps ==
    ASSUME LinkInv, NEW c \in Commands, Begin(c) \/ SendCommand(c) \/ SendCommandAsync(c)
    PROVE  LinkInv'
<1> USE DEF LinkInv
<1>1. /\ pc \in [Commands -> {"idle", "register", "publish", "ack", "await", "delete", "done"}]
      /\ outcome \in [Commands -> {"none", "sent", "answered", "error", "timeout", "canceled"}]
      /\ Calls \cap AsyncCalls = {} /\ Commands = Calls \cup AsyncCalls
  BY CallsAssumption DEF CallsAssumption, TypeOK, Commands
<1>2. UNCHANGED <<linkVars, inbox>>
  BY DEF Begin, SendCommand, SendCommandAsync, Register, Publish, Acknowledged, Await, Delete, receiveVars
<1>3. BootInv'
  BY <1>2 DEF BootInv, linkVars
<1>4. SUFFICES
        /\ TypeOK'
        /\ \E to : /\ pc' = [pc EXCEPT ![c] = to]
                   /\ pc[c] # "idle" \/ boot \in {"ready", "stopped"}
                   /\ c \in Calls => (c \in pending' <=> to \in {"publish", "ack", "await", "delete"})
                   /\ \A b \in Calls \ {c} : b \in pending <=> b \in pending'
                   /\ c \in AsyncCalls => to \in {"publish", "ack", "done"}
                   /\ to \in {"ack", "await"} => c \in published'
        /\ published \subseteq published'
        /\ \E o : /\ outcome' = [outcome EXCEPT ![c] = o]
                  /\ o \notin {"none", "error"} => c \in published'
  <2>1. TableInv'
    BY <1>1, <1>2, <1>4 DEF TableInv, TableFollowsCalls, linkVars
  <2>2. SentInv'
    BY <1>1, <1>4 DEF SentInv, SentReachedBroker
  <2>3. QED
    BY <2>1, <2>2, <1>3, <1>4
<1>5. /\ pc[c] \in {"ack", "await"} => c \in published
      /\ outcome[c] \notin {"none", "error"} => c \in published
      /\ outcome = [outcome EXCEPT ![c] = outcome[c]]
  BY <1>1 DEF SentInv, SentReachedBroker
<1>6. CASE Begin(c)
  <2>1. outcome' = [outcome EXCEPT ![c] = outcome[c]] /\ published' = published
    BY <1>5, <1>6 DEF Begin
  <2>2. TypeOK'
    BY <1>1, <1>2, <1>6 DEF Begin, Goto, TypeOK, linkVars, receiveVars
  <2>3. PICK to \in {"register", "publish"} :
           pc' = [pc EXCEPT ![c] = to] /\ (c \in Calls <=> to = "register")
    BY <1>1, <1>6 DEF Begin, Goto
  <2>4. boot = "ready" /\ pending' = pending /\ (c \in Calls => c \notin pending)
    BY <1>6 DEF Begin, Goto, Served, TableInv, TableFollowsCalls
  <2>5. QED
    BY <1>1, <1>5, <2>1, <2>2, <2>3, <2>4
<1>7. CASE c \in Calls /\ Register(c)
  <2>1. outcome' = [outcome EXCEPT ![c] = outcome[c]] /\ published' = published
    BY <1>5, <1>7 DEF Register
  <2>2. TypeOK'
    BY <1>1, <1>2, <1>7 DEF Register, Goto, TypeOK, linkVars, receiveVars
  <2>3. pc[c] = "register" /\ pc' = [pc EXCEPT ![c] = "publish"] /\ pending' = pending \cup {c}
    BY <1>7 DEF Register, Goto
  <2>4. \E o : outcome' = [outcome EXCEPT ![c] = o] /\ (o \notin {"none", "error"} => c \in published')
    BY <1>5, <2>1
  <2>5. c \in pending' /\ (\A b \in Calls \ {c} : b \in pending <=> b \in pending') /\ c \notin AsyncCalls
    BY <1>1, <1>7, <2>3
  <2>6. \E to : /\ pc' = [pc EXCEPT ![c] = to]
                /\ pc[c] # "idle" \/ boot \in {"ready", "stopped"}
                /\ c \in Calls => (c \in pending' <=> to \in {"publish", "ack", "await", "delete"})
                /\ \A b \in Calls \ {c} : b \in pending <=> b \in pending'
                /\ c \in AsyncCalls => to \in {"publish", "ack", "done"}
                /\ to \in {"ack", "await"} => c \in published'
    <3>1. WITNESS "publish"
    <3>2. QED
      BY <2>3, <2>5
  <2>7. QED
    BY <2>1, <2>2, <2>4, <2>6
<1>8. CASE Publish(c)
  <2>1. pc[c] = "publish" /\ pending' = pending /\ UNCHANGED receiveVars /\ boot \in {"ready", "stopped"}
    BY <1>8 DEF Publish, Goto, TableInv
  <2>2. ASSUME Goto(c, "publish", "ack"), published' = published \cup {c}, UNCHANGED outcome
        PROVE  /\ pc' = [pc EXCEPT ![c] = "ack"] /\ outcome' = [outcome EXCEPT ![c] = outcome[c]]
               /\ published' \subseteq Commands /\ c \in published' /\ published \subseteq published'
    BY <1>5, <2>2 DEF Goto, TypeOK
  <2>3. ASSUME Goto(c, "publish", AfterError(c)), Return(c, "error"), UNCHANGED published
        PROVE  /\ pc' = [pc EXCEPT ![c] = AfterError(c)] /\ outcome' = [outcome EXCEPT ![c] = "error"]
               /\ published' = published
    BY <2>3 DEF Goto, Return
  <2>4. TypeOK'
    BY <1>1, <1>2, <1>8, <2>1, <2>2, <2>3 DEF Publish, AfterError, TypeOK, linkVars, receiveVars
  <2>5. CASE Goto(c, "publish", "ack") /\ published' = published \cup {c} /\ UNCHANGED outcome
    BY <1>1, <2>1, <2>2, <2>4, <2>5 DEF TableInv, TableFollowsCalls
  <2>6. CASE Goto(c, "publish", AfterError(c)) /\ Return(c, "error") /\ UNCHANGED published
    BY <1>1, <2>1, <2>3, <2>4, <2>6 DEF TableInv, TableFollowsCalls, AfterError
  <2>7. QED
    BY <1>8, <2>5, <2>6 DEF Publish
<1>9. CASE Acknowledged(c)
  BY <1>1, <1>2, <1>5, <1>9 DEF Acknowledged, Goto, Return, AfterError, TypeOK, TableInv, TableFollowsCalls,
     linkVars, receiveVars
<1>10. CASE c \in Calls /\ Await(c)
  <2>1. PICK o \in {"timeout", "canceled", "answered"} :
           Return(c, o) /\ slot' = IF o = "answered" THEN slot \ {c} ELSE slot
    BY <1>10 DEF Await
  <2>2. QED
    BY <1>1, <1>2, <1>5, <1>10, <2>1 DEF Await, Goto, Return, TypeOK, TableInv, TableFollowsCalls, linkVars
<1>11. CASE c \in Calls /\ Delete(c)
  BY <1>1, <1>2, <1>5, <1>11 DEF Delete, Goto, TypeOK, TableInv, TableFollowsCalls, linkVars, receiveVars
<1>12. QED
  BY <1>6, <1>7, <1>8, <1>9, <1>10, <1>11 DEF SendCommand, SendCommandAsync

(* What arrives changes neither the handlers nor the table.                *)
LEMMA MessageSteps ==
    ASSUME LinkInv, NEW m \in Messages, DevicePublishes(m) \/ HandleMessage(m)
    PROVE  LinkInv'
<1>1. UNCHANGED <<linkVars, callVars>>
  BY DEF DevicePublishes, HandleMessage
<1>2. BootInv' /\ TableInv' /\ SentInv'
  BY <1>1 DEF LinkInv, BootInv, TableInv, TableFollowsCalls, SentInv, SentReachedBroker, linkVars, callVars
<1>3. inbox' \subseteq Messages /\ slot' \subseteq Calls
  BY DEF DevicePublishes, HandleMessage, HandleCommandResponse, LinkInv, TypeOK
<1>4. TypeOK'
  BY <1>1, <1>3 DEF LinkInv, TypeOK, linkVars, callVars
<1>5. QED
  BY <1>2, <1>4 DEF LinkInv

(* The inductive invariant: types, what Connect has stored, and the table  *)
(* of the calls that wait.                                                 *)
THEOREM LinkInvariant == Spec => []LinkInv
<1>1. LinkInv /\ [Next]_vars => LinkInv'
  <2> SUFFICES ASSUME LinkInv, [Next]_vars PROVE LinkInv'
    OBVIOUS
  <2>1. CASE Next
    BY <2>1, LinkSteps, CallSteps, MessageSteps DEF Next
  <2>2. CASE UNCHANGED vars
    BY <2>2 DEF vars, linkVars, callVars, receiveVars, LinkInv, TypeOK, BootInv, TableInv,
       TableFollowsCalls, SentInv, SentReachedBroker
  <2>3. QED
    BY <2>1, <2>2
<1>2. QED
  BY <1>1, InitLinkInv, PTL DEF Spec

-----------------------------------------------------------------------------
(* Every variable keeps its type, and when Connect has returned there is a *)
(* handler for each filter, whether or not its subscription succeeded      *)
(* (Client.Subscribe, MQTTService.Connect).                                *)
THEOREM TypeCorrect == Spec => []TypeOK
<1>1. LinkInv => TypeOK
  BY DEF LinkInv
<1>2. QED
  BY <1>1, LinkInvariant, PTL

(* However a call of SendCommand ends, with an answer, an error, a timeout  *)
(* or a canceled context, the table of waiting calls has no entry of it;    *)
(* and it has one as long as the call can be answered.                      *)
THEOREM TableIsLeftClean == Spec => []TableFollowsCalls
<1>1. LinkInv => TableFollowsCalls
  BY DEF LinkInv, TableInv
<1>2. QED
  BY <1>1, LinkInvariant, PTL

(* Whatever a call returns but an error, the broker has taken its command,  *)
(* although the link may drop between any two steps (Publish, SendCommand,  *)
(* SendCommandAsync).                                                       *)
THEOREM SentIsSent == Spec => []SentReachedBroker
<1>1. LinkInv => SentReachedBroker
  BY DEF LinkInv, SentInv
<1>2. QED
  BY <1>1, LinkInvariant, PTL

(* As the hub is wired, the filter of the responses has a wildcard and so  *)
(* is no topic: handleMessage looks the topic of a response up in vain,    *)
(* even if a broker brought one, and SendCommand never returns an answer,  *)
(* only errors and timeouts.                                               *)
THEOREM WildcardAnswersNobody ==
    ASSUME ResponseTopic \notin Range(Filters)
    PROVE  Spec => []NothingAnswered
<1>1. Init => NothingAnswered
  BY DEF Init, NothingAnswered, Commands
<1>2. LinkInv /\ NothingAnswered /\ [Next]_vars => NothingAnswered'
  <2> SUFFICES ASSUME LinkInv, NothingAnswered, [Next]_vars PROVE NothingAnswered'
    OBVIOUS
  <2> USE DEF NothingAnswered
  <2>1. ASSUME NEW m \in Messages, DevicePublishes(m) \/ HandleMessage(m)
        PROVE  NothingAnswered'
    <3>1. ResponseTopic \notin handlers
      BY DEF LinkInv, TypeOK
    <3>2. slot' = slot /\ UNCHANGED outcome
      BY <2>1, <3>1 DEF DevicePublishes, HandleMessage, HandleCommandResponse, callVars
    <3>3. QED
      BY <3>2
  <2>2. CASE Connect \/ Disconnect \/ ConnectionUp \/ ConnectionDown \/ Callback \/ SessionExpires
    BY <2>2 DEF Connect, NewConnection, AwaitConnection, StoreHandler, Subscribe, Disconnect, ConnectionUp,
       ConnectionDown, Callback, SessionExpires, receiveVars, callVars
  <2>3. ASSUME NEW c \in Commands, Begin(c) \/ SendCommand(c) \/ SendCommandAsync(c)
        PROVE  NothingAnswered'
    <3>1. slot' = {}
      BY <2>3 DEF Begin, SendCommand, SendCommandAsync, Register, Publish, Acknowledged, Await, Delete,
         receiveVars
    <3>2. outcome' = outcome \/ \E o \in {"error", "sent", "timeout", "canceled"} : Return(c, o)
      BY <2>3 DEF Begin, SendCommand, SendCommandAsync, Register, Publish, Acknowledged, Await, Delete
    <3>3. \A b \in Calls : outcome'[b] # "answered"
      BY <3>2 DEF Return, LinkInv, TypeOK, Commands
    <3>4. QED
      BY <3>1, <3>3
  <2>4. CASE UNCHANGED vars
    BY <2>4 DEF vars, callVars, receiveVars
  <2>5. QED
    BY <2>1, <2>2, <2>3, <2>4 DEF Next
<1>3. QED
  BY <1>1, <1>2, LinkInvariant, PTL DEF Spec
=============================================================================
