------------------------------ MODULE MqttLink -------------------------------
(***************************************************************************)
(* The MQTT link of the hub: the client (internal/mqtt/client.go) and the  *)
(* service that sends commands through it (services/mqtt_service.go).      *)
(*                                                                         *)
(* The connection manager below the client reconnects by itself.  The      *)
(* broker keeps the hub's session, its subscriptions and what is queued    *)
(* for it, across a reconnect and across a restart of the hub, until the   *)
(* session expires.  A message reaches the hub at least once.  The client  *)
(* looks its topic up among the filters that were subscribed, literally:   *)
(* all four have wildcards, so their messages arrive and find no handler;  *)
(* and that for the responses is no valid filter, so none arrives.         *)
(* handleCommandResponse is thus never called.  It is one step here; what  *)
(* can happen between its lookup and its send is CommandService's, whose   *)
(* handler is the same code.                                               *)
(*                                                                         *)
(* One goroutine takes the messages in, one runs each call of SendCommand. *)
(***************************************************************************)
EXTENDS Naturals, Sequences, FiniteSets, Functions

CONSTANTS
    Filters,            \* what MQTTService.Connect subscribes, in its order
    Reports,            \* topics of status, event and telemetry messages
    ResponseTopic,      \* the topic of the responses to commands
    Covers,             \* <<filter, topic>>: messages the filter brings in, if it is valid
    Calls, AsyncCalls,  \* calls of SendCommand and SendCommandAsync, by command id
    None

Topics == Reports \cup {ResponseTopic}
Commands == Calls \cup AsyncCalls

ASSUME FiltersAssumption == Filters \in Seq(Range(Filters)) /\ Filters # <<>>
ASSUME CallsAssumption == Calls \cap AsyncCalls = {} /\ None \notin Commands
ASSUME TopicsAssumption == ResponseTopic \notin Reports /\ Covers \subseteq Range(Filters) \X Topics

\* Filters the broker accepts.
Valid == {f \in Range(Filters) : \E t \in Topics : <<f, t>> \in Covers}

VARIABLES
    link, connected,    \* the connection, and what the callbacks made of it
    boot, next,         \* the step of Connect, and the filter it has come to
    handlers,           \* keys of the table of handlers
    session,            \* subscriptions in the session at the broker
    inbox,              \* messages the broker has for the session
    pc, outcome,        \* the step of each call, and what it returned
    pending, slot,      \* pendingCommands; calls whose channel holds an answer
    published           \* commands the broker took

linkVars == <<link, connected, boot, next, handlers, session>>
callVars == <<pc, outcome, pending, published>>
receiveVars == <<inbox, slot>>
vars == <<linkVars, callVars, receiveVars>>

Messages == [topic : Topics, cmd : Commands \cup {None}]

TypeOK ==
    /\ link \in {"down", "up"} /\ connected \in BOOLEAN
    /\ boot \in {"new", "wait", "store", "subscribe", "ready", "stopped"}
    /\ next \in 1..(Len(Filters) + 1)
    /\ handlers \subseteq Range(Filters) /\ session \subseteq Valid
    /\ boot = "ready" => handlers = Range(Filters)
    /\ inbox \subseteq Messages
    /\ pc \in [Commands -> {"idle", "register", "publish", "ack", "await", "delete", "done"}]
    /\ outcome \in [Commands -> {"none", "sent", "answered", "error", "timeout", "canceled"}]
    /\ pending \subseteq Calls /\ slot \subseteq Calls /\ published \subseteq Commands

Init ==
    /\ link = "down" /\ connected = FALSE
    /\ boot = "new" /\ next = 1
    /\ handlers = {}
    /\ session \in {{}, Valid}     \* without CleanStart, of an earlier run
    /\ inbox = {}
    /\ pc = [c \in Commands |-> "idle"] /\ outcome = [c \in Commands |-> "none"]
    /\ pending = {} /\ slot = {} /\ published = {}

-----------------------------------------------------------------------------
(* The connection *)

ConnectionUp ==
    /\ boot \notin {"new", "stopped"} /\ link = "down"
    /\ link' = "up"
    /\ UNCHANGED <<connected, boot, next, handlers, session, callVars, receiveVars>>

ConnectionDown ==
    /\ link = "up"
    /\ link' = "down"
    /\ UNCHANGED <<connected, boot, next, handlers, session, callVars, receiveVars>>

\* OnConnectionUp and OnConnectionDown, under the lock.  Nothing is subscribed again.
Callback ==
    /\ connected # (link = "up")
    /\ connected' = (link = "up")
    /\ UNCHANGED <<link, boot, next, handlers, session, callVars, receiveVars>>

SessionExpires ==
    /\ link = "down" /\ session # {}
    /\ session' = {} /\ inbox' = {}
    /\ UNCHANGED <<link, connected, boot, next, handlers, callVars, slot>>

NewConnection ==
    /\ boot = "new" /\ boot' = "wait"
    /\ UNCHANGED <<link, connected, next, handlers, session, callVars, receiveVars>>

\* Connect returns without an error after five seconds, connected or not.
AwaitConnection ==
    /\ boot = "wait" /\ boot' = "store"
    /\ UNCHANGED <<link, connected, next, handlers, session, callVars, receiveVars>>

Disconnect ==
    /\ boot = "ready" /\ connected
    /\ boot' = "stopped" /\ link' = "down"
    /\ UNCHANGED <<connected, next, handlers, session, callVars, receiveVars>>

-----------------------------------------------------------------------------
(* Subscribing *)

\* Faulty variant: the handler is stored once the subscription is acknowledged.
StoreNothing ==
    /\ boot = "store" /\ boot' = "subscribe"
    /\ UNCHANGED <<link, connected, next, handlers, session, callVars, receiveVars>>

StoreHandler ==
    /\ boot = "store" /\ boot' = "subscribe"
    /\ handlers' = handlers \cup {Filters[next]}
    /\ UNCHANGED <<link, connected, next, session, callVars, receiveVars>>

\* An error is logged and the next filter taken; the broker, which refuses a filter
\* that is not valid, may have subscribed it.
Subscribe ==
    /\ boot = "subscribe"
    /\ \/ link = "up" /\ session' = session \cup (Valid \cap {Filters[next]})
       \/ UNCHANGED session
    /\ next' = next + 1
    /\ boot' = IF next = Len(Filters) THEN "ready" ELSE "store"
    /\ UNCHANGED <<link, connected, handlers, callVars, receiveVars>>

-----------------------------------------------------------------------------
(* Sending commands *)

Goto(c, from, to) == pc[c] = from /\ pc' = [pc EXCEPT ![c] = to]
Return(c, o) == outcome' = [outcome EXCEPT ![c] = o]

\* The web server starts when Connect has returned, and its handlers ask IsConnected.
Served == boot = "ready"

Begin(c) ==
    /\ Served /\ connected
    /\ Goto(c, "idle", IF c \in Calls THEN "register" ELSE "publish")
    /\ UNCHANGED <<linkVars, receiveVars, outcome, pending, published>>

Register(c) ==
    /\ Goto(c, "register", "publish")
    /\ pending' = pending \cup {c}
    /\ UNCHANGED <<linkVars, receiveVars, outcome, published>>

\* Faulty variant: the clean-up is not deferred, it follows the select.
ErrorSkipsDelete(c) == "done"

AfterError(c) == IF c \in Calls THEN "delete" ELSE "done"

\* Faulty variant: without a connection the message waits in a queue of the hub.
PublishQueued(c) ==
    /\ Goto(c, "publish", "ack")
    /\ published' = IF link = "up" THEN published \cup {c} ELSE published
    /\ UNCHANGED <<linkVars, receiveVars, outcome, pending>>

\* The broker has it, or there is no connection.
Publish(c) ==
    /\ \/ link = "up" /\ Goto(c, "publish", "ack")
          /\ published' = published \cup {c} /\ UNCHANGED outcome
       \/ Goto(c, "publish", AfterError(c)) /\ Return(c, "error") /\ UNCHANGED published
    /\ UNCHANGED <<linkVars, receiveVars, pending>>

\* Its acknowledgement may be lost: the context ends, or the client gives up.
Acknowledged(c) ==
    /\ \/ /\ link = "up" /\ Goto(c, "ack", IF c \in Calls THEN "await" ELSE "done")
          /\ IF c \in Calls THEN UNCHANGED outcome ELSE Return(c, "sent")
       \/ Goto(c, "ack", AfterError(c)) /\ Return(c, "error")
    /\ UNCHANGED <<linkVars, receiveVars, pending, published>>

\* Faulty variant: there is no timer.
AwaitAnswer(c) ==
    /\ c \in slot /\ Goto(c, "await", "delete") /\ Return(c, "answered")
    /\ UNCHANGED <<linkVars, receiveVars, pending, published>>

\* The select: an answer if there is one, the timer, the end of the context.
Await(c) ==
    /\ Goto(c, "await", "delete")
    /\ \E o \in {"timeout", "canceled"} \cup {a \in {"answered"} : c \in slot} :
          Return(c, o) /\ slot' = IF o = "answered" THEN slot \ {c} ELSE slot
    /\ UNCHANGED <<linkVars, inbox, pending, published>>

\* Deferred; the channel, which nobody else knows then, is closed after it.
Delete(c) ==
    /\ Goto(c, "delete", "done")
    /\ pending' = pending \ {c}
    /\ UNCHANGED <<linkVars, receiveVars, outcome, published>>

SendCommandAsync(c) == c \in AsyncCalls /\ (Publish(c) \/ Acknowledged(c))

SendCommand(c) ==
    /\ c \in Calls
    /\ Register(c) \/ Publish(c) \/ Acknowledged(c) \/ Await(c) \/ Delete(c)

-----------------------------------------------------------------------------
(* Receiving *)

\* A device publishes; the broker queues what a filter of the session covers.
DevicePublishes(m) ==
    /\ IF m.topic = ResponseTopic THEN m.cmd \in published ELSE m.cmd = None
    /\ \E f \in session : <<f, m.topic>> \in Covers
    /\ inbox' = inbox \cup {m}
    /\ UNCHANGED <<linkVars, callVars, slot>>

\* The response of a call that waits goes to its channel.
HandleCommandResponse(m) ==
    slot' = IF m.topic = ResponseTopic THEN slot \cup (pending \cap {m.cmd}) ELSE slot

\* One at a time, and perhaps again after a reconnect.  The handlers of the other
\* messages parse and log.
HandleMessage(m) ==
    /\ link = "up"
    /\ m \in inbox /\ inbox' \in {inbox, inbox \ {m}}
    /\ IF m.topic \in handlers THEN HandleCommandResponse(m) ELSE UNCHANGED slot
    /\ UNCHANGED <<linkVars, callVars>>

-----------------------------------------------------------------------------
Connect == NewConnection \/ AwaitConnection \/ StoreHandler \/ Subscribe

Next ==
    \/ Connect \/ Disconnect
    \/ ConnectionUp \/ ConnectionDown \/ Callback \/ SessionExpires
    \/ \E c \in Commands : Begin(c) \/ SendCommand(c) \/ SendCommandAsync(c)
    \/ \E m \in Messages : DevicePublishes(m) \/ HandleMessage(m)

Spec == Init /\ [][Next]_vars

\* The goroutine of a call is scheduled and its timer fires; the broker, the
\* network and the devices owe it nothing.
FairSpec == Spec /\ \A c \in Calls : WF_vars(SendCommand(c))

-----------------------------------------------------------------------------
\* Whatever a call of SendCommand ends with, and at whichever of its steps, it
\* leaves no entry in pendingCommands; and while it can still be answered, from
\* before its publish to the end of its wait, the entry is there.
TableFollowsCalls ==
    \A c \in Calls : c \in pending <=> pc[c] \in {"publish", "ack", "await", "delete"}

\* A caller that was told "sent", or waited for its answer in vain, had its command
\* taken by the broker, although the link may drop between any two of its steps
\* and connected lags behind the link; only errors leave it open.
SentReachedBroker == \A c \in Commands : outcome[c] \notin {"none", "error"} => c \in published

\* Every call of SendCommand returns, although the link drops, the session expires
\* and the device stays silent.
CallReturns == \A c \in Calls : pc[c] = "register" ~> pc[c] = "done"
=============================================================================
