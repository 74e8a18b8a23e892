---------------------------- MODULE WebSocketHub -----------------------------
(***************************************************************************)
(* The WebSocket hub (internal/sse/websocket.go) and the connection        *)
(* handlers (internal/api/websocket.go).  One goroutine, Run, serves three *)
(* buffered channels in a select: connections to register, connections to  *)
(* unregister and messages for everybody.  A handler registers, reads the  *)
(* requests of its client and unregisters when the socket breaks; a writer *)
(* goroutine per connection drains its channel Send into the socket.       *)
(* Notifications go to the subscribers of a device and of a tenant, under  *)
(* the read lock, and carry a pointer to one message.                      *)
(*                                                                         *)
(* One action is one critical section of the lock mu or one operation on a *)
(* channel.  The order in which waiting connections register does not      *)
(* matter, so those two channels are sets.                                 *)
(*                                                                         *)
(* A handler also writes frames of its own (the acknowledgement of a       *)
(* subscription, a pong) into the socket that its writer goroutine writes  *)
(* into, which gorilla/websocket forbids.  They are left out: where two    *)
(* such writes meet the library may panic, and the behaviours here do not  *)
(* show it.  Up to there they are those of the code.                       *)
(***************************************************************************)
EXTENDS Sequences, FiniteSets, Integers

CONSTANTS Conns,        (* connections, one per request of a client        *)
          Channels,     (* "device:..." and "tenant:..." names             *)
          Notices,      (* notifications of a device and its tenant        *)
          DeviceOf, TenantOf,   (* the two channels of a notification      *)
          MaxCasts,     (* bound on the messages for everybody             *)
          SendCap,      (* capacity of Send (256)                          *)
          QueueCap      (* capacity of the channels Run serves (256, 1024) *)

ASSUME ChannelAssumption ==
    DeviceOf \in [Notices -> Channels] /\ TenantOf \in [Notices -> Channels] /\ "all" \notin Channels
ASSUME BoundAssumption == {MaxCasts, SendCap, QueueCap} \subseteq Nat
ASSUME NoticeAssumption == Notices \cap Nat = {}

VARIABLES
    hpc,          (* hpc[c]: where the handler of c stands                 *)
    register,     (* the connections waiting to be registered              *)
    unregister,   (* the connections waiting to be unregistered            *)
    broadcast,    (* the messages waiting for Run: their numbers           *)
    casts,        (* how many messages for everybody there have been       *)
    connections,  (* the registered connections                            *)
    members,      (* deviceChannels and tenantChannels                     *)
    subscribed,   (* subscribed[c]: the map c.Channels                     *)
    send,         (* send[c]: what waits in c.Send, and why (via)          *)
    closed,       (* closed[c]: close(c.Send) was executed                 *)
    writer,       (* writer[c]: the goroutine that drains c.Send is alive  *)
    written,      (* written[c]: what it has written to the socket         *)
    npc,          (* npc[n]: where the notification n stands               *)
    panicked      (* a goroutine sent on a closed channel                  *)

runVars    == <<register, unregister, broadcast, casts>>
memberVars == <<connections, members, subscribed>>
sendVars   == <<send, closed, panicked>>
writerVars == <<writer, written>>
vars == <<hpc, runVars, memberVars, sendVars, writerVars, npc>>

Messages == Notices \cup 1..MaxCasts
All == "all"             (* a message without a channel                    *)
Queued  == [msg : Messages, via : Channels \cup {All}]
Written == [msg : Messages, via : Channels \cup {All}, label : Channels \cup {All}]

TypeOK ==
    /\ hpc \in [Conns -> {"away", "reading", "leaving", "gone"}]
    /\ register \subseteq Conns /\ unregister \subseteq Conns
    /\ broadcast \in Seq(1..MaxCasts) /\ casts \in 0..MaxCasts
    /\ connections \subseteq Conns
    /\ members \in [Channels -> SUBSET Conns]
    /\ subscribed \in [Conns -> SUBSET Channels]
    /\ send \in [Conns -> Seq(Queued)] /\ closed \in [Conns -> BOOLEAN]
    /\ writer \in [Conns -> BOOLEAN] /\ written \in [Conns -> Seq(Written)]
    /\ npc \in [Notices -> {"new", "relabel", "done"}]
    /\ panicked \in BOOLEAN

Init ==
    /\ hpc = [c \in Conns |-> "away"]
    /\ register = {} /\ unregister = {} /\ broadcast = <<>> /\ casts = 0
    /\ connections = {} /\ members = [ch \in Channels |-> {}]
    /\ subscribed = [c \in Conns |-> {}]
    /\ send = [c \in Conns |-> <<>>] /\ closed = [c \in Conns |-> FALSE]
    /\ writer = [c \in Conns |-> FALSE] /\ written = [c \in Conns |-> <<>>]
    /\ npc = [n \in Notices |-> "new"]
    /\ panicked = FALSE

-----------------------------------------------------------------------------
(* The handler of a connection.                                            *)

Handler(c, from, to) ==
    /\ hpc[c] = from
    /\ hpc' = [hpc EXCEPT ![c] = to]

Connect(c) ==
    /\ Handler(c, "away", "reading")
    /\ Cardinality(register) < QueueCap
    /\ register' = register \cup {c}
    /\ writer' = [writer EXCEPT ![c] = TRUE]
    /\ UNCHANGED <<unregister, broadcast, casts, memberVars, sendVars, written, npc>>

Subscribe(c, ch) ==
    /\ hpc[c] = "reading"
    /\ subscribed' = [subscribed EXCEPT ![c] = @ \cup {ch}]
    /\ members' = [members EXCEPT ![ch] = @ \cup {c}]
    /\ UNCHANGED <<hpc, runVars, connections, sendVars, writerVars, npc>>

(* Faulty variant: the channel is only taken from the connection's map.    *)
UnsubscribeHalf(c, ch) ==
    /\ hpc[c] = "reading"
    /\ subscribed' = [subscribed EXCEPT ![c] = @ \ {ch}]
    /\ UNCHANGED <<hpc, runVars, connections, members, sendVars, writerVars, npc>>

Unsubscribe(c, ch) ==
    /\ hpc[c] = "reading"
    /\ subscribed' = [subscribed EXCEPT ![c] = @ \ {ch}]
    /\ members' = [members EXCEPT ![ch] = @ \ {c}]
    /\ UNCHANGED <<hpc, runVars, connections, sendVars, writerVars, npc>>

(* The socket breaks or the client closes it, at any moment.               *)
Leave(c) ==
    /\ Handler(c, "reading", "leaving")
    /\ UNCHANGED <<runVars, memberVars, sendVars, writerVars, npc>>

Unregister(c) ==
    /\ Handler(c, "leaving", "gone")
    /\ Cardinality(unregister) < QueueCap
    /\ unregister' = unregister \cup {c}
    /\ UNCHANGED <<register, broadcast, casts, memberVars, sendVars, writerVars, npc>>

-----------------------------------------------------------------------------
(* Run.  Go's select takes any of its channels that has something.         *)

RunRegister ==
    /\ \E c \in register : register' = register \ {c} /\ connections' = connections \cup {c}
    /\ UNCHANGED <<hpc, unregister, broadcast, casts, members, subscribed, sendVars, writerVars, npc>>

(* Faulty variant: a connection is closed but keeps its subscriptions.     *)
UnregisterKeepsChannels ==
    /\ \E c \in unregister :
          /\ unregister' = unregister \ {c}
          /\ connections' = connections \ {c}
          /\ closed' = [closed EXCEPT ![c] = closed[c] \/ c \in connections]
    /\ UNCHANGED <<hpc, register, broadcast, casts, members, subscribed, send, panicked, writerVars, npc>>

(* Faulty variant: the writer is not told that the connection is over.     *)
UnregisterKeepsOpen ==
    /\ \E c \in unregister :
          /\ unregister' = unregister \ {c}
          /\ connections' = connections \ {c}
          /\ members' = [ch \in Channels |-> members[ch] \ {c}]
    /\ UNCHANGED <<hpc, register, broadcast, casts, subscribed, sendVars, writerVars, npc>>

(* A connection that is not registered is ignored.                         *)
RunUnregister ==
    /\ \E c \in unregister :
          /\ unregister' = unregister \ {c}
          /\ connections' = connections \ {c}
          /\ IF c \in connections
             THEN /\ closed' = [closed EXCEPT ![c] = TRUE]
                  /\ members' = [ch \in Channels |->
                        IF ch \in subscribed[c] THEN members[ch] \ {c} ELSE members[ch]]
             ELSE UNCHANGED <<closed, members>>
    /\ UNCHANGED <<hpc, register, broadcast, casts, subscribed, send, panicked, writerVars, npc>>

(* Faulty variant: the messages do not say what they were sent on.         *)
DeliverUnlabelled(to, m, ch) ==
    /\ send' = [c \in Conns |->
          IF c \in to /\ ~closed[c] /\ Len(send[c]) < SendCap
          THEN Append(send[c], [msg |-> m, via |-> ""]) ELSE send[c]]
    /\ panicked' = (panicked \/ \E c \in to : closed[c])
    /\ UNCHANGED closed

(* select { case conn.Send <- msg: default: } for each of a set.           *)
Deliver(to, m, ch) ==
    /\ send' = [c \in Conns |->
          IF c \in to /\ ~closed[c] /\ Len(send[c]) < SendCap
          THEN Append(send[c], [msg |-> m, via |-> ch]) ELSE send[c]]
    /\ panicked' = (panicked \/ \E c \in to : closed[c])
    /\ UNCHANGED closed

(* Faulty variant: each message is handed on by a goroutine of its own.    *)
BroadcastAny ==
    /\ \E i \in 1..Len(broadcast) :
          /\ Deliver(connections, broadcast[i], All)
          /\ broadcast' = [j \in 1..(Len(broadcast) - 1) |->
                              broadcast[IF j < i THEN j ELSE j + 1]]
    /\ UNCHANGED <<hpc, register, unregister, casts, memberVars, writerVars, npc>>

RunBroadcast ==
    /\ broadcast # <<>>
    /\ Deliver(connections, Head(broadcast), All)
    /\ broadcast' = Tail(broadcast)
    /\ UNCHANGED <<hpc, register, unregister, casts, memberVars, writerVars, npc>>

Broadcast ==
    /\ casts < MaxCasts /\ Len(broadcast) < QueueCap
    /\ casts' = casts + 1
    /\ broadcast' = Append(broadcast, casts + 1)
    /\ UNCHANGED <<hpc, register, unregister, memberVars, sendVars, writerVars, npc>>

-----------------------------------------------------------------------------
(* NotifyDeviceStatus, NotifyCommandResult: to the subscribers of the      *)
(* device, then, in the same message with another Channel, to those of the *)
(* tenant.  (NotifyAlert is the second half alone.)                        *)

NotifyDevice(n) ==
    /\ npc[n] = "new"
    /\ npc' = [npc EXCEPT ![n] = "relabel"]
    /\ Deliver(members[DeviceOf[n]], n, DeviceOf[n])
    /\ UNCHANGED <<hpc, runVars, memberVars, writerVars>>

NotifyTenant(n) ==
    /\ npc[n] \in {"new", "relabel"}
    /\ npc' = [npc EXCEPT ![n] = "done"]
    /\ Deliver(members[TenantOf[n]], n, TenantOf[n])
    /\ UNCHANGED <<hpc, runVars, memberVars, writerVars>>

Label(m) ==
    IF m \notin Notices THEN All ELSE IF npc[m] = "relabel" THEN DeviceOf[m] ELSE TenantOf[m]

(* The writer: WriteJSON reads the message when its turn comes.  It ends   *)
(* when the socket is broken or Send is closed and empty.  The handler's   *)
(* own WriteJSON, which may run at the same time, is left out.             *)
Write(c) ==
    /\ writer[c] /\ send[c] # <<>>
    /\ send' = [send EXCEPT ![c] = Tail(@)]
    /\ \/ /\ hpc[c] = "reading"
          /\ written' = [written EXCEPT ![c] = Append(@,
                [msg |-> Head(send[c]).msg, via |-> Head(send[c]).via,
                 label |-> Label(Head(send[c]).msg)])]
          /\ UNCHANGED writer
       \/ /\ hpc[c] # "reading"
          /\ writer' = [writer EXCEPT ![c] = FALSE] /\ UNCHANGED written
    /\ UNCHANGED <<hpc, runVars, memberVars, closed, panicked, npc>>

WriterEnd(c) ==
    /\ writer[c] /\ closed[c] /\ send[c] = <<>>
    /\ writer' = [writer EXCEPT ![c] = FALSE]
    /\ UNCHANGED <<hpc, runVars, memberVars, sendVars, written, npc>>
-----------------------------------------------------------------------------
Run == RunRegister \/ RunUnregister \/ RunBroadcast
HandleWebSocket(c) ==
    \/ Connect(c) \/ Leave(c) \/ Unregister(c)
    \/ \E ch \in Channels : Subscribe(c, ch) \/ Unsubscribe(c, ch)
Writer(c) == Write(c) \/ WriterEnd(c)
Notify(n) == NotifyDevice(n) \/ NotifyTenant(n)

Next ==
    /\ ~panicked
    /\ \/ Run \/ Broadcast
       \/ \E c \in Conns : HandleWebSocket(c) \/ Writer(c)
       \/ \E n \in Notices : Notify(n)

Spec == Init /\ [][Next]_vars

(* The goroutines run, and the select of Run passes over none of its       *)
(* channels for ever.                                                      *)
FairSpec ==
    /\ Spec
    /\ WF_vars(~panicked /\ RunRegister) /\ WF_vars(~panicked /\ RunUnregister)
    /\ \A c \in Conns : WF_vars(~panicked /\ Unregister(c)) /\ WF_vars(~panicked /\ Writer(c))
-----------------------------------------------------------------------------
(* Nobody sends on a closed channel: Send is closed under the lock, in the *)
(* same section that takes the connection out of every map, and a          *)
(* connection that is over is not put back into one by a late request.     *)
NeverSendsOnClosed ==
    /\ ~panicked
    /\ \A c \in connections \cup UNION {members[ch] : ch \in Channels} : ~closed[c]

(* A notification is queued only for connections that are subscribed to    *)
(* the channel it is queued for: the two views of the subscriptions, by    *)
(* connection and by channel, never disagree when a message is delivered.  *)
OnlyToSubscribers ==
    [][\A c \in Conns : Len(send'[c]) > Len(send[c]) =>
          LET q == send'[c][Len(send'[c])] IN q.via = All \/ q.via \in subscribed[c]]_vars

(* What Run hands out reaches each connection in the order it was sent in, *)
(* once; a full connection misses messages but never sees one late.        *)
Rising(s) ==
    \A i, j \in 1..Len(s) : i < j /\ s[i].via = All /\ s[j].via = All => s[i].msg < s[j].msg
AheadOfQueue(s) ==
    \A i \in 1..Len(s), j \in 1..Len(broadcast) : s[i].via = All => s[i].msg < broadcast[j]
InOrder ==
    \A c \in Conns :
        LET stream == written[c] \o send[c] IN Rising(stream) /\ AheadOfQueue(stream)

(* A connection that is over is forgotten and its writer ends, for good,   *)
(* if it was registered by the time it left.  (Run may otherwise take the  *)
(* unregistration first, and then keeps the connection for ever.)          *)
LeaversAreForgotten ==
    \A c \in Conns :
        hpc[c] = "leaving" /\ c \in connections ~> [](c \notin connections /\ ~writer[c])
=============================================================================
