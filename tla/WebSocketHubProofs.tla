------------------------- MODULE WebSocketHubProofs -------------------------
(***************************************************************************)
(* Proofs about WebSocketHub, for any number of connections, channels and  *)
(* notifications and any capacity of the Go channels: nobody sends on a    *)
(* closed channel, only subscribers get what is sent on a channel, and the *)
(* messages of Run stay in order.                                          *)
(***************************************************************************)
EXTENDS WebSocketHub, TLAPS

(* A connection passes through register, the table and unregister once.    *)
StageInv ==
    /\ \A c \in unregister : hpc[c] = "gone"
    /\ connections \cap register = {}
    /\ \A c \in Conns : hpc[c] = "away" => c \notin register \cup connections

(* What is closed left the handler, the table and every channel before.    *)
ClosedInv ==
    \A c \in Conns : closed[c] =>
        /\ hpc[c] = "gone" /\ c \notin register \cup connections
        /\ \A ch \in Channels : c \notin members[ch]

(* A member of a channel has the channel in its own map: this is where Run *)
(* looks for the channels a connection has to be taken from.               *)
MapsAgree == \A ch \in Channels : \A c \in members[ch] : ch \in subscribed[c]

HubInv == TypeOK /\ StageInv /\ ClosedInv /\ MapsAgree /\ ~panicked

-----------------------------------------------------------------------------
(* Deliver keeps the type of the queues, and does not panic when nobody it *)
(* delivers to is closed.                                                  *)
LEMMA DeliverType ==
    ASSUME TypeOK, NEW to \in SUBSET Conns, NEW m \in Messages,
           NEW ch \in Channels \cup {All}, Deliver(to, m, ch)
    PROVE  /\ send' \in [Conns -> Seq(Queued)]
           /\ closed' \in [Conns -> BOOLEAN] /\ panicked' \in BOOLEAN
<1>1. [msg |-> m, via |-> ch] \in Queued
  BY DEF Queued
<1>2. \A c \in Conns : Append(send[c], [msg |-> m, via |-> ch]) \in Seq(Queued)
  BY <1>1 DEF TypeOK
<1>3. send' \in [Conns -> Seq(Queued)]
  BY <1>2 DEF Deliver, TypeOK
<1>4. panicked' \in BOOLEAN
  BY Zenon DEF Deliver
<1>5. QED
  BY <1>3, <1>4 DEF Deliver, TypeOK

LEMMA NextTypeOK == TypeOK /\ [Next]_vars => TypeOK'
<1> SUFFICES ASSUME TypeOK, [Next]_vars PROVE TypeOK'
  OBVIOUS
<1> USE DEF runVars, memberVars, sendVars, writerVars
<1>1. CASE RunRegister
  BY <1>1 DEF RunRegister, TypeOK
<1>2. CASE RunUnregister
  <2>1. PICK c \in unregister :
          /\ unregister' = unregister \ {c} /\ connections' = connections \ {c}
          /\ \/ /\ closed' = [closed EXCEPT ![c] = TRUE]
                /\ members' = [ch \in Channels |->
                      IF ch \in subscribed[c] THEN members[ch] \ {c} ELSE members[ch]]
             \/ UNCHANGED <<closed, members>>
    BY <1>2 DEF RunUnregister
  <2>2. \A ch \in Channels : members[ch] \in SUBSET Conns /\ members[ch] \ {c} \in SUBSET Conns
    BY DEF TypeOK
  <2>3. members' \in [Channels -> SUBSET Conns]
    BY <2>1, <2>2 DEF TypeOK
  <2>4. closed' \in [Conns -> BOOLEAN]
    BY <2>1 DEF TypeOK
  <2>5. QED
    BY <1>2, <2>1, <2>3, <2>4 DEF RunUnregister, TypeOK
<1>3. CASE RunBroadcast
  <2> DEFINE S == 1..MaxCasts
  <2>0. broadcast \in Seq(S) /\ broadcast # <<>>
    BY <1>3 DEF RunBroadcast, TypeOK
  <2>a. Head(broadcast) \in S /\ Tail(broadcast) \in Seq(S)
    <3> HIDE DEF S
    <3> QED
      BY <2>0
  <2>1. Head(broadcast) \in Messages /\ Tail(broadcast) \in Seq(1..MaxCasts)
    BY <2>a DEF Messages
  <2>2. Deliver(connections, Head(broadcast), All) /\ connections \in SUBSET Conns
    BY <1>3 DEF RunBroadcast, TypeOK
  <2>3. send' \in [Conns -> Seq(Queued)] /\ closed' \in [Conns -> BOOLEAN] /\ panicked' \in BOOLEAN
    BY <2>1, <2>2, DeliverType
  <2>4. QED
    BY <1>3, <2>1, <2>3 DEF RunBroadcast, TypeOK
<1>4. CASE Broadcast
  <2>1. casts + 1 \in 1..MaxCasts
    BY <1>4, BoundAssumption DEF Broadcast, TypeOK, BoundAssumption
  <2>2. Append(broadcast, casts + 1) \in Seq(1..MaxCasts)
    BY <2>1 DEF TypeOK
  <2>3. QED
    BY <1>4, <2>1, <2>2 DEF Broadcast, TypeOK
<1>5. ASSUME NEW c \in Conns, Connect(c) \/ Leave(c) \/ Unregister(c) PROVE TypeOK'
  BY <1>5 DEF Connect, Leave, Unregister, Handler, TypeOK
<1>6. ASSUME NEW c \in Conns, NEW ch \in Channels, Subscribe(c, ch) \/ Unsubscribe(c, ch)
      PROVE  TypeOK'
  <2>0. /\ subscribed[c] \cup {ch} \in SUBSET Channels /\ subscribed[c] \ {ch} \in SUBSET Channels
        /\ members[ch] \cup {c} \in SUBSET Conns /\ members[ch] \ {c} \in SUBSET Conns
    BY DEF TypeOK
  <2>1. subscribed' \in [Conns -> SUBSET Channels] /\ members' \in [Channels -> SUBSET Conns]
    <3>1. CASE Subscribe(c, ch)
      BY <2>0, <3>1 DEF Subscribe, TypeOK
    <3>2. CASE Unsubscribe(c, ch)
      BY <2>0, <3>2 DEF Unsubscribe, TypeOK
    <3>3. QED
      BY <1>6, <3>1, <3>2
  <2>2. QED
    BY <1>6, <2>1 DEF Subscribe, Unsubscribe, TypeOK
<1>7. ASSUME NEW c \in Conns, Writer(c) PROVE TypeOK'
  <2>1. CASE Write(c)
    <3> DEFINE entry == [msg |-> Head(send[c]).msg, via |-> Head(send[c]).via,
                         label |-> Label(Head(send[c]).msg)]
    <3>1. Head(send[c]) \in Queued /\ Tail(send[c]) \in Seq(Queued)
      BY <2>1 DEF Write, TypeOK
    <3>2. Label(Head(send[c]).msg) \in Channels \cup {All}
      BY <3>1, ChannelAssumption DEF Label, ChannelAssumption
    <3>3. entry \in Written
      BY <3>1, <3>2 DEF Queued, Written
    <3>4. Append(written[c], entry) \in Seq(Written)
      BY <3>3 DEF TypeOK
    <3>5. send' \in [Conns -> Seq(Queued)]
      BY <2>1, <3>1 DEF Write, TypeOK
    <3>6. written' \in [Conns -> Seq(Written)] /\ writer' \in [Conns -> BOOLEAN]
      BY <2>1, <3>4 DEF Write, TypeOK
    <3>7. QED
      BY <2>1, <3>5, <3>6 DEF Write, TypeOK
  <2>2. CASE WriterEnd(c)
    BY <2>2 DEF WriterEnd, TypeOK
  <2>3. QED
    BY <1>7, <2>1, <2>2 DEF Writer
<1>8. ASSUME NEW n \in Notices, Notify(n) PROVE TypeOK'
  <2>1. n \in Messages /\ DeviceOf[n] \in Channels /\ TenantOf[n] \in Channels
    BY ChannelAssumption DEF ChannelAssumption, Messages
  <2>2. members[DeviceOf[n]] \in SUBSET Conns /\ members[TenantOf[n]] \in SUBSET Conns
    BY <2>1 DEF TypeOK
  <2>3. send' \in [Conns -> Seq(Queued)] /\ closed' \in [Conns -> BOOLEAN] /\ panicked' \in BOOLEAN
    BY <1>8, <2>1, <2>2, DeliverType DEF Notify, NotifyDevice, NotifyTenant
  <2>4. npc' \in [Notices -> {"new", "relabel", "done"}]
    BY <1>8 DEF Notify, NotifyDevice, NotifyTenant, TypeOK
  <2>5. QED
    BY <1>8, <2>3, <2>4 DEF Notify, NotifyDevice, NotifyTenant, TypeOK
<1>9. CASE UNCHANGED vars
  BY <1>9 DEF vars, TypeOK
<1>10. QED
  BY <1>1, <1>2, <1>3, <1>4, <1>5, <1>6, <1>7, <1>8, <1>9 DEF Next, Run, HandleWebSocket

-----------------------------------------------------------------------------
(* Deliver leaves panicked alone when nobody it delivers to is closed.     *)
LEMMA DeliverSafe ==
    ASSUME HubInv, NEW to \in SUBSET Conns, NEW m, NEW ch, Deliver(to, m, ch),
           \A c \in to : ~closed[c]
    PROVE  ~panicked' /\ closed' = closed
  BY Zenon DEF Deliver, HubInv

LEMMA NextHubInv == HubInv /\ [Next]_vars => HubInv'
<1> SUFFICES ASSUME HubInv, [Next]_vars PROVE HubInv'
  OBVIOUS
<1>0. TypeOK'
  BY NextTypeOK DEF HubInv
<1> USE DEF runVars, memberVars, sendVars, writerVars
<1>1. CASE RunRegister
  BY <1>0, <1>1 DEF RunRegister, HubInv, TypeOK, StageInv, ClosedInv, MapsAgree
<1>2. CASE RunUnregister
  <2>1. PICK c \in unregister :
          /\ unregister' = unregister \ {c} /\ connections' = connections \ {c}
          /\ IF c \in connections
             THEN /\ closed' = [closed EXCEPT ![c] = TRUE]
                  /\ members' = [ch \in Channels |->
                        IF ch \in subscribed[c] THEN members[ch] \ {c} ELSE members[ch]]
             ELSE UNCHANGED <<closed, members>>
    BY <1>2 DEF RunUnregister
  <2>2. hpc[c] = "gone" /\ c \in Conns
    BY <2>1 DEF HubInv, StageInv, TypeOK
  <2>3. \A ch \in Channels :
          members'[ch] = IF c \in connections /\ ch \in subscribed[c]
                         THEN members[ch] \ {c} ELSE members[ch]
    BY <2>1
  <2>4. CASE c \in connections
    <3>1. c \notin register /\ \A ch \in Channels : c \notin members'[ch]
      BY <2>3, <2>4 DEF HubInv, StageInv, MapsAgree
    <3>2. ClosedInv'
      <4>1. \A d \in Conns : closed'[d] <=> closed[d] \/ d = c
        BY <2>1, <2>4 DEF HubInv, TypeOK
      <4>2. \A ch \in Channels : members'[ch] \subseteq members[ch]
        BY <2>3
      <4>3. hpc' = hpc /\ register' = register /\ connections' = connections \ {c}
        BY <1>2, <2>1 DEF RunUnregister
      <4>4. QED
        BY <2>2, <3>1, <4>1, <4>2, <4>3 DEF HubInv, ClosedInv
    <3>3. QED
      BY <1>0, <1>2, <2>1, <2>3, <3>2 DEF RunUnregister, HubInv, StageInv, MapsAgree, TypeOK
  <2>5. CASE c \notin connections
    BY <1>0, <1>2, <2>1, <2>5 DEF RunUnregister, HubInv, StageInv, ClosedInv, MapsAgree, TypeOK
  <2>6. QED
    BY <2>4, <2>5
<1>3. CASE RunBroadcast
  <2>1. connections \in SUBSET Conns /\ \A c \in connections : ~closed[c]
    BY DEF HubInv, ClosedInv, TypeOK
  <2>2. ~panicked' /\ closed' = closed
    BY <1>3, <2>1, DeliverSafe DEF RunBroadcast
  <2>3. QED
    BY <1>0, <1>3, <2>2 DEF RunBroadcast, HubInv, StageInv, ClosedInv, MapsAgree
<1>4. CASE Broadcast
  BY <1>0, <1>4 DEF Broadcast, HubInv, StageInv, ClosedInv, MapsAgree
<1>5. ASSUME NEW c \in Conns, Connect(c) \/ Leave(c) \/ Unregister(c) PROVE HubInv'
  <2>1. StageInv'
    BY <1>5 DEF Connect, Leave, Unregister, Handler, HubInv, StageInv, TypeOK
  <2>2. ClosedInv'
    BY <1>5 DEF Connect, Leave, Unregister, Handler, HubInv, ClosedInv, TypeOK
  <2>3. MapsAgree' /\ ~panicked'
    BY <1>5 DEF Connect, Leave, Unregister, HubInv, MapsAgree
  <2>4. QED
    BY <1>0, <2>1, <2>2, <2>3 DEF HubInv
<1>6. ASSUME NEW c \in Conns, NEW ch \in Channels, Subscribe(c, ch) \/ Unsubscribe(c, ch)
      PROVE  HubInv'
  <2>1. hpc[c] = "reading" /\ ~closed[c]
    BY <1>6 DEF Subscribe, Unsubscribe, HubInv, ClosedInv
  <2>2. CASE Subscribe(c, ch)
    <3>1. \A d \in Channels : \A x : x \in members'[d] <=> x \in members[d] \/ (d = ch /\ x = c)
      BY <2>2 DEF Subscribe, HubInv, TypeOK
    <3>2. \A x \in Conns : \A d : d \in subscribed'[x] <=> d \in subscribed[x] \/ (d = ch /\ x = c)
      BY <2>2 DEF Subscribe, HubInv, TypeOK
    <3>3. hpc' = hpc /\ closed' = closed /\ register' = register /\ connections' = connections
      BY <2>2 DEF Subscribe
    <3>4. ClosedInv'
      BY <2>1, <3>1, <3>3 DEF HubInv, ClosedInv
    <3>5. \A d \in Channels : members[d] \subseteq Conns
      BY DEF HubInv, TypeOK
    <3>6. MapsAgree'
      BY <3>1, <3>2, <3>5 DEF HubInv, MapsAgree
    <3>7. QED
      BY <1>0, <2>2, <3>4, <3>6 DEF Subscribe, HubInv, StageInv
  <2>3. CASE Unsubscribe(c, ch)
    <3>1. \A d \in Channels : \A x : x \in members'[d] <=> x \in members[d] /\ ~(d = ch /\ x = c)
      BY <2>3 DEF Unsubscribe, HubInv, TypeOK
    <3>2. \A x \in Conns : \A d : d \in subscribed'[x] <=> d \in subscribed[x] /\ ~(d = ch /\ x = c)
      BY <2>3 DEF Unsubscribe, HubInv, TypeOK
    <3>3. hpc' = hpc /\ closed' = closed /\ register' = register /\ connections' = connections
      BY <2>3 DEF Unsubscribe
    <3>4. ClosedInv'
      BY <3>1, <3>3 DEF HubInv, ClosedInv
    <3>5. \A d \in Channels : members[d] \subseteq Conns
      BY DEF HubInv, TypeOK
    <3>6. MapsAgree'
      BY <3>1, <3>2, <3>5 DEF HubInv, MapsAgree
    <3>7. QED
      BY <1>0, <2>3, <3>4, <3>6 DEF Unsubscribe, HubInv, StageInv
  <2>4. QED
    BY <1>6, <2>2, <2>3
<1>7. ASSUME NEW c \in Conns, Writer(c) PROVE HubInv'
  BY <1>0, <1>7 DEF Writer, Write, WriterEnd, HubInv, StageInv, ClosedInv, MapsAgree
<1>8. ASSUME NEW n \in Notices, Notify(n) PROVE HubInv'
  <2>1. DeviceOf[n] \in Channels /\ TenantOf[n] \in Channels
    BY ChannelAssumption DEF ChannelAssumption
  <2>2. \A ch \in Channels : members[ch] \in SUBSET Conns /\ \A c \in members[ch] : ~closed[c]
    BY DEF HubInv, ClosedInv, TypeOK
  <2>3. ~panicked' /\ closed' = closed
    BY <1>8, <2>1, <2>2, DeliverSafe DEF Notify, NotifyDevice, NotifyTenant
  <2>4. QED
    BY <1>0, <1>8, <2>3 DEF Notify, NotifyDevice, NotifyTenant, HubInv, StageInv, ClosedInv, MapsAgree
<1>9. CASE UNCHANGED vars
  BY <1>0, <1>9 DEF vars, HubInv, StageInv, ClosedInv, MapsAgree
<1>10. QED
  BY <1>1, <1>2, <1>3, <1>4, <1>5, <1>6, <1>7, <1>8, <1>9 DEF Next, Run, HandleWebSocket

(* The inductive invariant holds in every reachable state.                 *)
THEOREM Invariance == Spec => []HubInv
<1>1. Init => HubInv
  <2> SUFFICES ASSUME Init PROVE HubInv
    OBVIOUS
  <2>1. TypeOK
    <3>1. casts \in 0..MaxCasts
      BY BoundAssumption DEF BoundAssumption, Init
    <3>2. broadcast \in Seq(1..MaxCasts)
      BY DEF Init
    <3>3. /\ send \in [Conns -> Seq(Queued)] /\ written \in [Conns -> Seq(Written)]
          /\ members \in [Channels -> SUBSET Conns] /\ subscribed \in [Conns -> SUBSET Channels]
      BY DEF Init
    <3>4. QED
      BY <3>1, <3>2, <3>3 DEF Init, TypeOK
  <2>2. StageInv /\ ClosedInv /\ MapsAgree /\ ~panicked
    BY DEF Init, StageInv, ClosedInv, MapsAgree
  <2>3. QED
    BY <2>1, <2>2 DEF HubInv
<1>2. HubInv /\ [Next]_vars => HubInv'
  BY NextHubInv
<1>3. QED
  BY <1>1, <1>2, PTL DEF Spec

(* The queues, the maps and the goroutines' stages stay of their types.    *)
THEOREM TypeCorrect == Spec => []TypeOK
<1>1. HubInv => TypeOK
  BY DEF HubInv
<1>2. QED
  BY <1>1, Invariance, PTL

(* Run closes Send only of a connection that nobody can still reach, so no *)
(* message is sent on a closed channel.                                    *)
THEOREM SendIsOpen == Spec => []NeverSendsOnClosed
<1>1. HubInv => NeverSendsOnClosed
  BY DEF HubInv, ClosedInv, NeverSendsOnClosed, TypeOK
<1>2. QED
  BY <1>1, Invariance, PTL

-----------------------------------------------------------------------------
(* A step that delivers on a channel to its members makes only queues of   *)
(* subscribers longer.                                                     *)
LEMMA DeliverToMembers ==
    ASSUME HubInv, NEW ch \in Channels, NEW m, Deliver(members[ch], m, ch),
           NEW c \in Conns, Len(send'[c]) > Len(send[c])
    PROVE  send'[c][Len(send'[c])].via \in subscribed[c]
<1> DEFINE entry == [msg |-> m, via |-> ch]
<1>1. send[c] \in Seq(Queued)
  BY DEF HubInv, TypeOK
<1>2. send'[c] = IF c \in members[ch] /\ ~closed[c] /\ Len(send[c]) < SendCap
                 THEN Append(send[c], entry) ELSE send[c]
  BY DEF Deliver
<1>3. c \in members[ch] /\ send'[c] = Append(send[c], entry)
  BY <1>1, <1>2
<1>4. send'[c][Len(send'[c])] = entry
  <2>1. send'[c][Len(send[c]) + 1] = entry /\ Len(send'[c]) = Len(send[c]) + 1
    BY <1>1, <1>3
  <2>2. QED
    BY <2>1
<1>5. QED
  BY <1>3, <1>4 DEF HubInv, MapsAgree

(* A notification reaches no connection that is not subscribed to the      *)
(* channel it is sent on, whatever the connections do meanwhile.           *)
THEOREM SubscribersOnly == Spec => OnlyToSubscribers
<1> DEFINE Own(c) == Len(send'[c]) > Len(send[c]) =>
                        LET q == send'[c][Len(send'[c])] IN q.via = All \/ q.via \in subscribed[c]
<1>1. HubInv /\ [Next]_vars => [\A c \in Conns : Own(c)]_vars
  <2> SUFFICES ASSUME HubInv, [Next]_vars, NEW c \in Conns, Len(send'[c]) > Len(send[c])
               PROVE  LET q == send'[c][Len(send'[c])] IN q.via = All \/ q.via \in subscribed[c]
    BY DEF vars
  <2>0. send[c] \in Seq(Queued)
    BY DEF HubInv, TypeOK
  <2>1. send' # send
    BY <2>0
  <2>2. CASE RunBroadcast
    <3> DEFINE entry == [msg |-> Head(broadcast), via |-> All]
    <3>1. send'[c] = Append(send[c], entry)
      BY <2>0, <2>2 DEF RunBroadcast, Deliver
    <3>2. send'[c][Len(send[c]) + 1] = entry /\ Len(send'[c]) = Len(send[c]) + 1
      BY <2>0, <3>1
    <3>3. send'[c][Len(send'[c])] = entry
      BY <3>2
    <3>4. QED
      BY <3>3
  <2>3. ASSUME NEW n \in Notices, Notify(n)
        PROVE  send'[c][Len(send'[c])].via \in subscribed[c]
    BY <2>3, ChannelAssumption, DeliverToMembers
    DEF Notify, NotifyDevice, NotifyTenant, ChannelAssumption
  <2>4. ASSUME NEW d \in Conns, Write(d) PROVE FALSE
    BY <2>0, <2>4 DEF Write, HubInv, TypeOK
  <2>5. RunBroadcast \/ (\E n \in Notices : Notify(n)) \/ (\E d \in Conns : Write(d))
    BY <2>1 DEF Next, vars, Run, RunRegister, RunUnregister, Broadcast, HandleWebSocket, Connect,
                Leave, Unregister, Subscribe, Unsubscribe, Writer, WriterEnd, sendVars
  <2>6. QED
    BY <2>2, <2>3, <2>4, <2>5
<1>2. QED
  BY <1>1, Invariance, PTL DEF Spec, OnlyToSubscribers

(* A connection that Run has closed stays closed: no request that was       *)
(* still waiting puts it back into the table or into a channel, and its     *)
(* writer is not started again.                                             *)
ClosedForGood ==
    [][\A c \in Conns : closed[c] =>
          /\ closed'[c] /\ c \notin connections' /\ (writer'[c] => writer[c])
          /\ \A ch \in Channels : c \notin members'[ch]]_vars

(* The half of LeaversAreForgotten that is about safety (Run,              *)
(* HandleWebSocket).                                                       *)
THEOREM LeaversStayForgotten == Spec => ClosedForGood
<1> DEFINE Over(c) == /\ closed'[c] /\ c \notin connections' /\ (writer'[c] => writer[c])
                      /\ \A ch \in Channels : c \notin members'[ch]
<1>1. HubInv /\ HubInv' /\ [Next]_vars => [\A c \in Conns : closed[c] => Over(c)]_vars
  <2> SUFFICES ASSUME HubInv, HubInv', [Next]_vars, NEW c \in Conns, closed[c]
               PROVE  Over(c)
    BY DEF vars
  <2>1. hpc[c] = "gone" /\ closed \in [Conns -> BOOLEAN] /\ hpc \in [Conns -> {"away", "reading", "leaving", "gone"}]
        /\ writer \in [Conns -> BOOLEAN]
    BY DEF HubInv, ClosedInv, TypeOK
  <2>2. closed'[c] /\ (writer'[c] => writer[c])
    <3>1. CASE RunUnregister
      BY <2>1, <3>1 DEF RunUnregister, writerVars
    <3>2. ASSUME NEW d \in Conns, HandleWebSocket(d)
          PROVE  closed'[c] /\ (writer'[c] => writer[c])
      BY <2>1, <3>2 DEF HandleWebSocket, Connect, Handler, Leave, Unregister, Subscribe, Unsubscribe,
                        sendVars, writerVars
    <3>3. ASSUME NEW d \in Conns, Writer(d)
          PROVE  closed'[c] /\ (writer'[c] => writer[c])
      BY <2>1, <3>3 DEF Writer, Write, WriterEnd, sendVars
    <3>4. CASE RunRegister \/ Broadcast \/ UNCHANGED vars
      BY <3>4 DEF RunRegister, Broadcast, vars, sendVars, writerVars
    <3>5. CASE RunBroadcast
      BY <3>5 DEF RunBroadcast, Deliver, writerVars
    <3>6. ASSUME NEW n \in Notices, Notify(n)
          PROVE  closed'[c] /\ (writer'[c] => writer[c])
      BY <3>6 DEF Notify, NotifyDevice, NotifyTenant, Deliver, writerVars
    <3>7. QED
      BY <3>1, <3>2, <3>3, <3>4, <3>5, <3>6 DEF Next, Run
  <2>3. c \notin connections' /\ \A ch \in Channels : c \notin members'[ch]
    BY <2>2 DEF HubInv, ClosedInv
  <2>4. QED
    BY <2>2, <2>3
<1>2. QED
  BY <1>1, Invariance, PTL DEF Spec, ClosedForGood

-----------------------------------------------------------------------------
(* The messages of Run carry rising numbers, the largest of them the last  *)
(* that was sent; a connection has written lower ones than wait for it,    *)
(* and those are lower than what waits for Run.                            *)
Before(p, q) ==
    \A i \in 1..Len(p), j \in 1..Len(q) : p[i].via = All /\ q[j].via = All => p[i].msg < q[j].msg

CastInv ==
    /\ \A i \in 1..Len(broadcast) : broadcast[i] <= casts
    /\ \A i, j \in 1..Len(broadcast) : i < j => broadcast[i] < broadcast[j]

Numbered(s) == \A i \in 1..Len(s) : s[i].via = All => s[i].msg \in Nat /\ s[i].msg <= casts

StreamInv(c) ==
    /\ Rising(written[c]) /\ Rising(send[c]) /\ Before(written[c], send[c])
    /\ AheadOfQueue(written[c]) /\ AheadOfQueue(send[c])
    /\ Numbered(written[c]) /\ Numbered(send[c])

OrderInv == CastInv /\ \A c \in Conns : StreamInv(c)

LEMMA StreamOrder ==
    ASSUME NEW S, NEW T, NEW p \in Seq(S), NEW q \in Seq(T),
           Rising(p), Rising(q), Before(p, q), AheadOfQueue(p), AheadOfQueue(q)
    PROVE  Rising(p \o q) /\ AheadOfQueue(p \o q)
<1> DEFINE s == p \o q
<1>1. /\ Len(p) \in Nat /\ Len(q) \in Nat /\ Len(s) = Len(p) + Len(q)
      /\ \A i \in 1..Len(s) : s[i] = IF i <= Len(p) THEN p[i] ELSE q[i - Len(p)]
  OBVIOUS
<1> HIDE DEF s
<1>2. \A i \in 1..Len(s) : IF i <= Len(p) THEN i \in 1..Len(p) /\ s[i] = p[i]
                                          ELSE i - Len(p) \in 1..Len(q) /\ s[i] = q[i - Len(p)]
  BY <1>1
<1>3. ASSUME NEW i \in 1..Len(s), NEW j \in 1..Len(s), i < j, s[i].via = All, s[j].via = All
      PROVE  s[i].msg < s[j].msg
  <2>1. CASE j <= Len(p)
    BY <1>1, <1>2, <1>3, <2>1 DEF Rising
  <2>2. CASE i <= Len(p) /\ ~(j <= Len(p))
    BY <1>2, <1>3, <2>2 DEF Before
  <2>3. CASE ~(i <= Len(p))
    <3>1. /\ i - Len(p) \in 1..Len(q) /\ j - Len(p) \in 1..Len(q) /\ i - Len(p) < j - Len(p)
          /\ s[i] = q[i - Len(p)] /\ s[j] = q[j - Len(p)]
      BY <1>1, <1>2, <1>3, <2>3
    <3>2. QED
      BY <1>3, <3>1 DEF Rising
  <2>4. QED
    BY <2>1, <2>2, <2>3
<1>4. AheadOfQueue(s)
  BY <1>2 DEF AheadOfQueue
<1>5. QED
  BY <1>3, <1>4 DEF Rising, s

(* To a queue is added what is for others, or a number above all of those  *)
(* before it.                                                              *)
LEMMA AppendInOrder ==
    ASSUME NEW S, NEW T, NEW p \in Seq(S), NEW q \in Seq(T), NEW x,
           x.via = All => /\ \A i \in 1..Len(q) : q[i].via = All => q[i].msg < x.msg
                          /\ \A i \in 1..Len(p) : p[i].via = All => p[i].msg < x.msg
    PROVE  /\ Rising(q) => Rising(Append(q, x))
           /\ Before(p, q) => Before(p, Append(q, x))
<1> DEFINE s == Append(q, x)
<1>1. /\ Len(q) \in Nat /\ Len(s) = Len(q) + 1 /\ s[Len(s)] = x
      /\ \A i \in 1..Len(q) : s[i] = q[i]
  OBVIOUS
<1> HIDE DEF s
<1>2. \A i \in 1..Len(s) : (i \in 1..Len(q) /\ s[i] = q[i]) \/ (i = Len(s) /\ s[i] = x)
  BY <1>1
<1>3. Rising(q) => Rising(s)
  BY <1>1, <1>2 DEF Rising
<1>4. Before(p, q) => Before(p, s)
  BY <1>2 DEF Before
<1>5. QED
  BY <1>3, <1>4 DEF s

(* A writer moves the head of the queue to the end of what is written.     *)
LEMMA WriteInOrder ==
    ASSUME NEW S, NEW T, NEW p \in Seq(S), NEW q \in Seq(T), q # <<>>, NEW x,
           x.via = Head(q).via, x.msg = Head(q).msg,
           Rising(p), Rising(q), Before(p, q)
    PROVE  /\ Rising(Append(p, x)) /\ Rising(Tail(q)) /\ Before(Append(p, x), Tail(q))
           /\ Before(p, Tail(q))
<1> DEFINE s == Append(p, x)
           t == Tail(q)
<1>1. /\ Len(p) \in Nat /\ Len(s) = Len(p) + 1 /\ s[Len(s)] = x
      /\ \A i \in 1..Len(p) : s[i] = p[i]
  OBVIOUS
<1>2. /\ Len(q) \in Nat /\ Len(q) # 0 /\ Len(t) = Len(q) - 1 /\ Head(q) = q[1]
      /\ \A i \in 1..Len(t) : t[i] = q[i + 1]
  OBVIOUS
<1> HIDE DEF s, t
<1>3. \A i \in 1..Len(s) : (i \in 1..Len(p) /\ s[i] = p[i]) \/ (i = Len(s) /\ s[i] = x)
  BY <1>1
<1>4. 1 \in 1..Len(q) /\ \A i \in 1..Len(t) : i + 1 \in 1..Len(q) /\ 1 < i + 1
  BY <1>2
<1>5. Rising(s)
  BY <1>1, <1>2, <1>3, <1>4 DEF Rising, Before
<1>6. Rising(t)
  <2> SUFFICES ASSUME NEW i \in 1..Len(t), NEW j \in 1..Len(t), i < j, t[i].via = All, t[j].via = All
               PROVE  t[i].msg < t[j].msg
    BY DEF Rising
  <2>1. i + 1 \in 1..Len(q) /\ j + 1 \in 1..Len(q) /\ i + 1 < j + 1
    BY <1>4
  <2>2. QED
    BY <1>2, <2>1 DEF Rising
<1>7. Before(p, t)
  BY <1>2, <1>4 DEF Before
<1>8. Before(s, t)
  <2> SUFFICES ASSUME NEW i \in 1..Len(s), NEW j \in 1..Len(t), s[i].via = All, t[j].via = All
               PROVE  s[i].msg < t[j].msg
    BY DEF Before
  <2>1. CASE i \in 1..Len(p) /\ s[i] = p[i]
    BY <1>7, <2>1 DEF Before
  <2>2. CASE s[i] = x
    <3>1. t[j] = q[j + 1] /\ j + 1 \in 1..Len(q) /\ 1 < j + 1 /\ x.msg = q[1].msg /\ q[1].via = All
      BY <1>2, <1>4, <2>2
    <3>2. QED
      BY <1>4, <2>2, <3>1 DEF Rising
  <2>3. QED
    BY <1>3, <2>1, <2>2
<1>9. QED
  BY <1>5, <1>6, <1>7, <1>8 DEF s, t

LEMMA ElementOf ==
    ASSUME NEW S, NEW q \in Seq(S), NEW i \in 1..Len(q)
    PROVE  q[i] \in S
  OBVIOUS

(* What holds of each element of a queue holds of its tail.                *)
LEMMA TailOf ==
    ASSUME NEW S, NEW q \in Seq(S), q # <<>>
    PROVE  /\ Head(q) = q[1] /\ 1 \in 1..Len(q)
           /\ Tail(q) \in Seq(S)
           /\ \A i \in 1..Len(Tail(q)) : i + 1 \in 1..Len(q) /\ Tail(q)[i] = q[i + 1]
  OBVIOUS

LEMMA AppendOf ==
    ASSUME NEW S, NEW q \in Seq(S), NEW x
    PROVE  \A i \in 1..Len(Append(q, x)) :
              (i \in 1..Len(q) /\ Append(q, x)[i] = q[i]) \/ (i = Len(q) + 1 /\ Append(q, x)[i] = x)
  OBVIOUS

(* A delivery leaves a queue as it is, or adds the message at its end.     *)
LEMMA DeliverAdds ==
    ASSUME NEW to \in SUBSET Conns, NEW m, NEW ch, Deliver(to, m, ch), NEW c \in Conns
    PROVE  send'[c] = send[c] \/ send'[c] = Append(send[c], [msg |-> m, via |-> ch])
  BY DEF Deliver

(* Notifications go between the messages of Run and change no order.       *)
LEMMA NotifyInOrder ==
    ASSUME TypeOK, OrderInv, NEW n \in Notices, Notify(n)
    PROVE  OrderInv'
<1>1. UNCHANGED <<broadcast, casts, written>>
  BY DEF Notify, NotifyDevice, NotifyTenant, runVars, writerVars
<1>2. ASSUME NEW c \in Conns
      PROVE  StreamInv(c)'
  <2>1. \/ send'[c] = send[c]
        \/ \E ch \in Channels : send'[c] = Append(send[c], [msg |-> n, via |-> ch])
    <3>1. CASE NotifyDevice(n)
      <4>1. /\ Deliver(members[DeviceOf[n]], n, DeviceOf[n]) /\ DeviceOf[n] \in Channels
            /\ members[DeviceOf[n]] \in SUBSET Conns
        BY <3>1, ChannelAssumption DEF NotifyDevice, TypeOK, ChannelAssumption
      <4>2. send'[c] = send[c] \/ send'[c] = Append(send[c], [msg |-> n, via |-> DeviceOf[n]])
        BY <4>1, DeliverAdds
      <4>3. QED
        BY <4>1, <4>2
    <3>2. CASE NotifyTenant(n)
      <4>1. /\ Deliver(members[TenantOf[n]], n, TenantOf[n]) /\ TenantOf[n] \in Channels
            /\ members[TenantOf[n]] \in SUBSET Conns
        BY <3>2, ChannelAssumption DEF NotifyTenant, TypeOK, ChannelAssumption
      <4>2. send'[c] = send[c] \/ send'[c] = Append(send[c], [msg |-> n, via |-> TenantOf[n]])
        BY <4>1, DeliverAdds
      <4>3. QED
        BY <4>1, <4>2
    <3>3. QED
      BY <3>1, <3>2 DEF Notify
  <2>2. CASE send'[c] = send[c]
    BY <1>1, <2>2 DEF OrderInv, StreamInv, Rising, Before, AheadOfQueue, Numbered
  <2>3. ASSUME NEW ch \in Channels, send'[c] = Append(send[c], [msg |-> n, via |-> ch])
        PROVE  StreamInv(c)'
    <3> DEFINE x == [msg |-> n, via |-> ch]
    <3>1. x.via # All
      BY ChannelAssumption DEF ChannelAssumption, All
    <3>2. written[c] \in Seq(Written) /\ send[c] \in Seq(Queued)
      BY DEF TypeOK
    <3> HIDE DEF x
    <3>3. Rising(Append(send[c], x)) /\ Before(written[c], Append(send[c], x))
      BY <3>1, <3>2, AppendInOrder DEF OrderInv, StreamInv
    <3>4. AheadOfQueue(Append(send[c], x)) /\ Numbered(Append(send[c], x))
      BY <3>1, <3>2, AppendOf DEF OrderInv, StreamInv, AheadOfQueue, Numbered
    <3>5. send'[c] = Append(send[c], x)
      BY <2>3 DEF x
    <3>6. QED
      BY <1>1, <3>3, <3>4, <3>5 DEF OrderInv, StreamInv, Rising, Before, AheadOfQueue, Numbered
  <2>4. QED
    BY <2>1, <2>2, <2>3
<1>3. QED
  BY <1>1, <1>2 DEF OrderInv, CastInv

(* Run hands out the lowest number that waits for it.                      *)
LEMMA RunBroadcastInOrder ==
    ASSUME TypeOK, OrderInv, RunBroadcast
    PROVE  OrderInv'
<1> DEFINE m == Head(broadcast)
<1>1. /\ broadcast # <<>> /\ broadcast' = Tail(broadcast) /\ broadcast \in Seq(1..MaxCasts)
      /\ connections \in SUBSET Conns /\ Deliver(connections, m, All) /\ casts \in Nat
      /\ UNCHANGED <<casts, written>>
  BY DEF RunBroadcast, writerVars, TypeOK
<1>2. /\ m = broadcast[1] /\ 1 \in 1..Len(broadcast)
      /\ \A i \in 1..Len(broadcast') : i + 1 \in 1..Len(broadcast) /\ broadcast'[i] = broadcast[i + 1]
  BY <1>1, TailOf
<1>3. m \in Nat /\ m <= casts /\ \A i \in 1..Len(broadcast) : broadcast[i] \in Nat
  <2>1. \A i \in 1..Len(broadcast) : broadcast[i] \in 1..MaxCasts
    BY <1>1, ElementOf
  <2>2. QED
    BY <1>2, <2>1 DEF OrderInv, CastInv
<1>4. \A j \in 1..Len(broadcast') : m < broadcast'[j]
  BY <1>2 DEF OrderInv, CastInv
<1> HIDE DEF m
<1>5. CastInv'
  <2>1. \A i \in 1..Len(broadcast') : broadcast'[i] <= casts'
    BY <1>1, <1>2 DEF OrderInv, CastInv
  <2>2. ASSUME NEW i \in 1..Len(broadcast'), NEW j \in 1..Len(broadcast'), i < j
        PROVE  broadcast'[i] < broadcast'[j]
    <3>1. i + 1 < j + 1
      BY <2>2
    <3>2. QED
      BY <1>2, <3>1 DEF OrderInv, CastInv
  <2>3. QED
    BY <2>1, <2>2 DEF CastInv
<1>6. ASSUME NEW c \in Conns
      PROVE  StreamInv(c)'
  <2> DEFINE x == [msg |-> m, via |-> All]
  <2>1. written[c] \in Seq(Written) /\ send[c] \in Seq(Queued)
    BY DEF TypeOK
  <2>2. send'[c] = send[c] \/ send'[c] = Append(send[c], x)
    BY <1>1, DeliverAdds
  <2>3. x.msg = m /\ x.via = All
    OBVIOUS
  <2> HIDE DEF x
  <2>4. /\ \A i \in 1..Len(send[c]) : send[c][i].via = All => send[c][i].msg < x.msg
        /\ \A i \in 1..Len(written[c]) : written[c][i].via = All => written[c][i].msg < x.msg
    BY <1>2, <2>3 DEF OrderInv, StreamInv, AheadOfQueue
  <2>5. Rising(Append(send[c], x)) /\ Before(written[c], Append(send[c], x))
    BY <2>1, <2>4, AppendInOrder DEF OrderInv, StreamInv
  <2>6. Rising(send'[c]) /\ Before(written[c], send'[c])
    BY <2>2, <2>5 DEF OrderInv, StreamInv
  <2>7. \A i \in 1..Len(send'[c]) : (i \in 1..Len(send[c]) /\ send'[c][i] = send[c][i]) \/ send'[c][i] = x
    BY <2>1, <2>2, AppendOf
  <2>8. /\ \A i \in 1..Len(send'[c]), j \in 1..Len(broadcast') :
              send'[c][i].via = All => send'[c][i].msg < broadcast'[j]
        /\ \A i \in 1..Len(written[c]), j \in 1..Len(broadcast') :
              written[c][i].via = All => written[c][i].msg < broadcast'[j]
    BY <1>2, <1>4, <2>3, <2>7 DEF OrderInv, StreamInv, AheadOfQueue
  <2>9. \A i \in 1..Len(send'[c]) : send'[c][i].via = All => send'[c][i].msg \in Nat /\ send'[c][i].msg <= casts
    BY <1>3, <2>3, <2>7 DEF OrderInv, StreamInv, Numbered
  <2>10. QED
    BY <1>1, <2>6, <2>8, <2>9 DEF OrderInv, StreamInv, Rising, Before, AheadOfQueue, Numbered
<1>7. QED
  BY <1>5, <1>6 DEF OrderInv

LEMMA BroadcastInOrder ==
    ASSUME TypeOK, OrderInv, Broadcast
    PROVE  OrderInv'
<1>1. /\ broadcast' = Append(broadcast, casts + 1) /\ casts' = casts + 1 /\ casts \in Nat
      /\ broadcast \in Seq(1..MaxCasts) /\ UNCHANGED <<send, written>>
  BY DEF Broadcast, sendVars, writerVars, TypeOK
<1>2. \A i \in 1..Len(broadcast') :
          \/ i \in 1..Len(broadcast) /\ broadcast'[i] = broadcast[i] /\ i < Len(broadcast')
          \/ i = Len(broadcast') /\ broadcast'[i] = casts'
  BY <1>1
<1>3. \A i \in 1..Len(broadcast) : broadcast[i] \in Nat /\ broadcast[i] <= casts
  <2>1. \A i \in 1..Len(broadcast) : broadcast[i] \in 1..MaxCasts
    BY <1>1, ElementOf
  <2>2. QED
    BY <2>1 DEF OrderInv, CastInv
<1>4. CastInv'
  <2>1. \A i \in 1..Len(broadcast') : broadcast'[i] <= casts'
    BY <1>1, <1>2, <1>3
  <2>2. ASSUME NEW i \in 1..Len(broadcast'), NEW j \in 1..Len(broadcast'), i < j
        PROVE  broadcast'[i] < broadcast'[j]
    <3>1. i \in 1..Len(broadcast) /\ broadcast'[i] = broadcast[i]
      BY <1>1, <1>2, <2>2
    <3>2. CASE j \in 1..Len(broadcast) /\ broadcast'[j] = broadcast[j]
      BY <2>2, <3>1, <3>2 DEF OrderInv, CastInv
    <3>3. CASE broadcast'[j] = casts'
      BY <1>1, <1>3, <3>1, <3>3
    <3>4. QED
      BY <1>2, <3>2, <3>3
  <2>3. QED
    BY <2>1, <2>2 DEF CastInv
<1>5. ASSUME NEW c \in Conns
      PROVE  StreamInv(c)'
  <2>1. /\ \A i \in 1..Len(send[c]), j \in 1..Len(broadcast') :
              send[c][i].via = All => send[c][i].msg < broadcast'[j]
        /\ \A i \in 1..Len(written[c]), j \in 1..Len(broadcast') :
              written[c][i].via = All => written[c][i].msg < broadcast'[j]
    <3>1. /\ \A i \in 1..Len(send[c]) : send[c][i].via = All => send[c][i].msg < casts'
          /\ \A i \in 1..Len(written[c]) : written[c][i].via = All => written[c][i].msg < casts'
      BY <1>1 DEF OrderInv, StreamInv, Numbered
    <3>2. \A j \in 1..Len(broadcast') : broadcast'[j] = casts'
              \/ (j \in 1..Len(broadcast) /\ broadcast'[j] = broadcast[j])
      BY <1>2
    <3>3. QED
      BY <3>1, <3>2 DEF OrderInv, StreamInv, AheadOfQueue
  <2>2. /\ \A i \in 1..Len(send[c]) : send[c][i].via = All => send[c][i].msg \in Nat /\ send[c][i].msg <= casts'
        /\ \A i \in 1..Len(written[c]) :
              written[c][i].via = All => written[c][i].msg \in Nat /\ written[c][i].msg <= casts'
    BY <1>1 DEF OrderInv, StreamInv, Numbered
  <2>3. QED
    BY <1>1, <2>1, <2>2 DEF OrderInv, StreamInv, Rising, Before, AheadOfQueue, Numbered
<1>6. QED
  BY <1>4, <1>5 DEF OrderInv

LEMMA WriteKeepsOrder ==
    ASSUME TypeOK, OrderInv, NEW d \in Conns, Write(d)
    PROVE  OrderInv'
<1> DEFINE p == written[d]
           q == send[d]
           x == [msg |-> Head(q).msg, via |-> Head(q).via, label |-> Label(Head(q).msg)]
<1>1. /\ q # <<>> /\ send' = [send EXCEPT ![d] = Tail(q)]
      /\ \/ written' = [written EXCEPT ![d] = Append(p, x)]
         \/ written' = written
      /\ UNCHANGED <<broadcast, casts>>
  BY DEF Write, runVars
<1>2. /\ p \in Seq(Written) /\ q \in Seq(Queued) /\ written \in [Conns -> Seq(Written)]
      /\ send \in [Conns -> Seq(Queued)]
  BY DEF TypeOK
<1>3. x.via = Head(q).via /\ x.msg = Head(q).msg
  OBVIOUS
<1>4. send'[d] = Tail(q) /\ (written'[d] = Append(p, x) \/ written'[d] = p)
  BY <1>1, <1>2
<1>5. \A c \in Conns \ {d} : send'[c] = send[c] /\ written'[c] = written[c]
  BY <1>1, <1>2
<1>6. StreamInv(d)
  BY DEF OrderInv
<1> HIDE DEF p, q, x
<1>7. /\ Rising(Append(p, x)) /\ Rising(Tail(q)) /\ Before(Append(p, x), Tail(q)) /\ Before(p, Tail(q))
      /\ Rising(p)
  BY <1>1, <1>2, <1>3, <1>6, WriteInOrder DEF StreamInv, p, q
<1>8. AheadOfQueue(Tail(q)) /\ Numbered(Tail(q))
  <2>1. \A i \in 1..Len(Tail(q)) : i + 1 \in 1..Len(q) /\ Tail(q)[i] = q[i + 1]
    BY <1>1, <1>2, TailOf
  <2>2. AheadOfQueue(q) /\ Numbered(q)
    BY <1>6 DEF StreamInv, q
  <2>3. QED
    BY <2>1, <2>2 DEF AheadOfQueue, Numbered
<1>9. AheadOfQueue(Append(p, x)) /\ Numbered(Append(p, x)) /\ AheadOfQueue(p) /\ Numbered(p)
  <2>1. /\ x.via = All => x.msg \in Nat /\ x.msg <= casts
        /\ x.via = All => \A j \in 1..Len(broadcast) : x.msg < broadcast[j]
    BY <1>1, <1>2, <1>3, <1>6, TailOf DEF StreamInv, AheadOfQueue, Numbered, q
  <2>2. AheadOfQueue(p) /\ Numbered(p)
    BY <1>6 DEF StreamInv, p
  <2>3. QED
    BY <1>2, <2>1, <2>2, AppendOf DEF AheadOfQueue, Numbered
<1>10. StreamInv(d)'
  BY <1>1, <1>4, <1>7, <1>8, <1>9 DEF StreamInv, Rising, Before, AheadOfQueue, Numbered
<1>11. ASSUME NEW c \in Conns \ {d}
       PROVE  StreamInv(c)'
  BY <1>1, <1>5 DEF OrderInv, StreamInv, Rising, Before, AheadOfQueue, Numbered
<1>12. CastInv'
  BY <1>1 DEF OrderInv, CastInv
<1>13. QED
  BY <1>10, <1>11, <1>12 DEF OrderInv

(* What Run hands out reaches each connection in the order it was sent in, *)
(* once, whatever a full queue drops and whatever notifications go between *)
(* (Run, the writer goroutine).                                            *)
THEOREM MessagesInOrder == Spec => []InOrder
<1>1. Init => OrderInv
  BY DEF Init, OrderInv, CastInv, StreamInv, Rising, Before, AheadOfQueue, Numbered
<1>2. TypeOK /\ OrderInv /\ [Next]_vars => OrderInv'
  <2> SUFFICES ASSUME TypeOK, OrderInv, [Next]_vars PROVE OrderInv'
    OBVIOUS
  <2>1. ASSUME UNCHANGED <<broadcast, casts, send, written>>
        PROVE  OrderInv'
    BY <2>1 DEF OrderInv, CastInv, StreamInv, Rising, Before, AheadOfQueue, Numbered
  <2>2. CASE RunRegister \/ RunUnregister \/ UNCHANGED vars
    BY <2>1, <2>2 DEF RunRegister, RunUnregister, vars, runVars, sendVars, writerVars
  <2>3. ASSUME NEW c \in Conns, HandleWebSocket(c) \/ WriterEnd(c)
        PROVE  OrderInv'
    BY <2>1, <2>3 DEF HandleWebSocket, Connect, Leave, Unregister, Subscribe, Unsubscribe, WriterEnd,
       runVars, sendVars, writerVars
  <2>4. QED
    BY <2>2, <2>3, NotifyInOrder, RunBroadcastInOrder, BroadcastInOrder, WriteKeepsOrder DEF Next, Run, Writer
<1>3. TypeOK /\ OrderInv => InOrder
  <2> SUFFICES ASSUME TypeOK, OrderInv, NEW c \in Conns
               PROVE  Rising(written[c] \o send[c]) /\ AheadOfQueue(written[c] \o send[c])
    BY DEF InOrder
  <2>1. written[c] \in Seq(Written) /\ send[c] \in Seq(Queued)
    BY DEF TypeOK
  <2>2. QED
    BY <2>1, StreamOrder DEF OrderInv, StreamInv
<1>4. QED
  BY <1>1, <1>2, <1>3, TypeCorrect, PTL DEF Spec
=============================================================================
