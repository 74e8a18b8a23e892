--------------------------- MODULE FieldTripProofs ---------------------------
(***************************************************************************)
(* Proofs about the field-trip components, for any number of requests,     *)
(* tablets, groups and broadcasts: FieldTripMailbox, with or without       *)
(* restarts, abandoned polls and rows that cannot be marked; FieldTripHub; *)
(* and FieldTripCodes, of which every step is one of the registry or a     *)
(* stutter.                                                                *)
(***************************************************************************)
EXTENDS FieldTripMailbox, FieldTripCodes, TLAPS

-----------------------------------------------------------------------------
(* The mailbox                                                             *)

(* Rows: what was requested after a row was stored sorts behind it.        *)
RowInv ==
    /\ \A s \in Sets : wpc[s] = "stored" <=> status[s] # "absent"
    /\ \A s \in Sets : wpc[s] = "stored" => rowid[s] < nextRow
    /\ \A s \in Sets : createdAt[s] <= now
    /\ \A s, t \in Sets : s \in seen[t] =>
          /\ wpc[s] = "stored" /\ wpc[t] # "idle"
          /\ createdAt[s] <= createdAt[t]
          /\ wpc[t] = "stored" => rowid[s] < rowid[t]

(* Polls: a poll carries stored rows, and with each of them every older    *)
(* one that was not yet delivered; what it could mark is delivered.        *)
PollInv ==
    \A p \in Polls :
        /\ todo[p] \subseteq batch[p] /\ batch[p] \subseteq Stored
        /\ ppc[p] \in {"idle", "select"} => batch[p] = {}
        /\ ppc[p] = "respond" => todo[p] = {}
        /\ \A t \in batch[p] : \A s \in seen[t] : s \in batch[p] \/ status[s] = "delivered"
        /\ \A t \in batch[p] \ Unmarkable : t \in todo[p] \/ status[t] = "delivered"

(* The tablet: what is older than the whitelist it applied is delivered,   *)
(* and the poll it waits for brings nothing of it, as far as rows could be *)
(* marked.                                                                 *)
TabletInv ==
    applied # None =>
        /\ applied \in Stored
        /\ \A s \in seen[applied] \ Unmarkable :
              /\ status[s] = "delivered"
              /\ \A p \in Polls : current = p => s \notin batch[p]

MailboxInv == MailboxTypeOK /\ RowInv /\ PollInv /\ OldestFirst /\ TabletInv
-----------------------------------------------------------------------------
LEMMA InitMailboxTypeOK == MailboxInit => MailboxTypeOK
  BY DEF MailboxInit, MailboxTypeOK

LEMMA NextMailboxTypeOK == MailboxTypeOK /\ [MailboxNext]_mailboxVars => MailboxTypeOK'
<1> SUFFICES ASSUME MailboxTypeOK, [MailboxNext]_mailboxVars PROVE MailboxTypeOK'
  OBVIOUS
<1> USE NoneAssumption, ClockAssumption DEF MailboxTypeOK, setVars, rowVars, pollVars
<1>1. CASE \E s \in Sets : SetBegin(s)
  BY <1>1 DEF SetBegin, Stored
<1>2. CASE \E s \in Sets : SetPush(s)
  BY <1>2 DEF SetPush
<1>3. CASE \E p \in Polls : PollBegin(p)
  BY <1>3 DEF PollBegin
<1>4. CASE \E p \in Polls : PollSelect(p)
  BY <1>4 DEF PollSelect, Pending
<1>5. CASE \E p \in Polls : PollMark(p)
  <2> PICK p \in Polls, s \in Sets : MarkOne(p, s)
    BY <1>5 DEF PollMark
  <2> QED
    BY DEF MarkOne
<1>6. CASE \E p \in Polls : PollRespond(p)
  <2> PICK p \in Polls : PollRespond(p)
    BY <1>6
  <2>1. PollAnswer(p) \subseteq Sets
    BY DEF PollAnswer, Last
  <2> QED
    BY <2>1 DEF PollRespond, RespondAs
<1>7. CASE Tick
  BY <1>7 DEF Tick
<1>8. CASE DeleteTablet \/ GiveUp
  BY <1>8 DEF DeleteTablet, GiveUp
<1>9. CASE Crash
  BY <1>9 DEF Crash
<1>10. CASE UNCHANGED mailboxVars
  BY <1>10 DEF mailboxVars
<1>11. QED
  BY <1>1, <1>2, <1>3, <1>4, <1>5, <1>6, <1>7, <1>8, <1>9, <1>10
     DEF MailboxNext, SetWhitelist, PollCommands

(* Every state is well typed (rows, requests, polls and tablet), whatever  *)
(* the faults.                                                             *)
THEOREM MailboxTypeCorrect == MailboxSpec => []MailboxTypeOK
  BY InitMailboxTypeOK, NextMailboxTypeOK, PTL DEF MailboxSpec
-----------------------------------------------------------------------------
(* What a request saw stored sorts before its own row.                     *)
LEMMA SeenIsBefore ==
  ASSUME MailboxTypeOK, RowInv, NEW t \in Sets, NEW s \in seen[t], wpc[t] = "stored"
  PROVE  s \in Sets /\ Before(s, t) /\ ~Before(t, s)
  BY DEF MailboxTypeOK, RowInv, Before

LEMMA AnswerFromBatch ==
  ASSUME MailboxTypeOK, NEW p \in Polls, NEW s \in PollAnswer(p)
  PROVE  s \in batch[p]
  BY DEF PollAnswer, Last, MailboxTypeOK

LEMMA InitMailboxInv == MailboxInit => MailboxInv
  BY InitMailboxTypeOK DEF MailboxInit, MailboxInv, MailboxTypeOK, RowInv, PollInv, OldestFirst, TabletInv, Stored

LEMMA SetBeginStep ==
  ASSUME MailboxInv, NEW q \in Sets, SetBegin(q)
  PROVE  (RowInv /\ PollInv /\ OldestFirst /\ TabletInv)'
<1> USE DEF MailboxInv, MailboxTypeOK, SetBegin, rowVars, pollVars
<1>1. RowInv'
  BY DEF RowInv, Stored
<1>2. \A t \in Sets : status[t] # "absent" => t # q /\ seen'[t] = seen[t]
  BY DEF RowInv
<1>3. Stored' = Stored
  BY DEF Stored
<1>4. PollInv'
  BY <1>2, <1>3 DEF PollInv, RowInv, Stored
<1>5. OldestFirst' /\ TabletInv'
  BY <1>2, NoneAssumption DEF OldestFirst, TabletInv, Stored, RowInv
<1>6. QED
  BY <1>1, <1>4, <1>5

LEMMA SetPushStep ==
  ASSUME MailboxInv, NEW q \in Sets, SetPush(q)
  PROVE  (RowInv /\ PollInv /\ OldestFirst /\ TabletInv)'
<1> USE DEF MailboxInv, MailboxTypeOK, SetPush, pollVars
<1>1. RowInv'
  BY DEF RowInv
<1>2. status[q] = "absent" /\ \A t \in Sets : q \notin seen[t]
  BY DEF RowInv
<1>3. Stored \subseteq Stored'
  BY DEF Stored
<1>4. PollInv'
  BY <1>2, <1>3 DEF PollInv, Stored
<1>5. OldestFirst'
  BY <1>2 DEF OldestFirst
<1>6. TabletInv'
  BY <1>2, NoneAssumption DEF TabletInv, Stored
<1>7. QED
  BY <1>1, <1>4, <1>5, <1>6

LEMMA PollSelectStep ==
  ASSUME MailboxInv, NEW q \in Polls, PollSelect(q)
  PROVE  (RowInv /\ PollInv /\ OldestFirst /\ TabletInv)'
<1> USE DEF MailboxInv, MailboxTypeOK, PollSelect, setVars, rowVars
<1>1. RowInv' /\ OldestFirst'
  BY DEF RowInv, OldestFirst
<1>2. Pending \subseteq Stored /\ Stored' = Stored
  BY DEF Pending, Stored, RowInv
<1>3. \A t \in Pending : \A s \in seen[t] : s \in Pending \/ status[s] = "delivered"
  BY DEF Pending, RowInv
<1>4. PollInv'
  BY <1>2, <1>3 DEF PollInv
<1>5. TabletInv'
  BY <1>2, NoneAssumption DEF TabletInv, OldestFirst, Pending
<1>6. QED
  BY <1>1, <1>4, <1>5

(* The heart of it: the row that is marked is the oldest one left, so      *)
(* every row its request saw stored is delivered already.                  *)
LEMMA MarkStep ==
  ASSUME MailboxInv, NEW q \in Polls, PollMark(q)
  PROVE  (RowInv /\ PollInv /\ OldestFirst /\ TabletInv)'
<1> USE DEF MailboxInv, MailboxTypeOK, setVars
<1>1. PICK m \in todo[q] : First(m, todo[q]) /\ MarkOne(q, m)
  BY DEF PollMark
<1>2. /\ m \in Sets /\ m \in batch[q] /\ wpc[m] = "stored"
      /\ status' = [status EXCEPT ![m] = "delivered"] \/ (m \in Unmarkable /\ status' = status)
  BY <1>1 DEF PollInv, MarkOne, Stored
<1>3. \A s \in seen[m] \ Unmarkable : status[s] = "delivered"
  <2> SUFFICES ASSUME NEW s \in seen[m] \ Unmarkable, status[s] # "delivered" PROVE FALSE
    OBVIOUS
  <2>1. s \in Sets /\ Before(s, m) /\ ~Before(m, s)
    BY <1>2, SeenIsBefore
  <2>2. s \in todo[q]
    BY <1>2 DEF PollInv
  <2>3. s # m
    BY <2>1
  <2>4. QED
    BY <1>1, <2>1, <2>2, <2>3 DEF First
<1>4. OldestFirst'
  BY <1>1, <1>2, <1>3 DEF OldestFirst, MarkOne
<1>5. RowInv'
  BY <1>1, <1>2 DEF RowInv, MarkOne
<1>6. PollInv'
  BY <1>1, <1>2 DEF PollInv, MarkOne, Stored
<1>7. TabletInv'
  BY <1>1, <1>2, NoneAssumption DEF TabletInv, MarkOne, Stored
<1>8. QED
  BY <1>4, <1>5, <1>6, <1>7

LEMMA RespondStep ==
  ASSUME MailboxInv, NEW q \in Polls, PollRespond(q)
  PROVE  (RowInv /\ PollInv /\ OldestFirst /\ TabletInv)'
<1> USE DEF MailboxInv, MailboxTypeOK, PollRespond, RespondAs, setVars, rowVars
<1>1. RowInv' /\ OldestFirst'
  BY DEF RowInv, OldestFirst
<1>2. PollInv'
  BY DEF PollInv, Stored
<1>3. TabletInv'
  <2>1. CASE current = q /\ PollAnswer(q) # {}
    <3>1. applied' \in batch[q] /\ applied' \in Sets
      BY <2>1, AnswerFromBatch
    <3>2. \A s \in seen[applied'] \ Unmarkable : status[s] = "delivered"
      <4> SUFFICES ASSUME NEW s \in seen[applied'] \ Unmarkable PROVE status[s] = "delivered"
        OBVIOUS
      <4>1. s \in batch[q] \/ status[s] = "delivered"
        BY <3>1 DEF PollInv
      <4>2. todo[q] = {}
        BY DEF PollInv
      <4>3. QED
        BY <4>1, <4>2 DEF PollInv
    <3>3. current' = None /\ applied' \in Stored /\ Stored' = Stored
      BY <2>1, <3>1 DEF PollInv, Stored
    <3>4. QED
      BY <3>2, <3>3, NoneAssumption DEF TabletInv
  <2>2. CASE ~(current = q /\ PollAnswer(q) # {})
    BY <2>2, NoneAssumption DEF TabletInv, Stored
  <2>3. QED
    BY <2>1, <2>2
<1>4. QED
  BY <1>1, <1>2, <1>3

LEMMA OtherSteps ==
  ASSUME MailboxInv,
         \/ \E p \in Polls : PollBegin(p)
         \/ Tick \/ DeleteTablet \/ GiveUp \/ Crash \/ UNCHANGED mailboxVars
  PROVE  (RowInv /\ PollInv /\ OldestFirst /\ TabletInv)'
<1> USE NoneAssumption DEF MailboxInv, MailboxTypeOK, RowInv, PollInv, OldestFirst, TabletInv, Stored,
                           setVars, rowVars, pollVars
<1>1. CASE \E p \in Polls : PollBegin(p)
  BY <1>1 DEF PollBegin
<1>2. CASE Tick
  BY <1>2, ClockAssumption DEF Tick
<1>3. CASE DeleteTablet \/ GiveUp
  BY <1>3 DEF DeleteTablet, GiveUp
<1>4. CASE Crash
  BY <1>4 DEF Crash
<1>5. CASE UNCHANGED mailboxVars
  BY <1>5 DEF mailboxVars
<1>6. QED
  BY <1>1, <1>2, <1>3, <1>4, <1>5

LEMMA NextMailboxInv == MailboxInv /\ [MailboxNext]_mailboxVars => MailboxInv'
<1> SUFFICES ASSUME MailboxInv, [MailboxNext]_mailboxVars PROVE MailboxInv'
  OBVIOUS
<1>1. MailboxTypeOK'
  BY NextMailboxTypeOK DEF MailboxInv
<1>2. (RowInv /\ PollInv /\ OldestFirst /\ TabletInv)'
  BY SetBeginStep, SetPushStep, PollSelectStep, MarkStep, RespondStep, OtherSteps
     DEF MailboxNext, SetWhitelist, PollCommands
<1>3. QED
  BY <1>1, <1>2 DEF MailboxInv

LEMMA MailboxInvariance == MailboxSpec => []MailboxInv
<1>1. MailboxInv /\ [MailboxNext]_mailboxVars => MailboxInv'
  BY NextMailboxInv
<1>2. QED
  BY <1>1, InitMailboxInv, PTL DEF MailboxSpec
-----------------------------------------------------------------------------
(* No whitelist is left in the mailbox behind a delivered newer one, in    *)
(* spite of abandoned polls and restarts, except rows that could not be    *)
(* marked.                                                                 *)
THEOREM MailboxOrder == MailboxSpec => []OldestFirst
<1>1. MailboxInv => OldestFirst
  BY DEF MailboxInv
<1>2. QED
  BY <1>1, MailboxInvariance, PTL

LEMMA StepForward ==
  ASSUME MailboxInv, [MailboxNext]_mailboxVars, applied' # applied, applied # None
  PROVE  applied' \notin seen[applied] \ Unmarkable
<1>1. PICK p \in Polls : PollRespond(p)
  BY DEF MailboxNext, SetWhitelist, PollCommands, SetBegin, SetPush, PollBegin, PollSelect, PollMark,
         MarkOne, Tick, DeleteTablet, GiveUp, Crash, mailboxVars
<1>2. current = p /\ PollAnswer(p) # {} /\ applied' \in PollAnswer(p)
  BY <1>1 DEF PollRespond, RespondAs
<1>3. applied' \in batch[p]
  BY <1>2, AnswerFromBatch DEF MailboxInv
<1>4. QED
  BY <1>2, <1>3 DEF MailboxInv, TabletInv

(* The tablet never goes back to a whitelist that was already stored when  *)
(* the one it has was requested, except one that could not be marked.      *)
THEOREM TabletNeverReverts == MailboxSpec => NeverReverts
<1>1. MailboxInv /\ [MailboxNext]_mailboxVars => (applied' # applied /\ applied # None =>
                                applied' \notin seen[applied] \ Unmarkable)
  BY StepForward
<1>2. MailboxSpec => []MailboxInv
  BY MailboxInvariance
<1>3. QED
  BY <1>1, <1>2, PTL DEF MailboxSpec, NeverReverts

-----------------------------------------------------------------------------
(* The registry and the broadcasts                                         *)

(* A device id has a row only after its own request inserted it, and       *)
(* tablets know an id only once that request was answered.                 *)
CreateInv ==
    \A d \in Devices :
        /\ d \in Rows => cpc[d] \in {"cache", "done"}
        /\ bpc[d] # "idle" \/ bound[d] # All => cpc[d] = "done"

(* Tablets bind to the group their row was created with.                   *)
BindInv ==
    \A d \in Devices :
        /\ bpc[d] = "store" => bgroup[d] = groupId[d]
        /\ bound[d] # All => bound[d] = groupId[d]

(* A broadcast to a group is published once, and not at all only if no     *)
(* registered device has that group.                                       *)
CastInv ==
    \A b \in Casts : target[b] # All =>
        /\ spc[b] = "publish" => sends[b] = {target[b]}
        /\ spc[b] \in {"publish", "done"} =>
              \A d \in audience[b] : bound[d] = target[b]

(* What the next invariants ask of a step: a tablet that gets past the      *)
(* check of its group key gave the one of its own group.                    *)
BindsOwn ==
    \A d \in Devices : bpc[d] = "group" /\ bpc'[d] = "store" => bgroup'[d] = groupId[d]

HearInv == TypeOK /\ CreateInv /\ BindInv /\ CastInv /\ GroupHears

(* A broadcast is stored by its own request.                               *)
StoredInv == \A b \in stored : spc[b] # "idle"

RefInv == TypeOK /\ StoredInv /\ ReferencesIntact
-----------------------------------------------------------------------------
LEMMA InitTypeOK == Init => TypeOK
  BY DEF Init, TypeOK

LEMMA NextTypeOK == TypeOK /\ [Next]_vars => TypeOK'
<1> SUFFICES ASSUME TypeOK, [Next]_vars PROVE TypeOK'
  OBVIOUS
<1> USE DEF TypeOK, deviceVars, tabletVars, castVars, Rows, Live
<1>1. CASE RecycleConnection
  BY <1>1 DEF RecycleConnection
<1>2. CASE \E g \in Groups : CreateGroup(g) \/ DeleteGroup(g)
  BY <1>2 DEF CreateGroup, DeleteGroup
<1>3. CASE \E d \in Devices : CreateDevice(d)
  BY <1>3 DEF CreateDevice, CreateLookup, CreateInsert, CreateCache
<1>4. CASE \E d \in Devices : DeleteDevice(d)
  BY <1>4 DEF DeleteDevice
<1>5. CASE \E d \in Devices : BindDevice(d)
  BY <1>5 DEF BindDevice, BindLookup, BindGroup, BindStore
<1>6. CASE \E d \in Devices : ReportLocation(d)
  BY <1>6 DEF ReportLocation, ReportUpdate, ReportLog
<1>7. CASE \E b \in Casts, t \in Groups \cup {All} : CastStore(b, t)
  BY <1>7 DEF CastStore
<1>8. CASE \E b \in Casts : CastList(b)
  BY <1>8 DEF CastList, ListAs, Active, Unbound
<1>9. CASE \E b \in Casts : CastPublish(b)
  BY <1>9 DEF CastPublish
<1>10. CASE UNCHANGED vars
  BY <1>10 DEF vars
<1>11. QED
  BY <1>1, <1>2, <1>3, <1>4, <1>5, <1>6, <1>7, <1>8, <1>9, <1>10 DEF Next, SendBroadcast

(* Every state is well typed, whatever the faults.                         *)
THEOREM TypeCorrect == Spec => []TypeOK
  BY InitTypeOK, NextTypeOK, PTL DEF Spec
-----------------------------------------------------------------------------
LEMMA InitRefInv == Init => RefInv
  BY InitTypeOK DEF Init, RefInv, StoredInv, ReferencesIntact, NoOrphans, Rows

LEMMA NextRefInv == RefInv /\ [Next]_vars => RefInv'
<1> SUFFICES ASSUME RefInv, [Next]_vars PROVE (StoredInv /\ ReferencesIntact)'
  BY NextTypeOK DEF RefInv
<1> USE AllAssumption DEF RefInv, TypeOK, StoredInv, ReferencesIntact, NoOrphans, Rows, Live,
                             deviceVars, tabletVars, castVars
<1>1. CASE RecycleConnection
  BY <1>1 DEF RecycleConnection
<1>2. CASE \E g \in Groups : CreateGroup(g)
  BY <1>2 DEF CreateGroup
<1>3. CASE \E g \in Groups : DeleteGroup(g)
  BY <1>3 DEF DeleteGroup, Referenced
<1>4. CASE \E d \in Devices : CreateDevice(d)
  <2> PICK d \in Devices : CreateDevice(d)
    BY <1>4
  <2>1. CASE \E g \in Groups : CreateLookup(d, g)
    BY <2>1 DEF CreateLookup
  <2>2. CASE CreateInsert(d)
    BY <2>2 DEF CreateInsert
  <2>3. CASE CreateCache(d)
    BY <2>3 DEF CreateCache
  <2>4. QED
    BY <2>1, <2>2, <2>3 DEF CreateDevice
<1>5. CASE \E d \in Devices : DeleteDevice(d)
  BY <1>5 DEF DeleteDevice
<1>6. CASE \E d \in Devices : BindDevice(d)
  <2> PICK d \in Devices : BindDevice(d)
    BY <1>6
  <2>1. UNCHANGED <<fk, group, groupId, keys, logs, spc, target, stored>>
    BY DEF BindDevice, BindLookup, BindGroup, BindStore
  <2>2. Rows' = Rows
    BY DEF BindDevice, BindLookup, BindGroup, BindStore
  <2>3. QED
    BY <2>1, <2>2
<1>7. CASE \E d \in Devices : ReportLocation(d)
  <2> PICK d \in Devices : ReportLocation(d)
    BY <1>7
  <2>1. UNCHANGED <<fk, group, groupId, keys, spc, target, stored>> /\ (fk => logs' \subseteq logs \cup Rows)
    BY DEF ReportLocation, ReportUpdate, ReportLog
  <2>2. Rows' = Rows
    BY DEF ReportLocation, ReportUpdate, ReportLog
  <2>3. QED
    BY <2>1, <2>2
<1>8. CASE \E b \in Casts : SendBroadcast(b)
  <2> PICK b \in Casts : SendBroadcast(b)
    BY <1>8
  <2>1. CASE \E t \in Groups \cup {All} : CastStore(b, t)
    <3> PICK t \in Groups \cup {All} : CastStore(b, t)
      BY <2>1
    <3>1. UNCHANGED <<fk, group, row, groupId, keys, logs>> /\ StoredInv'
      BY DEF CastStore
    <3>2. fk => \A c \in stored' : target'[c] \in Live
      <4>1. CASE t \in Live
        BY <4>1 DEF CastStore
      <4>2. CASE t \notin Live
        BY <4>2 DEF CastStore
      <4>3. QED
        BY <4>1, <4>2
    <3>3. QED
      BY <3>1, <3>2
  <2>2. CASE CastList(b) \/ CastPublish(b)
    <3>1. UNCHANGED <<fk, group, row, groupId, keys, logs, target, stored>>
      BY <2>2 DEF CastList, ListAs, CastPublish
    <3>2. \A c \in Casts : spc'[c] = "idle" => spc[c] = "idle"
      <4>1. \E v \in {"publish", "done"} : spc' = [spc EXCEPT ![b] = v]
        BY <2>2 DEF CastList, ListAs, CastPublish
      <4>2. QED
        BY <4>1
    <3>3. QED
      BY <3>1, <3>2
  <2>3. QED
    BY <2>1, <2>2 DEF SendBroadcast
<1>9. CASE UNCHANGED vars
  BY <1>9 DEF vars
<1>10. QED
  BY <1>1, <1>2, <1>3, <1>4, <1>5, <1>6, <1>7, <1>8, <1>9 DEF Next

(* While the connection that enforces foreign keys lasts, no interleaving  *)
(* of requests leaves a row that refers to a deleted one.                  *)
THEOREM ReferentialIntegrity == Spec => []ReferencesIntact
<1>1. RefInv /\ [Next]_vars => RefInv'
  BY NextRefInv
<1>2. RefInv => ReferencesIntact
  BY DEF RefInv
<1>3. QED
  BY <1>1, <1>2, InitRefInv, PTL DEF Spec
-----------------------------------------------------------------------------
LEMMA InitHearInv == Init => HearInv
  BY InitTypeOK DEF Init, HearInv, CreateInv, BindInv, CastInv, GroupHears, Rows

LEMMA NextCreateInv == TypeOK /\ CreateInv /\ [Next]_vars => CreateInv'
<1> SUFFICES ASSUME TypeOK, CreateInv, [Next]_vars PROVE CreateInv'
  OBVIOUS
<1> USE DEF TypeOK, CreateInv, Rows, deviceVars, tabletVars
<1>1. CASE RecycleConnection \/ (\E g \in Groups : CreateGroup(g) \/ DeleteGroup(g)) \/ UNCHANGED vars
  BY <1>1 DEF RecycleConnection, CreateGroup, DeleteGroup, vars
<1>2. CASE \E d \in Devices : CreateDevice(d)
  BY <1>2 DEF CreateDevice, CreateLookup, CreateInsert, CreateCache
<1>3. CASE \E d \in Devices : DeleteDevice(d)
  BY <1>3 DEF DeleteDevice
<1>4. CASE \E d \in Devices : BindDevice(d)
  BY <1>4 DEF BindDevice, BindLookup, BindGroup, BindStore
<1>5. CASE \E d \in Devices : ReportLocation(d)
  BY <1>5 DEF ReportLocation, ReportUpdate, ReportLog
<1>6. CASE \E b \in Casts : SendBroadcast(b)
  BY <1>6 DEF SendBroadcast, CastStore, CastList, ListAs, CastPublish
<1>7. QED
  BY <1>1, <1>2, <1>3, <1>4, <1>5, <1>6 DEF Next

LEMMA NextBindInv ==
  BindsOwn /\ TypeOK /\ CreateInv /\ BindInv /\ [Next]_vars => BindInv'
<1> SUFFICES ASSUME BindsOwn, TypeOK, CreateInv, BindInv, [Next]_vars PROVE BindInv'
  OBVIOUS
<1> USE DEF TypeOK, BindInv, CreateInv, deviceVars, tabletVars
<1>1. CASE RecycleConnection \/ (\E g \in Groups : CreateGroup(g) \/ DeleteGroup(g)) \/ UNCHANGED vars
  BY <1>1 DEF RecycleConnection, CreateGroup, DeleteGroup, vars
<1>2. CASE \E d \in Devices : CreateDevice(d)
  BY <1>2 DEF CreateDevice, CreateLookup, CreateInsert, CreateCache
<1>3. CASE \E d \in Devices : DeleteDevice(d)
  BY <1>3 DEF DeleteDevice
<1>4. CASE \E d \in Devices : BindDevice(d)
  BY <1>4 DEF BindDevice, BindLookup, BindGroup, BindStore, BindsOwn
<1>5. CASE \E d \in Devices : ReportLocation(d)
  BY <1>5 DEF ReportLocation, ReportUpdate, ReportLog
<1>6. CASE \E b \in Casts : SendBroadcast(b)
  BY <1>6 DEF SendBroadcast, CastStore, CastList, ListAs, CastPublish
<1>7. QED
  BY <1>1, <1>2, <1>3, <1>4, <1>5, <1>6 DEF Next

(* Registry and binding steps never touch a broadcast, add no row that is  *)
(* bound and move no tablet away from the group it is bound to.            *)
LEMMA RegistryStep ==
  ASSUME HearInv, UNCHANGED castVars,
         \A d \in Devices : bound[d] # All => bound'[d] = bound[d],
         \A d \in Rows' \ Rows : bound[d] = All
  PROVE  CastInv' /\ GroupHears'
<1> USE DEF HearInv, castVars
<1>1. CastInv'
  BY DEF CastInv, TypeOK
<1>2. SUFFICES ASSUME NEW b \in Casts, spc[b] = "done", target[b] # All, b \notin failed,
                      NEW d \in audience[b], d \in Rows'
               PROVE  b \in received[d]
  BY <1>1 DEF GroupHears, TypeOK
<1>3. d \in Devices /\ bound[d] = target[b]
  BY <1>2 DEF CastInv, TypeOK
<1>4. d \in Rows
  BY <1>2, <1>3
<1>5. QED
  BY <1>2, <1>3, <1>4 DEF GroupHears

LEMMA CastListStep ==
  ASSUME HearInv, NEW q \in Casts, CastList(q)
  PROVE  CastInv' /\ GroupHears'
<1> USE DEF HearInv, TypeOK, CastList, ListAs, deviceVars, tabletVars, Rows
<1>1. CASE target[q] = All
  BY <1>1 DEF CastInv, GroupHears
<1>2. CASE target[q] # All
  <2>1. sends'[q] = {target[q]} \cap {groupId[d] : d \in Rows}
    BY <1>2
  <2>2. \A d \in audience'[q] : bound[d] = target[q]
    OBVIOUS
  <2>3. sends'[q] = {} => \A d \in audience'[q] : d \notin Rows
    <3> SUFFICES ASSUME NEW d \in audience'[q], d \in Rows PROVE sends'[q] # {}
      OBVIOUS
    <3>1. d \in Devices /\ groupId[d] = target[q]
      BY <1>2, <2>2 DEF BindInv
    <3>2. groupId[d] \in {groupId[e] : e \in Rows}
      OBVIOUS
    <3>3. target[q] \in sends'[q]
      BY <2>1, <3>1, <3>2
    <3>4. QED
      BY <3>3
  <2>4. sends'[q] # {} => sends'[q] = {target[q]}
    BY <2>1
  <2>5. CastInv'
    BY <1>2, <2>2, <2>4 DEF CastInv
  <2>6. GroupHears'
    BY <2>3 DEF GroupHears
  <2>7. QED
    BY <2>5, <2>6
<1>3. QED
  BY <1>1, <1>2

LEMMA CastPublishStep ==
  ASSUME HearInv, NEW q \in Casts, CastPublish(q)
  PROVE  CastInv' /\ GroupHears'
<1> USE DEF HearInv, TypeOK, CastPublish, deviceVars, tabletVars, Rows
<1>1. CastInv'
  BY DEF CastInv
<1>2. ASSUME NEW b \in Casts, NEW d \in Devices, b \in received[d] PROVE b \in received'[d]
  BY <1>2
<1>3. ASSUME target[q] # All, q \notin failed', NEW d \in Devices, bound[d] = target[q]
      PROVE  q \in received'[d]
  <2>1. sends[q] = {target[q]} /\ TopicOf(target[q]) = target[q]
    BY <1>3 DEF CastInv, TopicOf
  <2>2. failed' = failed => received'[d] = received[d] \cup {q}
    BY <1>3, <2>1
  <2>3. QED
    BY <1>3, <2>2
<1>4. ASSUME NEW b \in Casts, b # q
      PROVE  spc'[b] = spc[b] /\ (b \in failed' <=> b \in failed)
  BY <1>4
<1>5. GroupHears'
  <2> SUFFICES ASSUME NEW b \in Casts, spc'[b] = "done", target[b] # All, b \notin failed',
                      NEW d \in audience[b], d \in Rows, bound[d] = target[b]
               PROVE  b \in received'[d]
    BY DEF GroupHears
  <2>1. d \in Devices
    OBVIOUS
  <2>2. CASE b = q
    BY <1>3, <2>1, <2>2
  <2>3. CASE b # q
    BY <1>2, <1>4, <2>1, <2>3 DEF GroupHears
  <2>4. QED
    BY <2>2, <2>3
<1>6. QED
  BY <1>1, <1>5

LEMMA NextHearInv == BindsOwn /\ HearInv /\ [Next]_vars => HearInv'
<1> SUFFICES ASSUME BindsOwn, HearInv, [Next]_vars PROVE HearInv'
  OBVIOUS
<1>1. TypeOK' /\ CreateInv' /\ BindInv'
  BY NextTypeOK, NextCreateInv, NextBindInv DEF HearInv
<1>2. CastInv' /\ GroupHears'
  <2>1. CASE RecycleConnection \/ (\E g \in Groups : CreateGroup(g) \/ DeleteGroup(g)) \/ UNCHANGED vars
    BY <2>1, RegistryStep DEF RecycleConnection, CreateGroup, DeleteGroup, vars, deviceVars, tabletVars, Rows
  <2>2. CASE \E d \in Devices : CreateDevice(d)
    <3> PICK d \in Devices : CreateDevice(d)
      BY <2>2
    <3>1. UNCHANGED <<castVars, bound>>
      BY DEF CreateDevice, CreateLookup, CreateInsert, CreateCache
    <3>2. \A e \in Rows' \ Rows : bound[e] = All
      BY DEF CreateDevice, CreateLookup, CreateInsert, CreateCache, Rows, HearInv, TypeOK, CreateInv
    <3>3. QED
      BY <3>1, <3>2, RegistryStep
  <2>3. CASE \E d \in Devices : DeleteDevice(d)
    BY <2>3, RegistryStep DEF DeleteDevice, tabletVars, Rows, HearInv, TypeOK
  <2>4. CASE \E d \in Devices : BindDevice(d)
    <3> PICK d \in Devices : BindDevice(d)
      BY <2>4
    <3>1. UNCHANGED castVars /\ Rows' = Rows
      BY DEF BindDevice, BindLookup, BindGroup, BindStore, deviceVars, Rows, HearInv, TypeOK
    <3>2. \A e \in Devices : bound[e] # All => bound'[e] = bound[e]
      BY DEF BindDevice, BindLookup, BindGroup, BindStore, HearInv, TypeOK, BindInv
    <3>3. QED
      BY <3>1, <3>2, RegistryStep
  <2>5. CASE \E d \in Devices : ReportLocation(d)
    <3> PICK d \in Devices : ReportLocation(d)
      BY <2>5
    <3>1. UNCHANGED <<castVars, bound>> /\ Rows' = Rows
      BY DEF ReportLocation, ReportUpdate, ReportLog, Rows, HearInv, TypeOK
    <3>2. QED
      BY <3>1, RegistryStep
  <2>6. CASE \E b \in Casts, t \in Groups \cup {All} : CastStore(b, t)
    BY <2>6 DEF CastStore, HearInv, TypeOK, CastInv, GroupHears, deviceVars, tabletVars, Rows
  <2>7. CASE \E b \in Casts : CastList(b) \/ CastPublish(b)
    BY <2>7, CastListStep, CastPublishStep
  <2>8. QED
    BY <2>1, <2>2, <2>3, <2>4, <2>5, <2>6, <2>7 DEF Next, SendBroadcast
<1>3. QED
  BY <1>1, <1>2 DEF HearInv

(* Whichever connection is in use and whatever is deleted meanwhile, a     *)
(* broadcast whose publish succeeded reached every registered tablet of    *)
(* its group, provided tablets bind with the key of their own group.       *)
THEOREM BroadcastsAreHeard == ASSUME OwnKeyOnly PROVE Spec => []GroupHears
<1>1. HearInv /\ [Next]_vars => HearInv'
  <2>1. TypeOK /\ [Next]_vars => BindsOwn
    <3> SUFFICES ASSUME TypeOK, [Next]_vars, NEW d \in Devices, bpc[d] = "group", bpc'[d] = "store"
                 PROVE  bgroup'[d] = groupId[d]
      BY DEF BindsOwn
    <3>1. \E e \in Devices : BindDevice(e)
      BY DEF Next, vars, tabletVars, RecycleConnection, CreateGroup, DeleteGroup, CreateDevice, CreateLookup,
             CreateInsert, CreateCache, DeleteDevice, ReportLocation, ReportUpdate, ReportLog,
             SendBroadcast, CastStore, CastList, ListAs, CastPublish
    <3>2. QED
      BY <3>1 DEF BindDevice, BindLookup, BindGroup, BindStore, TypeOK
  <2>2. QED
    BY <2>1, NextHearInv DEF HearInv
<1>2. HearInv => GroupHears
  BY DEF HearInv
<1>3. QED
  BY <1>1, <1>2, InitHearInv, PTL DEF Spec

-----------------------------------------------------------------------------
(* The codes                                                               *)

(* What a request has in hand belongs to the group it found, and to        *)
(* devices whose group is settled.                                         *)
RenderInv ==
    \A x \in Renders :
        /\ xpc[x] \in {"idle", "list", "done"} => xleft[x] = {}
        /\ xpc[x] # "keys" => pages[x] = {}
        /\ \A d \in xleft[x] \cup pages[x] : cpc[d] # "idle" /\ groupId[d] = xgroup[x]

(* A code names the group its device was created with.                     *)
CodesAreOwn ==
    \A d \in Devices : codes[d] \subseteq {groupId[d]} /\ (codes[d] # {} => cpc[d] # "idle")

CodeInv == RenderInv /\ CodesAreOwn

CodesInv == CodesTypeOK /\ RefInv /\ HearInv /\ CodeInv
-----------------------------------------------------------------------------
(* The registry does not notice the codes.                                 *)
LEMMA CodesStep == [CodesNext]_codeVars => [Next]_vars
  BY DEF CodesNext, codeVars, Registry, Render, HandleExportPDF, HandleGetDeviceQR, ExportGroup,
         ExportList, DeviceRow, DeviceGroup, GetCachedAPIKey, Answer, ReportDeviceInfo, SetDeviceConfig,
         StoreColumns, hubVars

LEMMA NextCodesTypeOK == CodesTypeOK /\ [CodesNext]_codeVars => CodesTypeOK'
<1> SUFFICES ASSUME CodesTypeOK, [CodesNext]_codeVars PROVE CodesTypeOK'
  OBVIOUS
<1>1. TypeOK'
  BY CodesStep, NextTypeOK DEF CodesTypeOK
<1> USE DEF CodesTypeOK, hubVars, renderVars
<1>2. CASE Registry
  BY <1>1, <1>2 DEF Registry, Columns
<1>3. CASE \E x \in Renders : Render(x)
  <2> PICK x \in Renders : Render(x)
    BY <1>3
  <2>1. UNCHANGED <<vars, settings>>
    BY DEF Render, HandleExportPDF, HandleGetDeviceQR, ExportGroup, ExportList, DeviceRow, DeviceGroup,
           GetCachedAPIKey, Answer
  <2>2. Rows' = Rows
    BY <2>1 DEF vars, deviceVars, Rows
  <2>3. CASE HandleExportPDF(x)
    BY <1>1, <2>1, <2>2, <2>3
       DEF HandleExportPDF, ExportGroup, ExportList, ListDevicesByGroup, Rows, Live
  <2>4. CASE HandleGetDeviceQR(x)
    <3>1. CASE \E d \in Devices : DeviceRow(x, d)
      <4> PICK d \in Devices : DeviceRow(x, d)
        BY <3>1
      <4>1. groupId[d] \in Groups \cup {All}
        BY DEF TypeOK
      <4>2. QED
        BY <1>1, <2>1, <2>2, <4>1 DEF DeviceRow
    <3>2. CASE DeviceGroup(x)
      BY <1>1, <2>1, <2>2, <3>2 DEF DeviceGroup
    <3>3. QED
      BY <2>4, <3>1, <3>2 DEF HandleGetDeviceQR
  <2>5. CASE \E d \in Devices : GetCachedAPIKey(x, d)
    BY <1>1, <2>1, <2>2, <2>5 DEF GetCachedAPIKey
  <2>6. CASE Answer(x)
    BY <1>1, <2>1, <2>2, <2>6 DEF Answer
  <2>7. QED
    BY <2>3, <2>4, <2>5, <2>6 DEF Render
<1>4. CASE \E d \in Devices : ReportDeviceInfo(d) \/ SetDeviceConfig(d)
  BY <1>1, <1>4 DEF ReportDeviceInfo, SetDeviceConfig, StoreColumns, vars, deviceVars, Rows
<1>5. CASE UNCHANGED codeVars
  BY <1>1, <1>5 DEF codeVars, vars, deviceVars, Rows
<1>6. QED
  BY <1>2, <1>3, <1>4, <1>5 DEF CodesNext
-----------------------------------------------------------------------------
(* The group of a device that has begun to exist does not change.          *)
LEMMA GroupSettled ==
  ASSUME TypeOK, [Next]_vars, NEW d \in Devices, cpc[d] # "idle"
  PROVE  groupId'[d] = groupId[d] /\ cpc'[d] # "idle"
<1> USE DEF TypeOK, deviceVars, tabletVars
<1>1. CASE \E e \in Devices : CreateDevice(e)
  BY <1>1 DEF CreateDevice, CreateLookup, CreateInsert, CreateCache
<1>2. CASE \E e \in Devices : DeleteDevice(e) \/ BindDevice(e) \/ ReportLocation(e)
  BY <1>2 DEF DeleteDevice, BindDevice, BindLookup, BindGroup, BindStore, ReportLocation, ReportUpdate,
              ReportLog
<1>3. CASE \E b \in Casts : SendBroadcast(b)
  BY <1>3 DEF SendBroadcast, CastStore, CastList, ListAs, CastPublish
<1>4. CASE RecycleConnection \/ (\E g \in Groups : CreateGroup(g) \/ DeleteGroup(g)) \/ UNCHANGED vars
  BY <1>4 DEF RecycleConnection, CreateGroup, DeleteGroup, vars
<1>5. QED
  BY <1>1, <1>2, <1>3, <1>4 DEF Next

LEMMA NextCodeInv ==
  CodesTypeOK /\ CreateInv /\ CodeInv /\ [CodesNext]_codeVars => CodeInv'
<1> SUFFICES ASSUME CodesTypeOK, CreateInv, CodeInv, [CodesNext]_codeVars PROVE CodeInv'
  OBVIOUS
<1> USE DEF CodesTypeOK, CodeInv, RenderInv, CodesAreOwn, hubVars, renderVars
<1>1. \A d \in Devices : cpc[d] # "idle" => groupId'[d] = groupId[d] /\ cpc'[d] # "idle"
  BY CodesStep, GroupSettled
<1>2. CASE UNCHANGED renderVars
  BY <1>1, <1>2
<1>3. CASE \E x \in Renders : Render(x)
  <2> PICK x \in Renders : Render(x)
    BY <1>3
  <2>1. UNCHANGED <<cpc, groupId>>
    BY DEF Render, HandleExportPDF, HandleGetDeviceQR, ExportGroup, ExportList, DeviceRow, DeviceGroup,
           GetCachedAPIKey, Answer, vars, deviceVars, tabletVars
  <2>2. \A d \in Rows : cpc[d] # "idle"
    BY DEF CreateInv, Rows
  <2>3. CASE HandleExportPDF(x)
    BY <2>1, <2>2, <2>3 DEF HandleExportPDF, ExportGroup, ExportList, ListDevicesByGroup
  <2>4. CASE HandleGetDeviceQR(x)
    <3>1. CASE \E d \in Devices : DeviceRow(x, d)
      <4> PICK d \in Devices : DeviceRow(x, d)
        BY <3>1
      <4>1. xgroup'[x] = groupId[d] /\ xleft'[x] = {d} /\ pages' = pages /\ xpc'[x] = "group"
        BY DEF DeviceRow
      <4>2. pages[x] = {} /\ cpc[d] # "idle"
        BY <2>2 DEF DeviceRow
      <4>3. \A y \in Renders \ {x} : xgroup'[y] = xgroup[y] /\ xleft'[y] = xleft[y] /\ xpc'[y] = xpc[y]
        BY DEF DeviceRow
      <4>4. codes' = codes
        BY DEF DeviceRow
      <4>5. RenderInv'
        BY <2>1, <4>1, <4>2, <4>3 DEF RenderInv
      <4>6. QED
        BY <2>1, <4>4, <4>5 DEF CodesAreOwn
    <3>2. CASE DeviceGroup(x)
      BY <2>1, <3>2 DEF DeviceGroup
    <3>3. QED
      BY <2>4, <3>1, <3>2 DEF HandleGetDeviceQR
  <2>5. CASE \E d \in Devices : GetCachedAPIKey(x, d)
    BY <2>1, <2>5 DEF GetCachedAPIKey
  <2>6. CASE Answer(x)
    BY <2>1, <2>6 DEF Answer
  <2>7. QED
    BY <2>3, <2>4, <2>5, <2>6 DEF Render
<1>4. QED
  BY <1>2, <1>3 DEF CodesNext, Registry, ReportDeviceInfo, SetDeviceConfig, StoreColumns, codeVars

(* A tablet that binds with a code of its own gives its own group's key.   *)
LEMMA ScannedKeysAreOwn == CodesInv /\ [CodesNext]_codeVars => BindsOwn
<1> SUFFICES ASSUME CodesInv, [CodesNext]_codeVars,
                    NEW d \in Devices, bpc[d] = "group", bpc'[d] = "store"
             PROVE  bgroup'[d] = groupId[d]
  BY DEF BindsOwn
<1>1. ByCode
  BY DEF CodesNext, codeVars, Registry, Render, HandleExportPDF, HandleGetDeviceQR, ExportGroup, ExportList,
         DeviceRow, DeviceGroup, GetCachedAPIKey, Answer, ReportDeviceInfo, SetDeviceConfig, StoreColumns,
         hubVars, vars, tabletVars
<1>2. bgroup'[d] \in codes[d]
  BY <1>1 DEF ByCode
<1>3. QED
  BY <1>2 DEF CodesInv, CodeInv, CodesAreOwn

LEMMA InitCodesInv == CodesInit => CodesInv
<1>1. CodesInit => CodesTypeOK /\ CodeInv
  BY InitTypeOK DEF CodesInit, CodesTypeOK, CodeInv, RenderInv, CodesAreOwn
<1>2. QED
  BY <1>1, InitRefInv, InitHearInv DEF CodesInit, CodesInv

LEMMA NextCodesInv == CodesInv /\ [CodesNext]_codeVars => CodesInv'
<1> SUFFICES ASSUME CodesInv, [CodesNext]_codeVars PROVE CodesInv'
  OBVIOUS
<1>1. CodesTypeOK' /\ CodeInv'
  BY NextCodesTypeOK, NextCodeInv DEF CodesInv, HearInv
<1>2. RefInv'
  BY CodesStep, NextRefInv DEF CodesInv
<1>3. HearInv'
  BY CodesStep, ScannedKeysAreOwn, NextHearInv DEF CodesInv
<1>4. QED
  BY <1>1, <1>2, <1>3 DEF CodesInv

LEMMA CodesInvariant == CodesSpec => []CodesInv
  BY InitCodesInv, NextCodesInv, PTL DEF CodesSpec

(* Every state of the registry with its codes is well typed, and only rows *)
(* that are there have settings.                                           *)
THEOREM CodesTypeCorrect == CodesSpec => []CodesTypeOK
<1>1. CodesInv => CodesTypeOK
  BY DEF CodesInv
<1>2. QED
  BY <1>1, CodesInvariant, PTL

(* Rendering codes between the statements of other requests leaves no      *)
(* orphan either, while the connection enforces the references.            *)
THEOREM CodesKeepReferences == CodesSpec => []ReferencesIntact
<1>1. CodesInv => ReferencesIntact
  BY DEF CodesInv, RefInv
<1>2. QED
  BY <1>1, CodesInvariant, PTL

(* Codes name their device's own group, however the statements that render *)
(* them interleave with deletions and creations.                           *)
THEOREM CodesNameOwnGroup == CodesSpec => []CodesAreOwn
<1>1. CodesInv => CodesAreOwn
  BY DEF CodesInv, CodeInv
<1>2. QED
  BY <1>1, CodesInvariant, PTL

(* A broadcast whose publish succeeded reached every registered tablet of  *)
(* its group, with no assumption on the keys that tablets bind with: they  *)
(* come from the codes.                                                    *)
THEOREM ScannedTabletsHear == CodesSpec => []GroupHears
<1>1. CodesInv => GroupHears
  BY DEF CodesInv, HearInv
<1>2. QED
  BY <1>1, CodesInvariant, PTL
=============================================================================
