---------------------------- MODULE DeviceStatus -----------------------------
(***************************************************************************)
(* The cache of device states (services/status_service.go) and what is     *)
(* built on it: the status and command API (api/command.go) and commands   *)
(* to several devices (SendBatchCommand in services/command_service.go).   *)
(*                                                                         *)
(* The cache holds pointers: SetDeviceOnline changes the record that is in *)
(* it.  A record is named by the caller that made it and its device.  Of a *)
(* record only Online matters.  One action is one access to the cache, the *)
(* table or a record, or one critical section.  What a subscriber is told  *)
(* is left out; a notification that finds a closed channel panics.         *)
(*                                                                         *)
(* HandleStatusMessage, SetDeviceOnline and SubscribeStatusChanges are the *)
(* interface of the service; nothing in the hub calls them yet.            *)
(*                                                                         *)
(* SendCommand, once the device is known online, is taken at the contract  *)
(* that CommandLifecycle states: one verdict.                              *)
(***************************************************************************)
EXTENDS Naturals, FiniteSets

CONSTANTS
    Devices,
    Requests,       \* API requests and MQTT reports
    Lanes,          \* the goroutines of one batch
    Subscribers,
    MapColumns,     \* how a read of a device's row can fare, whose device_info is
                    \* scanned into a Go map: {FALSE} as database/sql refuses it,
                    \* BOOLEAN for a repository that decodes the column
    None

ASSUME LanesAssumption == IsFiniteSet(Lanes) /\ Lanes \cap Requests = {}
ASSUME MapColumnsAssumption == MapColumns \in {{FALSE}, BOOLEAN}
ASSUME NoneAssumption == None \notin Devices /\ None \notin (Requests \cup Lanes) \X Devices

Callers == Requests \cup Lanes
Records == Callers \X Devices
Verdicts == {"error", "success", "failed"}

VARIABLES
    seen,           \* devices.last_seen_at: never, within five minutes, earlier
    online,         \* the field Online of each record
    cache,          \* statusCache
    call,           \* where each caller is, and its local variables
    listed, leaving, closed,    \* channels in statusChannels, taken out, closed
    panicked,       \* somebody sent on a closed channel
    batch, target,  \* the step of SendBatchCommand, the device of each lane
    results, ok, bad,   \* the lanes in its results, and its counts
    acted,          \* history: lanes whose device reported success
    settled         \* history: devices that reported while nothing else about
                    \* them was going on, and were not set or listed since

cacheVars == <<seen, online, cache>>
channelVars == <<listed, leaving, closed>>
batchVars == <<batch, target, results, ok, bad, acted>>
statusVars == <<cacheVars, call, channelVars, panicked, batchVars, settled>>

Steps == {"idle", "read", "fill", "set", "load", "store", "compare", "list",
          "send", "merge", "done"}

Calls == [step: Steps,
          op: {"none", "get", "set", "report", "all", "send"},
          dev: Devices \cup {None},
          rec: Records \cup {None},     \* the record in hand
          old: Records \cup {None},     \* the one it replaces
          want: BOOLEAN,                \* the state that is to be set
          todo: SUBSET Devices,         \* devices left to list
          said: Verdicts \cup {None}]   \* what SendCommand returned

NoCall == [step |-> "idle", op |-> "none", dev |-> None, rec |-> None, old |-> None,
           want |-> FALSE, todo |-> {}, said |-> None]

StatusTypeOK ==
    /\ seen \in [Devices -> {"never", "recent", "stale"}]
    /\ online \in [Records -> BOOLEAN]
    /\ cache \in [Devices -> Records \cup {None}]
    /\ \A d \in Devices : cache[d] # None => cache[d][2] = d
    /\ call \in [Callers -> Calls]
    /\ UNION {listed, leaving, closed} \subseteq Subscribers /\ leaving \cap closed = {}
    /\ panicked \in BOOLEAN
    /\ batch \in {"idle", "run", "done"}
    /\ target \in [Lanes -> Devices \cup {None}]
    /\ results \subseteq Lanes /\ ok \in Nat /\ bad \in Nat
    /\ acted \subseteq Lanes /\ settled \subseteq Devices

StatusInit ==
    /\ seen \in [Devices -> {"never", "stale"}]
    /\ online = [x \in Records |-> FALSE]
    /\ cache = [d \in Devices |-> None]
    /\ call = [r \in Callers |-> NoCall]
    /\ listed = {} /\ leaving = {} /\ closed = {}
    /\ panicked = FALSE
    /\ batch = "idle" /\ target = [l \in Lanes |-> None]
    /\ results = {} /\ ok = 0 /\ bad = 0
    /\ acted = {} /\ settled = {}

At(r, step) == call[r].step = step
Become(r, c) == call' = [call EXCEPT ![r] = c]
Goto(r, step) == Become(r, [call[r] EXCEPT !.step = step])
Finish(r) == Become(r, [NoCall EXCEPT !.step = "done"])

\* Others with something to do about the device.
Busy(r, d) == \E q \in Callers \ {r} : call[q].dev = d \/ call[q].op = "all"

-----------------------------------------------------------------------------
(* Reading the cache, and the table when it has nothing *)

\* Where a lookup that found record x goes on.
Found(r, c, x) ==
    CASE c.op = "set" -> Become(r, [c EXCEPT !.step = "set", !.rec = x])
      [] c.op = "send" /\ online[x] -> Become(r, [c EXCEPT !.step = "send"])
      [] c.op = "send" /\ ~online[x] /\ r \in Lanes ->
            Become(r, [c EXCEPT !.step = "merge", !.said = "error"])
      [] OTHER -> Finish(r)

\* Faulty variant: the table is asked although the cache has a record.
LoadAlways(r, c) == Become(r, [c EXCEPT !.step = "read"])

\* A record in the cache is taken as it is, however old.
LoadCached(r, c) ==
    \/ cache[c.dev] # None /\ Found(r, c, cache[c.dev])
    \/ cache[c.dev] = None /\ Become(r, [c EXCEPT !.step = "read"])

LookUp(r, d, what, b) ==
    /\ At(r, "idle")
    /\ LoadCached(r, [NoCall EXCEPT !.op = what, !.dev = d, !.want = b])
    /\ UNCHANGED <<cacheVars, channelVars, panicked, batchVars>>

IsDeviceOnline(r, d) == LookUp(r, d, "send", FALSE) /\ UNCHANGED settled
GetDeviceStatus(r, d) == LookUp(r, d, "get", FALSE) /\ UNCHANGED settled

\* A device never seen is offline; GetDeviceStatus caches that, IsDeviceOnline not.
ReadSeen(r) ==
    LET d == call[r].dev  x == <<r, d>> IN
    /\ At(r, "read")
    /\ TRUE \in MapColumns
    /\ call[r].op = "send" => seen[d] # "never"
    /\ online' = [online EXCEPT ![x] = seen[d] = "recent"]
    /\ Become(r, [call[r] EXCEPT !.step = "fill", !.rec = x])
    /\ UNCHANGED <<seen, cache, channelVars, panicked, batchVars, settled>>

\* The device was never seen, or the query failed: SetDeviceOnline makes a record.
ReadNothing(r) ==
    /\ At(r, "read")
    /\ \/ /\ call[r].op = "set"
          /\ Become(r, [call[r] EXCEPT !.step = "set", !.rec = <<r, call[r].dev>>])
       \/ /\ r \in Lanes
          /\ Become(r, [call[r] EXCEPT !.step = "merge", !.said = "error"])
       \/ r \notin Lanes /\ call[r].op # "set" /\ Finish(r)
    /\ UNCHANGED <<cacheVars, channelVars, panicked, batchVars, settled>>

Fill(r) ==
    /\ At(r, "fill")
    /\ cache' = [cache EXCEPT ![call[r].dev] = call[r].rec]
    /\ Found(r, call[r], call[r].rec)
    /\ UNCHANGED <<seen, online, channelVars, panicked, batchVars, settled>>

\* The rows of all devices, then one record after the other into the cache; or
\* the rows cannot be read.
GetAllDeviceStatuses(r) ==
    /\ At(r, "idle")
    /\ \/ /\ TRUE \in MapColumns
          /\ Become(r, [NoCall EXCEPT !.step = "list", !.op = "all", !.todo = Devices])
          /\ online' = [x \in Records |-> IF x[1] = r THEN seen[x[2]] = "recent" ELSE online[x]]
          /\ settled' = {}
       \/ Finish(r) /\ UNCHANGED <<online, settled>>
    /\ UNCHANGED <<seen, cache, channelVars, panicked, batchVars>>

StoreNext(r) ==
    /\ At(r, "list")
    /\ \/ \E d \in call[r].todo :
             /\ cache' = [cache EXCEPT ![d] = <<r, d>>]
             /\ Become(r, [call[r] EXCEPT !.todo = @ \ {d}])
       \/ call[r].todo = {} /\ Finish(r) /\ UNCHANGED cache
    /\ UNCHANGED <<seen, online, channelVars, panicked, batchVars, settled>>

-----------------------------------------------------------------------------
(* Changing the cache *)

SetDeviceOnline(r, d, b) == LookUp(r, d, "set", b) /\ settled' = settled \ {d}

\* The record the cache may hold is changed in place.
SetOnline(r) ==
    /\ At(r, "set")
    /\ online' = [online EXCEPT ![call[r].rec] = call[r].want]
    /\ Goto(r, "load")
    /\ UNCHANGED <<seen, cache, channelVars, panicked, batchVars, settled>>

\* A report of the device over MQTT makes a record that is online.
HandleStatusMessage(r, d) ==
    /\ At(r, "idle")
    /\ Become(r, [NoCall EXCEPT !.step = "load", !.op = "report", !.dev = d, !.rec = <<r, d>>])
    /\ online' = [online EXCEPT ![<<r, d>>] = TRUE]
    /\ UNCHANGED <<seen, cache, channelVars, panicked, batchVars, settled>>

LoadOld(r) ==
    /\ At(r, "load")
    /\ Become(r, [call[r] EXCEPT !.step = "store", !.old = cache[call[r].dev]])
    /\ UNCHANGED <<cacheVars, channelVars, panicked, batchVars, settled>>

StoreStatus(r) ==
    LET d == call[r].dev IN
    /\ At(r, "store")
    /\ cache' = [cache EXCEPT ![d] = call[r].rec]
    /\ IF call[r].old = None THEN Finish(r) ELSE Goto(r, "compare")
    /\ settled' = IF call[r].op = "report" /\ ~Busy(r, d) THEN settled \cup {d} ELSE settled
    /\ UNCHANGED <<seen, online, channelVars, panicked, batchVars>>

\* Under the read lock, to every channel in the list; one that is full is skipped.
NotifyStatusChange(r) ==
    /\ At(r, "compare")
    /\ panicked' = \/ panicked
                   \/ /\ online[call[r].old] # online[call[r].rec]
                      /\ listed \cap closed # {}
    /\ Finish(r)
    /\ UNCHANGED <<cacheVars, channelVars, batchVars, settled>>

UpdateDeviceStatus(r) == LoadOld(r) \/ StoreStatus(r) \/ NotifyStatusChange(r)

\* last_seen_at is written when a device authenticates; then time passes.
ValidateDevice(d) ==
    /\ seen[d] # "recent"
    /\ seen' = [seen EXCEPT ![d] = "recent"]
    /\ UNCHANGED <<online, cache, call, channelVars, panicked, batchVars, settled>>

TimePasses(d) ==
    /\ seen[d] = "recent"
    /\ seen' = [seen EXCEPT ![d] = "stale"]
    /\ UNCHANGED <<online, cache, call, channelVars, panicked, batchVars, settled>>

-----------------------------------------------------------------------------
(* Subscriptions *)

subscribing == <<cacheVars, call, panicked, batchVars, settled>>

SubscribeStatusChanges(s) ==
    /\ s \notin listed \cup leaving \cup closed
    /\ listed' = listed \cup {s}
    /\ UNCHANGED <<leaving, closed, subscribing>>

\* The context of the subscriber has ended; under the lock.
RemoveSubscriber(s) ==
    /\ s \in listed
    /\ listed' = listed \ {s}
    /\ leaving' = leaving \cup {s}
    /\ UNCHANGED <<closed, subscribing>>

\* Faulty variant: the channel may be closed before it is out of the list.
CloseEarly(s) ==
    /\ s \in listed \cup leaving
    /\ leaving' = leaving \ {s}
    /\ closed' = closed \cup {s}
    /\ UNCHANGED <<listed, subscribing>>

\* Faulty variant: the goroutine waits again, and will close a second time.
CloseAgain(s) ==
    /\ s \in leaving
    /\ closed' = closed \cup {s}
    /\ UNCHANGED <<listed, leaving, subscribing>>

CloseChannel(s) ==
    /\ s \in leaving
    /\ leaving' = leaving \ {s}
    /\ closed' = closed \cup {s}
    /\ UNCHANGED <<listed, subscribing>>

-----------------------------------------------------------------------------
(* Commands *)

\* What another caller of the cache does not touch.
sending == <<cacheVars, channelVars, panicked, settled>>

HandleSendCommand(r, d) == IsDeviceOnline(r, d)

\* What became of it, by the contract of SendCommand.
SendCommand(r) ==
    /\ At(r, "send")
    /\ \/ /\ r \in Lanes
          /\ \E v \in Verdicts :
                /\ Become(r, [call[r] EXCEPT !.step = "merge", !.said = v])
                /\ acted' = IF v = "success" THEN acted \cup {r} ELSE acted
       \/ r \in Requests /\ Finish(r) /\ UNCHANGED acted
    /\ UNCHANGED <<batch, target, results, ok, bad, sending>>

\* Groups and "all" add nothing to the devices that are named.
SendBatchCommand(devices) ==
    /\ batch = "idle"
    /\ batch' = IF DOMAIN devices = {} THEN "done" ELSE "run"
    /\ target' = [l \in Lanes |-> IF l \in DOMAIN devices THEN devices[l] ELSE None]
    /\ UNCHANGED <<call, results, ok, bad, acted, sending>>

Targeted == {l \in Lanes : target[l] # None}

LaneBegin(l) ==
    /\ batch = "run" /\ l \in Targeted
    /\ IsDeviceOnline(l, target[l])

\* Faulty variant: a command that the device answered with an error is a success.
CountAnswered(v) ==
    IF v \in {"success", "failed"} THEN ok' = ok + 1 /\ UNCHANGED bad
                                   ELSE bad' = bad + 1 /\ UNCHANGED ok

Count(v) == IF v = "success" THEN ok' = ok + 1 /\ UNCHANGED bad
                             ELSE bad' = bad + 1 /\ UNCHANGED ok

\* Under the mutex.
Merge(l) ==
    /\ At(l, "merge")
    /\ results' = results \cup {l}
    /\ Count(call[l].said)
    /\ Finish(l)
    /\ UNCHANGED <<batch, target, acted, sending>>

BatchReturn ==
    /\ batch = "run" /\ \A l \in Targeted : At(l, "done")
    /\ batch' = "done"
    /\ UNCHANGED <<call, target, results, ok, bad, acted, sending>>

-----------------------------------------------------------------------------
StatusRequest(r) ==
    \/ \E d \in Devices :
          \/ GetDeviceStatus(r, d) \/ HandleSendCommand(r, d)
          \/ HandleStatusMessage(r, d) \/ \E b \in BOOLEAN : SetDeviceOnline(r, d, b)
    \/ GetAllDeviceStatuses(r) \/ StoreNext(r) \/ SetOnline(r) \/ UpdateDeviceStatus(r)

Batch ==
    \/ \E S \in SUBSET Lanes : \E devices \in [S -> Devices] : SendBatchCommand(devices)
    \/ \E l \in Lanes : LaneBegin(l) \/ Merge(l)
    \/ BatchReturn

Subscription ==
    \E s \in Subscribers : SubscribeStatusChanges(s) \/ RemoveSubscriber(s) \/ CloseChannel(s)

StatusNext ==
    /\ ~panicked
    /\ \/ \E r \in Requests : StatusRequest(r)
       \/ \E r \in Callers : ReadSeen(r) \/ ReadNothing(r) \/ Fill(r) \/ SendCommand(r)
       \/ \E d \in Devices : ValidateDevice(d) \/ TimePasses(d)
       \/ Batch \/ Subscription

StatusSpec == StatusInit /\ [][StatusNext]_statusVars

-----------------------------------------------------------------------------
\* A notification finds no closed channel in the list, so its send cannot panic
\* (SubscribeStatusChanges against notifyStatusChange).
NeverSendsOnClosed == ~panicked

\* A device that reported while nothing else about it was going on counts as
\* online until somebody sets its state or lists all devices: no request puts an
\* older row of the table into the cache again (IsDeviceOnline, GetDeviceStatus).
ReportLasts == \A d \in settled : cache[d] # None /\ online[cache[d]]

\* A batch that returned has one result for each device entry, its counts add up,
\* and what it calls a success is one the device reported (SendBatchCommand).
BatchAddsUp ==
    batch = "done" =>
        /\ results = Targeted
        /\ ok = Cardinality(acted) /\ ok + bad = Cardinality(Targeted)
=============================================================================
