---------------------------- MODULE FieldTripHub ----------------------------
(***************************************************************************)
(* The field-trip registry of the hub: groups, devices, GPS logs, cached   *)
(* API keys and broadcasts (internal/repositories/fieldtrip_repo.go), the  *)
(* HTTP handlers over them (internal/api/fieldtrip_handler.go and          *)
(* fieldtrip_ui.go), the delivery of broadcasts over MQTT                  *)
(* (internal/services/broadcast_service.go) and the tablets' side of       *)
(* binding.  A handler runs one statement at a time and requests           *)
(* interleave between statements.  The one database connection is replaced *)
(* after an hour, and "PRAGMA foreign_keys=ON" was only ever run on the    *)
(* first one (internal/databases/sqlite.go).                               *)
(***************************************************************************)
EXTENDS Integers

CONSTANTS Groups, Devices,  (* ids; every one is a fresh uuid              *)
          Casts,            (* broadcast requests                          *)
          All,              (* the empty group id: "to all devices"        *)
          OwnKeyOnly        (* do tablets bind with their own group's key? *)

ASSUME AllAssumption == All \notin Groups
ASSUME SwitchAssumption == OwnKeyOnly \in BOOLEAN
ASSUME IdAssumption == Devices \cap Groups = {}

VARIABLES
    fk,        (* the connection in use enforces foreign keys              *)
    group,     (* group[g]: the life of the row in fieldtrip_groups        *)
    row,       (* row[d]: the status column of d's row, or "none"          *)
    groupId,   (* groupId[d]: the group_id d was created with              *)
    keys,      (* the devices with a row in device_key_cache               *)
    logs,      (* the devices with rows in gps_logs                        *)
    cpc,       (* cpc[d]: where the request that creates d stands          *)
    bpc,       (* bpc[d]: where the bind request of tablet d stands        *)
    bgroup,    (* bgroup[d]: the group that request has looked up          *)
    rpc,       (* rpc[d]: where the location report of tablet d stands     *)
    bound,     (* bound[d]: the group tablet d subscribed to               *)
    spc,       (* spc[b]: where the broadcast request stands               *)
    target,    (* target[b]: its group_id, All if it is empty              *)
    stored,    (* the broadcasts with a row in broadcasts                  *)
    sends,     (* sends[b]: the publishes it has left: its group's, or one *)
               (* for each active device it listed                         *)
    audience,  (* audience[b]: the tablets that were subscribed to its     *)
               (* group when it listed the devices (history)               *)
    failed,    (* the broadcasts with a failed publish                     *)
    received   (* received[d]: the broadcasts tablet d has shown           *)

deviceVars == <<row, groupId, keys, logs>>
tabletVars == <<cpc, bpc, bgroup, rpc, bound>>
castVars   == <<spc, target, stored, sends, audience, failed, received>>
vars == <<fk, group, deviceVars, tabletVars, castVars>>

Live == {g \in Groups : group[g] = "live"}
Rows == {d \in Devices : row[d] # "none"}

TypeOK ==
    /\ fk \in BOOLEAN
    /\ group \in [Groups -> {"unborn", "live", "deleted"}]
    /\ row \in [Devices -> {"none", "pending", "active"}]
    /\ groupId \in [Devices -> Groups \cup {All}]
    /\ keys \subseteq Devices /\ logs \subseteq Devices
    /\ cpc \in [Devices -> {"idle", "insert", "cache", "failed", "done"}]
    /\ bpc \in [Devices -> {"idle", "group", "store"}]
    /\ bgroup \in [Devices -> Groups \cup {All}]
    /\ rpc \in [Devices -> {"idle", "log"}]
    /\ bound \in [Devices -> Groups \cup {All}]
    /\ spc \in [Casts -> {"idle", "list", "publish", "failed", "done"}]
    /\ target \in [Casts -> Groups \cup {All}]
    /\ stored \subseteq Casts
    /\ sends \in [Casts -> SUBSET (Groups \cup Devices)]
    /\ audience \in [Casts -> SUBSET Devices]
    /\ failed \subseteq Casts
    /\ received \in [Devices -> SUBSET Casts]

Init ==
    /\ fk = TRUE
    /\ group = [g \in Groups |-> "unborn"]
    /\ row = [d \in Devices |-> "none"] /\ groupId = [d \in Devices |-> All]
    /\ keys = {} /\ logs = {}
    /\ cpc = [d \in Devices |-> "idle"]
    /\ bpc = [d \in Devices |-> "idle"] /\ bgroup = [d \in Devices |-> All]
    /\ rpc = [d \in Devices |-> "idle"] /\ bound = [d \in Devices |-> All]
    /\ spc = [b \in Casts |-> "idle"] /\ target = [b \in Casts |-> All]
    /\ stored = {} /\ failed = {}
    /\ sends = [b \in Casts |-> {}] /\ audience = [b \in Casts |-> {}]
    /\ received = [d \in Devices |-> {}]

-----------------------------------------------------------------------------
(* Groups.                                                                 *)

CreateGroup(g) ==
    /\ group[g] = "unborn"
    /\ group' = [group EXCEPT ![g] = "live"]
    /\ UNCHANGED <<fk, deviceVars, tabletVars, castVars>>

Referenced(g) ==
    (\E d \in Rows : groupId[d] = g) \/ (\E b \in stored : target[b] = g)

(* Both handlers end in the same DELETE, which a foreign key may refuse.   *)
DeleteGroup(g) ==
    /\ group[g] = "live"
    /\ fk => ~Referenced(g)
    /\ group' = [group EXCEPT ![g] = "deleted"]
    /\ UNCHANGED <<fk, deviceVars, tabletVars, castVars>>

RecycleConnection ==
    /\ fk
    /\ fk' = FALSE
    /\ UNCHANGED <<group, deviceVars, tabletVars, castVars>>

-----------------------------------------------------------------------------
(* CreateDevice, and each turn of BulkCreateDevices: find the group, insert*)
(* the device, cache its key.                                              *)

CreateLookup(d, g) ==
    /\ cpc[d] = "idle" /\ g \in Live
    /\ cpc' = [cpc EXCEPT ![d] = "insert"]
    /\ groupId' = [groupId EXCEPT ![d] = g]
    /\ UNCHANGED <<fk, group, row, keys, logs, bpc, bgroup, rpc, bound, castVars>>

CreateInsert(d) ==
    /\ cpc[d] = "insert"
    /\ IF fk /\ groupId[d] \notin Live
       THEN cpc' = [cpc EXCEPT ![d] = "failed"] /\ UNCHANGED row
       ELSE cpc' = [cpc EXCEPT ![d] = "cache"] /\ row' = [row EXCEPT ![d] = "pending"]
    /\ UNCHANGED <<fk, group, groupId, keys, logs, bpc, bgroup, rpc, bound, castVars>>

(* A failure is logged and the device is answered all the same.            *)
CreateCache(d) ==
    /\ cpc[d] = "cache"
    /\ cpc' = [cpc EXCEPT ![d] = "done"]
    /\ keys' = IF fk /\ d \notin Rows THEN keys ELSE keys \cup {d}
    /\ UNCHANGED <<fk, group, row, groupId, logs, bpc, bgroup, rpc, bound, castVars>>

(* Faulty variant: device_key_cache is declared without its REFERENCES.    *)
DeleteKeepsKey(d) ==
    /\ d \in Rows
    /\ row' = [row EXCEPT ![d] = "none"]
    /\ logs' = IF fk THEN logs \ {d} ELSE logs
    /\ UNCHANGED <<fk, group, groupId, keys, tabletVars, castVars>>

(* ON DELETE CASCADE removes the logs and the cached key.                  *)
DeleteDevice(d) ==
    /\ d \in Rows
    /\ row' = [row EXCEPT ![d] = "none"]
    /\ logs' = IF fk THEN logs \ {d} ELSE logs
    /\ keys' = IF fk THEN keys \ {d} ELSE keys
    /\ UNCHANGED <<fk, group, groupId, tabletVars, castVars>>

-----------------------------------------------------------------------------
(* BindDevice: find the device and check its key, find the group by the    *)
(* group key of the request, set the status, answer the group.  The tablet *)
(* subscribes to the group it is answered, if the answer arrives.          *)

BindLookup(d) ==
    /\ cpc[d] = "done" /\ bpc[d] = "idle" /\ d \in Rows
    /\ bpc' = [bpc EXCEPT ![d] = "group"]
    /\ UNCHANGED <<fk, group, deviceVars, cpc, bgroup, rpc, bound, castVars>>

BindGroup(d, g) ==
    /\ bpc[d] = "group"
    /\ OwnKeyOnly => g = groupId[d]
    /\ bpc' = [bpc EXCEPT ![d] = IF g \in Live THEN "store" ELSE "idle"]
    /\ bgroup' = [bgroup EXCEPT ![d] = g]
    /\ UNCHANGED <<fk, group, deviceVars, cpc, rpc, bound, castVars>>

(* Faulty variant: the row gets a status the queries do not know.          *)
BindStoreOnline(d) ==
    /\ bpc[d] = "store"
    /\ bpc' = [bpc EXCEPT ![d] = "idle"]
    /\ row' = [row EXCEPT ![d] = IF d \in Rows THEN "online" ELSE @]
    /\ bound' \in {bound, [bound EXCEPT ![d] = bgroup[d]]}
    /\ UNCHANGED <<fk, group, groupId, keys, logs, cpc, bgroup, rpc, castVars>>

BindStore(d) ==
    /\ bpc[d] = "store"
    /\ bpc' = [bpc EXCEPT ![d] = "idle"]
    /\ row' = [row EXCEPT ![d] = IF d \in Rows THEN "active" ELSE @]
    /\ bound' \in {bound, [bound EXCEPT ![d] = bgroup[d]]}
    /\ UNCHANGED <<fk, group, groupId, keys, logs, cpc, bgroup, rpc, castVars>>

(* ReportLocation looks nothing up: it updates the row, if there is one,   *)
(* and then inserts the log, whose failure is only logged.                 *)
ReportUpdate(d) ==
    /\ cpc[d] = "done" /\ rpc[d] = "idle"
    /\ row' = [row EXCEPT ![d] = IF d \in Rows THEN "active" ELSE @]
    /\ rpc' = [rpc EXCEPT ![d] = "log"]
    /\ UNCHANGED <<fk, group, groupId, keys, logs, cpc, bpc, bgroup, bound, castVars>>

ReportLog(d) ==
    /\ rpc[d] = "log"
    /\ rpc' = [rpc EXCEPT ![d] = "idle"]
    /\ logs' = IF fk /\ d \notin Rows THEN logs ELSE logs \cup {d}
    /\ UNCHANGED <<fk, group, row, groupId, keys, cpc, bpc, bgroup, bound, castVars>>

-----------------------------------------------------------------------------
(* SendBroadcast and HandleBroadcast: store the broadcast, list the        *)
(* devices, publish.                                                       *)

CastStore(b, t) ==
    /\ spc[b] = "idle"
    /\ t # All => group[t] # "unborn"
    /\ target' = [target EXCEPT ![b] = t]
    /\ IF fk /\ t \notin Live
       THEN spc' = [spc EXCEPT ![b] = "failed"] /\ UNCHANGED stored
       ELSE spc' = [spc EXCEPT ![b] = "list"] /\ stored' = stored \cup {b}
    /\ UNCHANGED <<fk, group, deviceVars, tabletVars, sends, audience, failed, received>>

Unbound == {d \in Devices : bound[d] = All}

(* SendToGroup gives up when no device is listed, else publishes once;     *)
(* SendToAll publishes on the group of every active device.                *)
ListAs(b, recipients) ==
    /\ spc[b] = "list"
    /\ sends' = [sends EXCEPT ![b] = recipients]
    /\ spc' = [spc EXCEPT ![b] = IF recipients = {} THEN "done" ELSE "publish"]
    /\ audience' = [audience EXCEPT ![b] = {d \in Devices : bound[d] = target[b]} \ Unbound]
    /\ UNCHANGED <<fk, group, deviceVars, tabletVars, target, stored, failed, received>>

Active == {d \in Devices : row[d] = "active"}

CastList(b) ==
    ListAs(b, IF target[b] = All THEN Active
              ELSE {target[b]} \cap {groupId[d] : d \in Rows})

TopicOf(x) == IF x \in Groups THEN x ELSE groupId[x]

CastPublish(b) ==
    /\ spc[b] = "publish"
    /\ \E x \in sends[b] :
          /\ sends' = [sends EXCEPT ![b] = @ \ {x}]
          /\ spc' = [spc EXCEPT ![b] = IF sends[b] = {x} THEN "done" ELSE "publish"]
          /\ \/ /\ received' = [d \in Devices |->
                       IF bound[d] = TopicOf(x) THEN received[d] \cup {b} ELSE received[d]]
                /\ UNCHANGED failed
             \/ failed' = failed \cup {b} /\ UNCHANGED received
    /\ UNCHANGED <<fk, group, deviceVars, tabletVars, target, stored, audience>>
-----------------------------------------------------------------------------
CreateDevice(d) == (\E g \in Groups : CreateLookup(d, g)) \/ CreateInsert(d) \/ CreateCache(d)
BindDevice(d)   == BindLookup(d) \/ (\E g \in Groups : BindGroup(d, g)) \/ BindStore(d)
ReportLocation(d) == ReportUpdate(d) \/ ReportLog(d)
SendBroadcast(b) ==
    (\E t \in Groups \cup {All} : CastStore(b, t)) \/ CastList(b) \/ CastPublish(b)

Next ==
    \/ RecycleConnection
    \/ \E g \in Groups : CreateGroup(g) \/ DeleteGroup(g)
    \/ \E d \in Devices : \/ CreateDevice(d) \/ DeleteDevice(d)
                          \/ BindDevice(d) \/ ReportLocation(d)
    \/ \E b \in Casts : SendBroadcast(b)

Spec == Init /\ [][Next]_vars
-----------------------------------------------------------------------------
(* No row refers to a row that is gone, as the schema declares.  The code  *)
(* does not keep this: the connection is replaced after an hour.           *)
NoOrphans ==
    /\ \A d \in Rows : groupId[d] \in Live
    /\ \A b \in stored : target[b] \in Live
    /\ keys \cup logs \subseteq Rows

(* Requests check and write in separate statements, and the foreign keys   *)
(* close every gap between the two: as long as the connection enforces     *)
(* them, no interleaving of requests leaves an orphan.                     *)
ReferencesIntact == fk => NoOrphans

(* A broadcast reaches the tablets of its group: when its request is done  *)
(* and the broker took the message, every tablet that was subscribed when  *)
(* it was sent, still is, and is still registered, has shown it.           *)
GroupHears ==
    \A b \in Casts : spc[b] = "done" /\ target[b] # All /\ b \notin failed =>
        \A d \in audience[b] \cap Rows : bound[d] = target[b] => b \in received[d]

=============================================================================
