# A TLA+ specification of FreeKiosk Hub

FreeKiosk Hub is a Go server that manages Android kiosk tablets: it polls them,
sends them commands over HTTP and MQTT, shows them on live pages, and runs a
"field trip" mode in which groups of tablets report positions and receive
whitelists and broadcasts. This directory holds TLA+ modules for the parts of
it where goroutines, requests, devices and failures interleave, TLC
configurations that check them, and proofs that TLAPS checks.

Paths below are relative to the repository; `internal/` is left out where it is
clear.

## 1. Inventory

| Component | State | Operations | Module |
|---|---|---|---|
| Command service (`services/command_service.go`) | `pendingCommands` (id → channel), history rows | SendCommand, HandleCommandResponse, CancelCommand | CommandService |
| | results of a batch | SendBatchCommand | DeviceStatus |
| Field-trip mailbox (`repositories/fieldtrip_repo.go`: `pending_commands`) | rows pending/delivered | SetWhitelist, PollCommands | FieldTripMailbox |
| Field-trip registry and broadcasts (`api/fieldtrip_handler.go`, `fieldtrip_ui.go`, `services/broadcast_service.go`) | groups, devices, GPS logs, key cache, broadcasts | create, bulk create, bind, report, delete, broadcast | FieldTripHub |
| Field-trip codes and settings (`api/export_handler.go`) | codes on paper, columns of a device's row | export, QR of a device, device info and configuration | FieldTripCodes |
| Status monitor (`services/monitor.go`), SSE hub (`sse/hub.go`), live pages | job queue, worker pool, one-slot channels | ScanAll, worker, Subscribe*, NotifyNewReport | StatusMonitor |
| WebSocket hub (`sse/websocket.go`, `api/websocket.go`) | connections, subscriptions, send queues | Register, Unregister, Subscribe, Broadcast, Notify* | WebSocketHub |
| MQTT link (`mqtt/client.go`, `services/mqtt_service.go`) | session, handlers by topic, pending calls | Connect, Subscribe, Publish, handleMessage, SendCommand | MqttLink |
| Device status (`services/status_service.go`) | cache of records, subscriber channels | Get*, UpdateDeviceStatus, SetDeviceOnline, SubscribeStatusChanges | DeviceStatus |
| Authentication (`services/auth_service.go`, `jwt_service.go`) | devices, certificates, refresh tokens | RegisterDevice, RefreshTokens, RevokeDevice | Enrollment |
| Tenants and policies (`services/tenant_service.go`, `policy_service.go`) | whole rows with JSON columns, assignments | create, read-change-write, delete, assign | TenantPolicy |
| Kiosk fan-out, PINs, sounds (`services/kiosk_service.go`, `api/html_tablet.go`, `services/media_service.go`) | results of one call, files | the commands to a tablet or a group, PIN changes, uploads | KioskControl |
| Tablet groups (`api/html_groups.go`, `repositories/group.go`) | groups, members | create, delete, toggle | KioskControl |
| Metrics, audit, integrity, downloads, OTA, i18n, configuration | counters, log rows, files | – | not modelled, see 6 |

How they interact. The forms and the API call the services; these share the one
SQLite database, the MQTT link and the HTTP client. Tablets come in over HTTP
(reports, polls, bindings), over MQTT (status, responses) and are asked over HTTP
(the monitor, the kiosk service). The monitor tells the SSE hub of each row that
it saved, and the pages fetch it. Broadcasts and commands leave through the MQTT
link, whose handlers hand responses to the calls that wait.

`cmd/server/main.go` wires the monitor, the MQTT service, the field-trip parts,
the kiosk service, tenants, policies and both hubs. It passes nil for the command,
status and authentication services: their code is complete and modelled, but no
route reaches it yet. The Notify functions of the WebSocket hub, and of the status
service HandleStatusMessage, SetDeviceOnline and SubscribeStatusChanges, have no
caller yet; nor have CheckQuota, GetQuota and the device counters of a tenant.

What is hard here: every HTTP request is a goroutine that interleaves with the
others between statements; response handlers outlive the calls they belong to;
devices answer late, twice or never; a poll's answer may be lost after its
effects are stored; the database driver refuses columns that are Go maps; SQLite
settings are tied to one connection; signals coalesce
in channels of one slot; Go's `select` picks any ready case; a broker keeps the
session of a hub that is gone.

What makes each part correct: a command's caller, its table entry and its
history row agree; a mailbox hands out the newest whitelist and loses none;
rows refer to rows that exist and a broadcast reaches its group, also for tablets
set up by a scanned code; a scan is complete, ends, and every page learns of it;
the WebSocket hub serves the subscribers, forgets those who left and never
touches a closed channel; a call over MQTT returns, leaves nothing behind and does not
claim to have sent what was not; a registration that passes its checks succeeds (it
does not, see 3); every device has a policy; a report of a fan-out is about the right tablets; a fresh report is not covered by an old row.

`PROJECT.json` lists every component, the hazards of the code at their lines,
and the lines that each definition translates.

## 2. Modules

Each component has a module, an `MC...` module that gives constants values for
TLC, and its theorems in a `...Proofs` module; FieldTripProofs and StatusProofs extend
several components, whose names therefore differ by a prefix. Definitions named
"Faulty variant" are no part of a specification; each is a plausible mistake that
makes one property fail, kept to show that the property depends on the code.

### CommandLifecycle, CommandService
`CommandLifecycle` is the contract of one command: one verdict for the caller,
and a history row that leaves "pending" at most once, for the status that
belongs to the verdict or for "canceled". `CommandService` is the code. `pc[c]`
is the next step of the call for `c`; a step is one critical section, channel
operation, SQL statement or publish. `respChan[c]` is the channel of capacity
one. Responses are kept in a set, from which a handler may take one any number
of times: delivery is at least once, in any order. `Publish` may fail although
the broker took the message. `panicked` records a send on a closed channel,
after which nothing runs. `ctxDone[c]` makes later statements of that call fail,
as `database/sql` does.

**Map columns.** The repository hands `payload` and `result` to the driver as
`map[string]interface{}` (`command_repo.go:44`, 58) and scans them into the same
(78-85), which `database/sql` and both drivers of `go.mod` refuse. `MapColumns` is the
set of outcomes that such a statement may have: `{FALSE}` in this repository, where the
history stays empty, CancelCommand finds no row (theorem NothingRecorded), and the
error is only logged; `BOOLEAN` in one where the maps are converted, as `tenant_repo.go`
does, and the statements may still fail. The runs use `{FALSE, TRUE}`: their behaviours
include those of the code as it is, so what they show of the calls holds of it, and
what they show of the rows (HistoryTellsVerdict, the refinement) would go on holding
once the maps are converted; as it is, there is no row to be wrong. The columns
`device_info` of DeviceStatus and Enrollment are treated in the same way.

### FieldTripMailbox
One tablet's rows in `pending_commands`. A poll selects, marks row by row and
answers; a `SetWhitelist` looks the device up, stamps a row and inserts it. The
tablet has one open poll at a time but may give it up (`GiveUp`), after which
the hub finishes it beside the next one. `Crash` drops open requests and keeps
the tables. The UPDATE of a row in `Unmarkable` may fail, and the code ignores
that. `seen[s]` is a history variable: the whitelists that were stored
when the request `s` began.

### FieldTripHub, FieldTripCodes
`FieldTripHub`: groups, devices and broadcasts as rows, each handler split at its
statements. `fk` says whether the connection in use enforces foreign keys;
statements consult it exactly as SQLite does (refuse an insert, refuse or cascade
a delete). `RecycleConnection` replaces the connection. Broadcasts are published
once for a group, or once per active device for "all". `bound[d]` is the group
topic the tablet is subscribed to, `audience[b]` a history variable. BulkCreate is
a sequence of the steps of CreateDevice. A tablet may present any group's key, and
BindDevice answers that group without storing it (`fieldtrip_handler.go:471`); with
`OwnKeyOnly` it presents its own group's, which is what GroupHears needs.

`FieldTripCodes` extends it and says where that key comes from: the QR codes of
`export_handler.go` and HandleGetDeviceQR, each put together from several statements
while the registry goes on, are what a tablet scans and binds with
(`docs/field-trip/README.md`, 7.1). So `OwnKeyOnly` is not assumed there but follows.
A request that renders codes answers once. Codes with `[KEY_NOT_FOUND]` are left
out, as nobody can bind with them. `settings` stands for the columns that
UpdateDeviceInfo and UpdateDeviceConfig write.

### StatusMonitor
ScanAll, its workers and the pages; the statements about tablets in `Failing`
may fail. A row and a report are stood for by the
number of the scan that wrote them. `signal` is the set of pages whose one-slot
channel is full. What a page shows is stood for by `staleRow` and `staleReport`:
the watched tablets written since the page read them; `missed...` are those
written before the page subscribed, which the code does not claim to show.

### WebSocketHub
`register` and `unregister` are the channels that Run serves (as sets: the order
of waiting connections does not matter), `connections` its table, `members` and
`subscribed` the two views of the subscriptions, `send[c]` the buffered channel
of a connection and `written[c]` what its writer goroutine put on the socket.
Messages are pointers: `Label` is what the shared message says when it is
written. The frames that a handler writes itself (welcome, acknowledgements, pong) are
left out. They go into the socket beside the writer goroutine's (`api/websocket.go:104`,
115, 123 against 68), which gorilla/websocket forbids and answers with a panic when it
notices: a behaviour of the code may end there, and the safety properties speak of what
comes before; LeaversAreForgotten supposes that it does not happen.

### MqttLink
The connection manager's callbacks set `connected`, later than the link itself
changes. `session` and `inbox` are the broker's: they outlive a reconnect and a
restart of the hub (without CleanStart the first state may have a full session), and
vanish when the session expires, after which nothing subscribes again. Subscribing
stores the handler first; its error is only logged. Messages come at least once and
are taken in one at a time. A handler is found under the literal filter only.
SendCommand registers, publishes, waits for its acknowledgement (which may fail
although the broker took the command), and then for a response or the timer; its
deferred clean-up follows every way out.

The instance has the filters of MQTTService.Connect. All four have wildcards, so
messages of three of them arrive and find no handler; the fourth,
`kiosk/<tenant>/+response/+`, is not a valid filter, so the broker refuses it and no
response arrives (`Valid`). handleCommandResponse is therefore never called, and every
call times out (theorem WildcardAnswersNobody, for any filters that are no topics). It
is modelled as one step; the race between its lookup and its send, which is the same
code as in the command service, is checked there. `mqtt/handlers.go` has no caller and
is left out.

### DeviceStatus
The cache holds pointers, and SetDeviceOnline writes into the record it finds there:
a record is named by the request that made it and its device, and the cache maps
devices to such names. Each access to the cache, the table or a record is a step.
A cached record never expires. GetAllDeviceStatuses puts what the table says over
every cached record, fresh reports included, which is why `settled` (the devices
with a report that nothing overlapped) forgets a device that is listed or set. A
subscriber's goroutine takes its channel out of the list under the lock and closes
it afterwards; `panicked` is a send to a closed one. A batch is a set of goroutines
that each ask IsDeviceOnline and then run SendCommand, taken at the contract that
CommandLifecycle states: one verdict. Targets by group and "all" add no devices in
the code. Reading a row of `devices` scans a map column (`device_repo.go:57-65`, 130), so
with the drivers of `go.mod` it fails; `MapColumns` has both outcomes in the run, which
includes the behaviours of the code as it is.

### Enrollment
The three services statement by statement. A uuid is the request that drew it, and a
query that fails is taken for "no such device", as the code does. `MapColumns` is as in
CommandService: the INSERT of a device passes the map `device_info`
(`device_repo.go:53`), its UPDATE too (95), and its SELECT scans it (77-85). As it is,
no device is ever stored, and so no certificate and no token (theorem NobodyEnrolls):
the steps after the INSERT, the refreshes and the revocations are translated and never
succeed. `Outages` lets statements fail for other reasons; the run excludes them, so that its
counterexample is the code's own. What the code would keep once the maps are converted
(that credentials fit together, that dead tokens stay dead) is no property here. That
GetByDeviceID cannot scan a NULL `revoked_reason`, and that CA files which cannot be
read are silently replaced by a new CA (`ca_service.go:48`), are not modelled.

### TenantPolicy
Reading a row, changing the copy and writing it back are two steps, for tenants
(service) and for the whitelist of a policy (repository). Policies have no table in
the SQLite schema that the server creates; they follow
`migrations/001_enterprise_schema.sql`, where a device refers to its policy ON DELETE
SET NULL. AssignPolicy uses the first device of the request only. The slug of a deleted
tenant stays taken; an update that overlaps a deletion brings the tenant back, and
concurrent additions of different apps, or changes of the counter, lose one: the code
claims nothing else, and no property does. The plan of a request is validated, its
status is stored as it comes (`tenant_service.go:155`): `GivenStatuses`. A whitelist given
whole is stored unchecked (`policy_service.go:84`, `api/policy.go:187`) and may name a
package twice (`GivenTwice`); RemoveApp and UpdateApp then find the first of its entries
(`First`), so a package that was removed may still be listed.

### KioskControl
A call resolves its target to a list, starts a goroutine (`lane`) per tablet, and each
puts its result at its own index. A tablet acts or not and is heard or not, which
are separate: `performed` is what took place. `kind` is how the client judges an
answer: by its content, by its arrival, or as a status. PINs go over MQTT when the link is up,
else over HTTP; a bulk change is sequential, and counts over HTTP a success whatever
the tablet answers (`html_tablet.go:566`). A toggle of a group reads and writes in
two statements. An upload creates the file and then copies, and leaves a partial one
if that fails. The form for sounds takes any address. The library's Delete has no caller.

## 3. Runs

Every run finishes in two and a half minutes or less on two workers. Bounds are in the
configurations; deadlock is not checked because every instance has a bounded
number of requests and then stops. Eleven runs pass; `enrollment` ends with the
violation that it is there to show.

| Run | Bounds, and why they are enough | Shows |
|---|---|---|
| command_safety | 2 commands, history statements that may each succeed or fail, 1 handler, 1 canceler (3.5 million states). Two commands are needed to confuse responses; one handler already races with both calls. | TypeOK, TableTracksCalls, VerdictFromDevice, HistoryTellsVerdict |
| command_lifecycle | 1 command, 2 handlers, statements may fail, no canceler. | ImplementsLifecycle (the code refines CommandLifecycle), CallReturns |
| mailbox_order | 3 whitelists, one unmarkable, 2 polls, 2 seconds, lost answers, restarts. Three rows are the smallest batch with a first, a middle and a last; two polls are needed to overlap. | MailboxTypeOK, OldestFirst, NeverReverts |
| mailbox_delivery | 3 whitelists without losses, under fairness. | WhitelistReachesTablet |
| registry | 2 groups, 2 devices, 1 broadcast, 1 request that renders codes, failing publishes, a connection that is replaced at any moment (2.1 million states). Two groups, so that a broadcast has listeners and non-listeners and a code could name the wrong one. | CodesTypeOK, ReferencesIntact, GroupHears |
| monitor | 2 tablets, one with failing statements, 2 workers, 2 scans, 1 dashboard. One worker may serve both tablets while the other finds the queue empty; two scans show that nothing is left over; pages do not interact, so one stands for any. | TypeOK, ScanIsComplete, RowRefreshPending, ScanEnds |
| websocket | 1 connection, a device channel and a tenant channel, 2 notifications, 3 messages for everybody, a queue of 2, a send buffer of 2 that overflows. Run and the notifications treat connections one by one and independently, so one stands for any; three messages are needed to lose one between two. | TypeOK, NeverSendsOnClosed, InOrder, OnlyToSubscribers, LeaversAreForgotten |
| mqtt | 2 calls waited for, 1 not, the four filters, messages in any number. Calls share only the table, at their own keys. | TypeOK, TableFollowsCalls, SentReachedBroker, CallReturns |
| status | 1 device, 2 requests, a batch of 2, 1 subscriber (4.4 million states). Devices do not interact except through lists; two requests and two lanes are four callers on one record. | StatusTypeOK, NeverSendsOnClosed, ReportLasts, BatchAddsUp |
| enrollment | 1 key, 1 registration, 1 refresh, 1 revocation, `MapColumns = {FALSE}`, no outages. One registration is enough: nothing else is under way in the counterexample. | ChecksSuffice, violated: the tenant is active, the request is right, no device has the key, and the INSERT is refused |
| tenants | 4 requests, 1 slug, 2 apps and a list that names one of them twice, a status the code has no name for, 1 device. Two may create while two change; two apps are the least for a list with a duplicate to appear beside another. | TypeOK, NothingTwice, EveryDeviceHasPolicy |
| kiosk | 2 tablets and an id without a row, 1 group, 2 toggles, 1 call, 1 upload. Calls share nothing but the tablets. | TypeOK, ReportTellsTruth, MembersBelong, CallAnswers |

### Where the code differs from what it says

Five definitions are stated in the modules, or are obtained by a switch, and fail;
to see the counterexample, add them to the configuration named.

| Add | to | What the code does |
|---|---|---|
| `LateResponseIsDropped` | MCCommandService.cfg | A response looked up before the timeout is sent on the closed channel: panic (`command_service.go:322` against 132; `mqtt_service.go:174` has the same). |
| `Lossy = TRUE` | MCFieldTripDelivery.cfg | Rows are marked delivered before the answer is written (`fieldtrip_repo.go:262`); a lost answer loses the whitelist. |
| `NoOrphans` | MCFieldTripHub.cfg | `PRAGMA foreign_keys` is set on the first connection only (`databases/sqlite.go:24`), which lives an hour; after that deletions leave orphans. |
| `ReportRefreshPending` | MCStatusMonitor.cfg | The pages are notified before the report is stored (`monitor.go:113`, 116) and may show the old one until the next scan. |
| `FetchTimesOut = FALSE` | MCStatusMonitor.cfg | The HTTP client used with Tailscale has no timeout (`network/tailscale.go:24`), so one silent tablet ends polling: ScanEnds fails. |

Others, met while modelling:

* CancelCommand reads and writes the row in two statements and overwrites a row
  that completed in between (`command_service.go:302-311`).
* The update that should record a cancellation uses the canceled context
  (`command_service.go:194`): the row would stay pending.
* No command has a row at all, and no device is ever registered, because the driver
  refuses maps (`command_repo.go:44`, `device_repo.go:53`): see CommandService and
  Enrollment.
* A handler's acknowledgements and its writer goroutine use one socket at once
  (`api/websocket.go:104` against 68).
* A tenant takes any status, and a whitelist any list, duplicates included
  (`tenant_service.go:155`, `policy_service.go:84`).
* An empty whitelist is left out of the JSON (`omitempty`, `models/fieldtrip.go:63`),
  and so is a whitelist delivered in one batch with a later empty one. The runs
  have no empty lists (`EmptyLists = {}`).
* A broadcast to all devices is refused by the foreign key of its empty group id
  (`fieldtrip_handler.go:702`).
* No poll ever returns a broadcast whose publish failed
  (`broadcast_service.go:58`); `docs/field-trip/README.md:645` says tablets poll
  while MQTT is down.
* Run may take an unregistration before the registration of the same connection
  and keep it for ever (`sse/websocket.go:93`): LeaversAreForgotten is about the
  connections that were registered when they left.
* A queued message changes its channel before it is written
  (`sse/websocket.go:229`): `written` records label and channel, which differ.
* No response over MQTT finds its handler (see MqttLink).
* A disabled device that registers again is issued a certificate for an id that no
  row has (`auth_service.go:121` against 109), and the registration fails.
* SetDeviceOnline changes the cached record before it is compared with itself, so no
  event is raised (`status_service.go:207`).
* Two OTA uploads of one name within a second share a file (`ota_handler.go:76`).

## 4. Fairness

* CommandService: each call is a goroutine that the scheduler runs, and
  `time.After` fires. Nothing is assumed of devices, callers and operators.
* FieldTripMailbox: the tablet polls every 30 seconds and a request that was
  taken in goes on. Nothing makes an administrator act or a poll succeed.
* StatusMonitor: workers and the monitor run and statements return; a fetch ends
  only if `FetchTimesOut`, which is how `main.go` configures the client without
  Tailscale. Nothing is assumed of browsers.
* WebSocketHub: the goroutines run, and Run's `select` ignores no ready channel
  for ever (Go picks uniformly at random).
* MqttLink: the goroutine of a call runs and its timer fires. Nothing is assumed
  of the broker, the network, the session or the devices.
* KioskControl: the goroutines of a call run and statements return; an exchange with
  a tablet ends only if `RequestTimesOut` (15 seconds without Tailscale).
* FieldTripHub, FieldTripCodes, DeviceStatus, Enrollment, TenantPolicy: safety only,
  none assumed.

## 5. Proofs

Every theorem holds for all values of the constants; each module proves
`Init => IInv`, `IInv /\ [Next]_vars => IInv'` and `IInv => Inv`. The assumptions
are the named ASSUMEs of the modules, and the ones stated in a theorem.

* **CommandServiceProofs**: TypeOK, TableTracksCalls, VerdictFromDevice,
  HistoryTellsVerdict, NothingRecorded (of the drivers as they are) and the refinement of
  CommandLifecycle, with no canceler or with the drivers as they are. The invariant adds what the properties leave implicit: what
  sits in a channel or in a handler's hands is a response of that very command,
  and a row's status fits the step its call has reached.
* **FieldTripProofs**, the three modules of the field trip.
  * FieldTripMailbox: MailboxTypeOK, OldestFirst and NeverReverts. The invariant
    says that the rows a poll has left to mark are later than the ones it has
    marked, and that nothing stored before one of them is pending outside; it
    survives lost answers, overlapping polls, restarts and rows that cannot be
    marked.
  * FieldTripHub: TypeOK; ReferencesIntact (the foreign keys close the gap between
    check and write); GroupHears when tablets bind with their own group's key. The
    last needs that what a bound tablet listens to is the group of its row, and that
    a broadcast in flight has its one publish left.
  * FieldTripCodes: every step of the codes is a step of the registry or a stutter
    for it, so its type and its references carry over; codes only name the group of
    their own device (the group of a device never changes, so what a request has read
    stays true); hence GroupHears without the assumption about keys.
* **StatusProofs**, the monitor and the device status service.
  * StatusMonitor: TypeOK; that no worker outlives its scan and no tablet has two
    (NothingLate); ScanIsComplete (each tablet is queued, some worker's job, or
    done); RowRefreshPending (a written row has a worker about to notify, a signal,
    an event or a read before it).
  * DeviceStatus: StatusTypeOK, NeverSendsOnClosed, ReportLasts, BatchAddsUp. Because
    the cache holds pointers, ReportLasts needs to know who can reach a record: the
    record of a request that has not begun, or of a report on its way to the cache, is
    known to nobody else, so nobody can set it offline (`ShareInv`); and about a settled
    device no request is between its miss and its fill, is setting it, or is listing
    (`SettledInv`). One lemma (`CacheStepKeeps`) carries this over any step that takes,
    stores and changes only what is the caller's own, in the cache or in its hands, and
    each operation is shown to be such a step. For batches, what the lanes have counted
    is the cardinality of the lanes that are done, split by what their devices did
    (`LaneInv`). `Lanes` is finite and no lane is a request.
* **WebSocketHubProofs**: TypeOK, NeverSendsOnClosed, OnlyToSubscribers, InOrder. The
  invariant: a connection waits to be unregistered only after its handler ended,
  what is closed is in no table and no channel, and a member of a channel has it
  in its own map, which is where Run looks. It also gives ClosedForGood, the half of
  LeaversAreForgotten that is about safety. For InOrder, the numbers of what a
  connection has written lie below those in its Send, and these below what waits for
  Run, each sequence rising; notifications go between them and have no number
  (assumed: no channel is called "all").
* **EnrollmentProofs**: TypeOK for either kind of driver, and NobodyEnrolls: with
  drivers that refuse maps there is never a device, a certificate or a live token,
  however many requests come. The invariant says that no request gets past the
  statement that needs a row of devices.
* **TenantPolicyProofs**: TypeOK, for any statuses that requests name, NothingTwice and
  EveryDeviceHasPolicy. The copies in the hands of requests repeat no package but those
  that a given list repeats, which is why storing an outdated copy loses changes but
  duplicates nothing; lemmas say what appending, removing and replacing do to such a list.
  Of the lists given nothing is assumed but their type.
* **KioskControlProofs**: TypeOK, ReportTellsTruth, MembersBelong. Each call is described
  by its stage (what its step says of its list and its goroutines), by each goroutine (an
  answer that confirms comes from a tablet that acted, what is stored is about the
  goroutine's own tablet, and a finished call has waited for all of them) and by its tally
  (a bulk change has counted the tablets it has come to). `Tablets` is finite. A toggle
  that read its group before a deletion is refused by the foreign key.
* **MqttLinkProofs**: TypeOK, TableFollowsCalls, SentReachedBroker and
  WildcardAnswersNobody. Connect has stored the handlers of all filters up to the next
  one, calls begin after it, a call is in the table exactly from its publish to its
  deletion, and one that waits has published. With the response filter that the code
  subscribes, which is no topic, nothing is ever answered: what section 3 says of
  responses over MQTT is a theorem about every run of the hub. There is at least one
  filter (the code has four).

Every invariant and action property of the passing runs is proved. Only model-checked are the
liveness properties (CallReturns of CommandService and of MqttLink, WhitelistReachesTablet,
ScanEnds, LeaversAreForgotten, CallAnswers): fairness and ENABLED are out of the prover's
reach.

## 6. Not modelled, and the plan

Payloads, wording, HTTP status codes and logging are left out; SQL statements
are atomic. JSON marshalling of commands cannot fail for the parameters that the
API binds. What is signed, hashed or encrypted is out of scope, and so are queries that only
read (histories, lists, photos).

* Metrics count under a mutex of their own, an audit log is one INSERT per row, and
  the verdict of Play Integrity is printed and used by nobody: no step of one request
  depends on another's.
* Downloads and OTA serve files of one directory and name the newest; the upload has
  the shape of KioskControl's. Its collision of names is listed as a finding.
* Start-up, configuration, translations, the PostgreSQL driver and the Tailscale node
  run once, before anything interleaves; generated code (`docs/docs.go`,
  `ui/*_templ.go`) has no state.

What is left, in this order: composing DeviceStatus with CommandService instead of the
contract, and the refinement it would need; composing FieldTripHub's publishes with
MqttLink once responses are dispatched by filter; OTA uploads.
