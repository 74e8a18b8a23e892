--------------------------- MODULE StatusMonitor ----------------------------
(***************************************************************************)
(* The monitoring loop and the live pages.  ScanAll                        *)
(* (internal/services/monitor.go) queues every tablet, lets a pool of      *)
(* worker goroutines fetch, save, notify and report them, waits for the    *)
(* pool and cleans old reports up.  The notification hub                   *)
(* (internal/sse/hub.go) keeps a channel of capacity one per open page;    *)
(* the handlers of /sse/... (internal/api/router.go) turn a signal into an *)
(* "update" event, on which the browser fetches the page again             *)
(* (internal/api/html_tablet.go, html_dashboard.go).                       *)
(*                                                                         *)
(* A row or report is stood for by the number of the scan that wrote it,   *)
(* and what a page shows by what has changed since the page read it.       *)
(***************************************************************************)
EXTENDS Integers

CONSTANTS Tablets,      (* the tablets in the table                        *)
          Workers,      (* the goroutines of the pool, maxWorkers of them  *)
          Pages,        (* open browser pages                              *)
          Watched,      (* Watched[p]: one tablet, or on the dashboard all *)
          MaxScans,     (* bound on the scans                              *)
          Failing,      (* the tablets whose statements may fail           *)
          Retains,      (* is retentionDays positive?                      *)
          FetchTimesOut,(* has the HTTP client a timeout?  (cmd/server/    *)
                        (* main.go gives one only without Tailscale)       *)
          NoTablet      (* "the worker has no job"                         *)

ASSUME PoolAssumption == Tablets # {} /\ Workers # {} /\ Failing \subseteq Tablets
ASSUME PageAssumption == Watched \in [Pages -> SUBSET Tablets]
ASSUME ScanAssumption == MaxScans \in Nat
ASSUME SwitchAssumption == {Retains, FetchTimesOut} \subseteq BOOLEAN
ASSUME NoTabletAssumption == NoTablet \notin Tablets

VARIABLES
    scan,       (* the number of the current or last scan                  *)
    spc,        (* where the monitor goroutine stands                      *)
    jobs,       (* the tablets waiting in the closed channel jobs          *)
    wpc, wjob,  (* a worker's next step and the tablet it works on         *)
    wok,        (* wok[w]: the fetched report is a success                 *)
    row,        (* row[t]: the scan that last saved t's row                *)
    reported,   (* reported[t]: the scan of t's last report                *)
    subscribed, (* the pages with a channel in the hub                     *)
    signal,     (* the pages whose channel holds a signal                  *)
    queued,     (* the pages whose browser has an update event to act on   *)
    ppc,        (* ppc[p]: where page p stands                             *)
    unread,     (* unread[p]: the tablets whose report p has yet to read   *)
    staleRow, staleReport,   (* the watched tablets whose row, or last     *)
                (* successful report, was written since p read it          *)
    missedRow, missedReport  (* those of them written before p subscribed  *)

scanVars   == <<scan, spc, jobs>>
workerVars == <<wpc, wjob, wok>>
tableVars  == <<row, reported>>
hubVars    == <<subscribed, signal>>
pageVars   == <<queued, ppc, unread>>
rowVars    == <<staleRow, missedRow>>
reportVars == <<staleReport, missedReport>>
shownVars  == <<rowVars, reportVars>>
vars == <<scanVars, workerVars, tableVars, hubVars, pageVars, shownVars>>

Scans == 0..MaxScans

TypeOK ==
    /\ scan \in Scans
    /\ spc \in {"idle", "scanning", "cleanup"}
    /\ jobs \subseteq Tablets
    /\ wpc \in [Workers -> {"off", "next", "fetch", "save", "notify", "add"}]
    /\ wjob \in [Workers -> Tablets \cup {NoTablet}]
    /\ wok \in [Workers -> BOOLEAN]
    /\ row \in [Tablets -> Scans] /\ reported \in [Tablets -> Scans]
    /\ subscribed \subseteq Pages /\ signal \subseteq subscribed
    /\ queued \subseteq Pages
    /\ ppc \in [Pages -> {"away", "rows", "reports", "connect", "live"}]
    /\ unread \in [Pages -> SUBSET Tablets]
    /\ {staleRow, missedRow, staleReport, missedReport} \subseteq [Pages -> SUBSET Tablets]

Init ==
    /\ scan = 0 /\ spc = "idle" /\ jobs = {}
    /\ wpc = [w \in Workers |-> "off"]
    /\ wjob = [w \in Workers |-> NoTablet] /\ wok = [w \in Workers |-> FALSE]
    /\ row = [t \in Tablets |-> 0] /\ reported = [t \in Tablets |-> 0]
    /\ subscribed = {} /\ signal = {} /\ queued = {}
    /\ ppc = [p \in Pages |-> "away"] /\ unread = [p \in Pages |-> {}]
    /\ staleRow = [p \in Pages |-> {}] /\ missedRow = [p \in Pages |-> {}]
    /\ staleReport = [p \in Pages |-> {}] /\ missedReport = [p \in Pages |-> {}]

-----------------------------------------------------------------------------
(* The monitor goroutine: one scan at the start and one per tick, never    *)
(* two at a time.  A failing GetAll skips the scan, which changes nothing. *)

ScanStart ==
    /\ spc = "idle" /\ scan < MaxScans
    /\ scan' = scan + 1 /\ spc' = "scanning"
    /\ jobs' = Tablets
    /\ wpc' = [w \in Workers |-> "next"]
    /\ UNCHANGED <<wjob, wok, tableVars, hubVars, pageVars, shownVars>>

(* Faulty variant: the scan goes on as soon as the queue is empty.         *)
ScanWaitsForQueue ==
    /\ spc = "scanning" /\ jobs = {}
    /\ spc' = "cleanup"
    /\ UNCHANGED <<scan, jobs, workerVars, tableVars, hubVars, pageVars, shownVars>>

(* wg.Wait()                                                               *)
ScanWait ==
    /\ spc = "scanning" /\ \A w \in Workers : wpc[w] = "off"
    /\ spc' = "cleanup"
    /\ UNCHANGED <<scan, jobs, workerVars, tableVars, hubVars, pageVars, shownVars>>

(* Reports older than the retention go; those of this scan are too young.  *)
ScanCleanup ==
    /\ spc = "cleanup"
    /\ spc' = "idle"
    /\ \E old \in SUBSET {t \in Tablets : Retains /\ reported[t] < scan} :
          reported' = [t \in Tablets |-> IF t \in old THEN 0 ELSE reported[t]]
    /\ UNCHANGED <<scan, jobs, workerVars, row, hubVars, pageVars, shownVars>>

-----------------------------------------------------------------------------
(* A worker: for t := range jobs { fetch; save; notify; add }.             *)

Advance(w, from, to) ==
    /\ wpc[w] = from
    /\ wpc' = [wpc EXCEPT ![w] = to]

(* The pages that show t, whether or not they are subscribed.              *)
Outdated(stale, t) == [p \in Pages |-> stale[p] \cup ({t} \cap Watched[p])]
Unmissed(missed, t) == [p \in Pages |-> IF p \in subscribed THEN missed[p] \ {t} ELSE missed[p]]

WorkerNext(w) ==
    /\ \/ /\ Advance(w, "next", "fetch")
          /\ \E t \in jobs :
                /\ jobs' = jobs \ {t}
                /\ wjob' = [wjob EXCEPT ![w] = t]
       \/ /\ Advance(w, "next", "off") /\ jobs = {}
          /\ UNCHANGED <<jobs, wjob>>
    /\ UNCHANGED <<scan, spc, wok, tableVars, hubVars, pageVars, shownVars>>

(* An unreachable tablet is a report of a failure, never an error path.    *)
WorkerFetch(w) ==
    /\ Advance(w, "fetch", "save")
    /\ \E ok \in BOOLEAN : wok' = [wok EXCEPT ![w] = ok]
    /\ UNCHANGED <<scanVars, wjob, tableVars, hubVars, pageVars, shownVars>>

SaveAs(w, next) ==
    /\ \/ /\ Advance(w, "save", next)
          /\ row' = [row EXCEPT ![wjob[w]] = scan]
          /\ staleRow' = Outdated(staleRow, wjob[w])
          /\ missedRow' = Unmissed(missedRow, wjob[w])
       \/ wjob[w] \in Failing /\ Advance(w, "save", "add") /\ UNCHANGED <<row, rowVars>>
    /\ UNCHANGED <<scanVars, wjob, wok, reported, hubVars, pageVars, reportVars>>

(* Faulty variant: only a tablet that is online is worth a notification.   *)
SaveNotifiesOnline(w) == SaveAs(w, IF wok[w] THEN "notify" ELSE "add")

(* Only a row that was saved is notified.                                  *)
WorkerSave(w) == SaveAs(w, "notify")

(* NotifyNewReport: a full channel already holds a signal.                 *)
WorkerNotify(w) ==
    /\ Advance(w, "notify", "add")
    /\ signal' = signal \cup {p \in subscribed : wjob[w] \in Watched[p]}
    /\ UNCHANGED <<scanVars, wjob, wok, tableVars, subscribed, pageVars, shownVars>>

AddReport(w) ==
    /\ Advance(w, "add", "next")
    /\ LET t == wjob[w] IN
          \/ /\ reported' = [reported EXCEPT ![t] = scan]
             /\ IF wok[w] THEN /\ staleReport' = Outdated(staleReport, t)
                               /\ missedReport' = Unmissed(missedReport, t)
                          ELSE UNCHANGED reportVars
          \/ t \in Failing /\ UNCHANGED <<reported, reportVars>>
    /\ wjob' = [wjob EXCEPT ![w] = NoTablet]
    /\ UNCHANGED <<scanVars, wok, row, hubVars, pageVars, rowVars>>

(* Faulty variant: the worker never comes back from an offline tablet.     *)
AddUnlessOffline(w) == wok[w] /\ AddReport(w)

WorkerAdd(w) == AddReport(w)

-----------------------------------------------------------------------------
(* The pages: load, connect to the event stream, refresh on each event.    *)

Step(p, from, to) ==
    /\ ppc[p] = from
    /\ ppc' = [ppc EXCEPT ![p] = to]
    /\ UNCHANGED <<scanVars, workerVars, tableVars>>

Open(p) ==
    /\ Step(p, "away", "rows")
    /\ UNCHANGED <<hubVars, queued, unread, shownVars>>

(* One statement reads the row, or on the dashboard all rows ...           *)
ReadRows(p) ==
    /\ Step(p, "rows", "reports")
    /\ staleRow' = [staleRow EXCEPT ![p] = {}]
    /\ missedRow' = [missedRow EXCEPT ![p] = {}]
    /\ unread' = [unread EXCEPT ![p] = Watched[p]]
    /\ UNCHANGED <<hubVars, queued, reportVars>>

(* ... and one more per tablet its last successful report.                 *)
ReadReport(p) ==
    /\ Step(p, "reports", "reports")
    /\ \E t \in unread[p] :
          /\ staleReport' = [staleReport EXCEPT ![p] = @ \ {t}]
          /\ missedReport' = [missedReport EXCEPT ![p] = @ \ {t}]
          /\ unread' = [unread EXCEPT ![p] = @ \ {t}]
    /\ UNCHANGED <<hubVars, queued, rowVars>>

Render(p) ==
    /\ unread[p] = {}
    /\ Step(p, "reports", IF p \in subscribed THEN "live" ELSE "connect")
    /\ UNCHANGED <<hubVars, queued, unread, shownVars>>

Subscribe(p) ==
    /\ Step(p, "connect", "live")
    /\ subscribed' = subscribed \cup {p}
    /\ missedRow' = [missedRow EXCEPT ![p] = staleRow[p]]
    /\ missedReport' = [missedReport EXCEPT ![p] = staleReport[p]]
    /\ UNCHANGED <<signal, queued, unread, staleRow, staleReport>>

(* The handler of the event stream takes the signal and writes the event.  *)
SendEvent(p) ==
    /\ p \in signal
    /\ signal' = signal \ {p}
    /\ queued' = queued \cup {p}
    /\ UNCHANGED <<scanVars, workerVars, tableVars, subscribed, ppc, unread, shownVars>>

(* The browser acts on an event once its request in flight is answered.    *)
Refresh(p) ==
    /\ p \in queued
    /\ Step(p, "live", "rows")
    /\ queued' = queued \ {p}
    /\ UNCHANGED <<hubVars, unread, shownVars>>

(* Faulty variant: the channel leaves only one of the hub's two maps.      *)
UnsubscribeHalf(p) == subscribed' = subscribed \ {p} /\ UNCHANGED signal

(* The stream breaks and the browser connects again, or the page is left.  *)
Unsubscribe(p) == subscribed' = subscribed \ {p} /\ signal' = signal \ {p}

Drop(p) ==
    /\ Step(p, "live", "connect")
    /\ Unsubscribe(p)
    /\ UNCHANGED <<queued, unread, shownVars>>

Close(p) ==
    /\ Step(p, "live", "away")
    /\ Unsubscribe(p)
    /\ queued' = queued \ {p}
    /\ UNCHANGED <<unread, shownVars>>
-----------------------------------------------------------------------------
ScanAll == ScanStart \/ ScanWait \/ ScanCleanup
Worker(w) ==
    WorkerNext(w) \/ WorkerFetch(w) \/ WorkerSave(w) \/ WorkerNotify(w) \/ WorkerAdd(w)
Load(p) == ReadRows(p) \/ ReadReport(p) \/ Render(p)
Page(p) == Open(p) \/ Load(p) \/ Subscribe(p) \/ SendEvent(p) \/ Refresh(p) \/ Drop(p) \/ Close(p)

Next ==
    \/ ScanAll
    \/ \E w \in Workers : Worker(w)
    \/ \E p \in Pages : Page(p)

Spec == Init /\ [][Next]_vars

(* The scheduler runs the workers and the monitor, and statements return;  *)
(* a fetch from a tablet that accepts the request and says nothing ends    *)
(* only if the client has a timeout.                                       *)
FairSpec ==
    /\ Spec /\ WF_vars(ScanAll)
    /\ \A w \in Workers : WF_vars((wpc[w] = "fetch" => FetchTimesOut) /\ Worker(w))
-----------------------------------------------------------------------------
(* A scan that reached its cleanup has dealt with every tablet: each has a *)
(* row and a report of this scan, however the workers shared the queue and *)
(* whatever the statements of other tablets came to.                       *)
ScanIsComplete ==
    spc = "cleanup" => \A t \in Tablets \ Failing : row[t] = scan /\ reported[t] = scan

(* No result is written after its scan: the row and the report of a tablet *)
(* never go back, and no worker is left over from an earlier scan.         *)
NothingLate ==
    /\ spc # "scanning" => \A w \in Workers : wpc[w] = "off"
    /\ \A v, w \in Workers : v # w /\ wjob[v] # NoTablet => wjob[v] # wjob[w]

(* The path from a signal to the page, for a change of t.                  *)
OnItsWay(p, t) ==
    \/ p \in signal \cup queued
    \/ ppc[p] = "rows"
    \/ \E w \in Workers : wpc[w] = "notify" /\ wjob[w] = t

(* No wake-up is lost: when a row has been written since its page          *)
(* subscribed and the page has not read it again, a refresh is on its way, *)
(* although signals coalesce in a channel of one slot.                     *)
RowRefreshPending ==
    \A p \in subscribed : \A t \in staleRow[p] \ missedRow[p] : OnItsWay(p, t)

(* The same of the reports, which the pages are about.  The code does not  *)
(* keep this: it notifies before it adds the report.                       *)
ReportRefreshPending ==
    \A p \in subscribed : \A t \in staleReport[p] \ missedReport[p] :
        OnItsWay(p, t) \/ t \in unread[p]

(* Every scan ends, whatever tablets are offline, so that the next can     *)
(* start.  It depends on the timeout of the client.                        *)
ScanEnds == spc = "scanning" ~> spc = "idle"
=============================================================================
