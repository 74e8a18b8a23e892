---------------------------- MODULE StatusProofs -----------------------------
(***************************************************************************)
(* Proofs about the two services that know the state of the tablets.       *)
(*                                                                         *)
(* StatusMonitor, for any number of tablets, workers, pages and scans:     *)
(* scans are complete and never overlap, and no wake-up of a page is lost. *)
(*                                                                         *)
(* DeviceStatus, for any devices, requests, lanes and subscribers: reports *)
(* last in the cache, no notification meets a closed channel, and batches  *)
(* add up.                                                                 *)
(***************************************************************************)
EXTENDS StatusMonitor, DeviceStatus, FiniteSetTheorems, TLAPS

-----------------------------------------------------------------------------
(* The monitor *)

AtWork == {"fetch", "save", "notify", "add"}

(* Workers share the queue: each tablet is in it, or one worker's job, or  *)
(* done with; a worker ends only when the queue is empty.                  *)
WorkerInv ==
    /\ \A w \in Workers : wjob[w] # NoTablet <=> wpc[w] \in AtWork
    /\ \A w \in Workers : wjob[w] \notin jobs
    /\ \A w \in Workers : wpc[w] = "off" => jobs = {}

(* What is neither queued nor somebody's job has been saved and reported.  *)
DoneInv ==
    spc = "scanning" =>
        \A t \in Tablets \ (jobs \cup Failing) :
            /\ (\A w \in Workers : wjob[w] # t) => row[t] = scan /\ reported[t] = scan
            /\ \A w \in Workers : wjob[w] = t /\ wpc[w] \in {"notify", "add"} => row[t] = scan

StaleInv == \A p \in Pages : staleRow[p] \subseteq Watched[p]

ScanInv == TypeOK /\ WorkerInv /\ NothingLate /\ DoneInv /\ ScanIsComplete
PageInv == StaleInv /\ RowRefreshPending

-----------------------------------------------------------------------------
LEMMA InitTypeOK == Init => TypeOK
  BY ScanAssumption DEF Init, TypeOK, Scans

LEMMA NextTypeOK == TypeOK /\ [Next]_vars => TypeOK'
<1> SUFFICES ASSUME TypeOK, [Next]_vars PROVE TypeOK'
  OBVIOUS
<1> USE PageAssumption, ScanAssumption, NoTabletAssumption
    DEF TypeOK, Scans, scanVars, workerVars, tableVars, hubVars, pageVars, rowVars, reportVars, shownVars
<1>1. CASE ScanStart
  BY <1>1 DEF ScanStart
<1>2. CASE ScanWait
  BY <1>2 DEF ScanWait
<1>3. CASE ScanCleanup
  BY <1>3 DEF ScanCleanup
<1>4. ASSUME NEW w \in Workers, WorkerNext(w) \/ WorkerFetch(w) PROVE TypeOK'
  BY <1>4 DEF WorkerNext, WorkerFetch, Advance
<1>5. ASSUME NEW w \in Workers, WorkerSave(w) PROVE TypeOK'
  <2>1. CASE wjob[w] \in Tablets
    BY <1>5, <2>1 DEF WorkerSave, SaveAs, Advance, Outdated, Unmissed
  <2>2. CASE wjob[w] = NoTablet
    BY <1>5, <2>2 DEF WorkerSave, SaveAs, Advance, Outdated, Unmissed
  <2>3. QED
    BY <2>1, <2>2
<1>6. ASSUME NEW w \in Workers, WorkerNotify(w) PROVE TypeOK'
  BY <1>6 DEF WorkerNotify, Advance
<1>7. ASSUME NEW w \in Workers, WorkerAdd(w) PROVE TypeOK'
  <2>1. CASE wjob[w] \in Tablets
    BY <1>7, <2>1 DEF WorkerAdd, AddReport, Advance, Outdated, Unmissed
  <2>2. CASE wjob[w] = NoTablet
    BY <1>7, <2>2 DEF WorkerAdd, AddReport, Advance, Outdated, Unmissed
  <2>3. QED
    BY <2>1, <2>2
<1>8. ASSUME NEW p \in Pages, Page(p) PROVE TypeOK'
  <2>1. CASE Open(p) \/ Subscribe(p) \/ SendEvent(p) \/ Refresh(p)
    BY <2>1 DEF Open, Subscribe, SendEvent, Refresh, Step
  <2>2. CASE Drop(p) \/ Close(p)
    BY <2>2 DEF Drop, Close, Unsubscribe, Step
  <2>3. CASE ReadRows(p)
    BY <2>3 DEF ReadRows, Step
  <2>4. CASE ReadReport(p)
    BY <2>4 DEF ReadReport, Step
  <2>5. CASE Render(p)
    BY <2>5 DEF Render, Step
  <2>6. QED
    BY <1>8, <2>1, <2>2, <2>3, <2>4, <2>5 DEF Page, Load
<1>9. CASE UNCHANGED vars
  BY <1>9 DEF vars
<1>10. QED
  BY <1>1, <1>2, <1>3, <1>4, <1>5, <1>6, <1>7, <1>8, <1>9 DEF Next, ScanAll, Worker

(* Every state is well typed, whatever the faults.                         *)
THEOREM TypeCorrect == Spec => []TypeOK
  BY InitTypeOK, NextTypeOK, PTL DEF Spec

-----------------------------------------------------------------------------
LEMMA InitScanInv == Init => ScanInv
  BY InitTypeOK, NoTabletAssumption
  DEF Init, ScanInv, WorkerInv, NothingLate, DoneInv, ScanIsComplete, AtWork

(* A worker that is busy has a tablet, and the monitor waits for it.       *)
LEMMA BusyWorker ==
    ASSUME ScanInv, NEW w \in Workers, wpc[w] # "off"
    PROVE  /\ spc = "scanning"
           /\ wpc[w] \in AtWork => wjob[w] \in Tablets
           /\ wpc[w] = "next" => wjob[w] = NoTablet
  BY DEF ScanInv, NothingLate, WorkerInv, TypeOK, AtWork

LEMMA NextScanInv == ScanInv /\ [Next]_vars => ScanInv'
<1> SUFFICES ASSUME ScanInv, [Next]_vars PROVE ScanInv'
  OBVIOUS
<1>0. TypeOK /\ TypeOK'
  BY NextTypeOK DEF ScanInv
<1> USE NoTabletAssumption
<1>1. CASE ScanStart
  BY <1>0, <1>1 DEF ScanInv, ScanStart, WorkerInv, NothingLate, DoneInv, ScanIsComplete,
                    AtWork, TypeOK, tableVars
<1>2. CASE ScanWait
  <2>1. jobs = {} /\ \A w \in Workers : wjob[w] = NoTablet
    BY <1>2, PoolAssumption DEF ScanWait, ScanInv, WorkerInv, AtWork
  <2>2. \A t \in Tablets \ Failing : row[t] = scan /\ reported[t] = scan
    BY <1>2, <2>1 DEF ScanWait, ScanInv, DoneInv
  <2>3. QED
    BY <1>0, <1>2, <2>1, <2>2 DEF ScanInv, ScanWait, WorkerInv, NothingLate, DoneInv,
                                  ScanIsComplete, AtWork, workerVars, tableVars
<1>3. CASE ScanCleanup
  BY <1>0, <1>3 DEF ScanInv, ScanCleanup, WorkerInv, NothingLate, DoneInv, ScanIsComplete,
                    AtWork, workerVars
<1>4. ASSUME NEW w \in Workers, WorkerNext(w) PROVE ScanInv'
  <2>0. spc = "scanning" /\ wjob[w] = NoTablet /\ wpc[w] = "next"
    BY <1>4, BusyWorker DEF WorkerNext, Advance
  <2>1. CASE wpc' = [wpc EXCEPT ![w] = "off"] /\ jobs = {} /\ UNCHANGED <<jobs, wjob>>
    BY <1>0, <1>4, <2>0, <2>1 DEF WorkerNext, ScanInv, WorkerInv, NothingLate, DoneInv,
       ScanIsComplete, AtWork, TypeOK, tableVars
  <2>2. CASE /\ wpc' = [wpc EXCEPT ![w] = "fetch"]
             /\ \E t \in jobs : jobs' = jobs \ {t} /\ wjob' = [wjob EXCEPT ![w] = t]
    <3>1. PICK t \in jobs : jobs' = jobs \ {t} /\ wjob' = [wjob EXCEPT ![w] = t]
      BY <2>2
    <3>2. t \in Tablets /\ \A v \in Workers : wjob[v] # t
      BY <3>1 DEF ScanInv, WorkerInv, TypeOK
    <3>3. /\ \A v \in Workers \ {w} : wjob'[v] = wjob[v] /\ wpc'[v] = wpc[v]
          /\ wjob'[w] = t /\ wpc'[w] = "fetch"
      BY <2>2, <3>1 DEF ScanInv, TypeOK
    <3>4. spc' = "scanning" /\ scan' = scan /\ row' = row /\ reported' = reported
      BY <1>4, <2>0 DEF WorkerNext, tableVars
    <3>5. WorkerInv'
      BY <2>0, <3>1, <3>2, <3>3 DEF ScanInv, WorkerInv, AtWork
    <3>6. NothingLate' /\ ScanIsComplete'
      BY <3>2, <3>3, <3>4 DEF ScanInv, NothingLate, ScanIsComplete
    <3>7. DoneInv'
      BY <2>0, <3>1, <3>2, <3>3, <3>4 DEF ScanInv, DoneInv
    <3>8. QED
      BY <1>0, <3>5, <3>6, <3>7 DEF ScanInv
  <2>3. QED
    BY <1>4, <2>1, <2>2 DEF WorkerNext, Advance
<1>5. ASSUME NEW w \in Workers, WorkerFetch(w) \/ WorkerNotify(w) PROVE ScanInv'
  <2>1. PICK from \in {"fetch", "notify"} :
          wpc[w] = from /\ wpc' = [wpc EXCEPT ![w] = IF from = "fetch" THEN "save" ELSE "add"]
    BY <1>5 DEF WorkerFetch, WorkerNotify, Advance
  <2>2. UNCHANGED <<scan, spc, jobs, wjob, row, reported>>
    BY <1>5 DEF WorkerFetch, WorkerNotify, scanVars, tableVars
  <2>3. spc = "scanning" /\ wjob[w] \in Tablets
    BY <2>1, BusyWorker DEF AtWork
  <2>4. \A v \in Workers \ {w} : wpc'[v] = wpc[v]
    BY <2>1 DEF ScanInv, TypeOK
  <2>5. wpc'[w] \in AtWork /\ (wpc'[w] = "add" => wpc[w] = "notify") /\ wpc'[w] # "notify"
    BY <2>1 DEF ScanInv, TypeOK, AtWork
  <2>6. WorkerInv' /\ NothingLate' /\ ScanIsComplete'
    BY <2>1, <2>2, <2>3, <2>4, <2>5 DEF ScanInv, WorkerInv, NothingLate, ScanIsComplete, AtWork
  <2>7. DoneInv'
    BY <2>2, <2>3, <2>4, <2>5 DEF ScanInv, DoneInv
  <2>8. QED
    BY <1>0, <2>6, <2>7 DEF ScanInv
<1>6. ASSUME NEW w \in Workers, WorkerSave(w) PROVE ScanInv'
  <2>1. PICK to \in {"notify", "add"} : wpc[w] = "save" /\ wpc' = [wpc EXCEPT ![w] = to]
    BY <1>6 DEF WorkerSave, SaveAs, Advance
  <2>2. UNCHANGED <<scan, spc, jobs, wjob, reported>>
    BY <1>6 DEF WorkerSave, SaveAs, scanVars
  <2>3. spc = "scanning" /\ wjob[w] \in Tablets
    BY <2>1, BusyWorker DEF AtWork
  <2>4. \/ row' = [row EXCEPT ![wjob[w]] = scan]
        \/ wjob[w] \in Failing /\ row' = row
    BY <1>6 DEF WorkerSave, SaveAs
  <2>5. \A v \in Workers \ {w} : wpc'[v] = wpc[v]
    BY <2>1 DEF ScanInv, TypeOK
  <2>6. wpc'[w] \in AtWork
    BY <2>1 DEF ScanInv, TypeOK, AtWork
  <2>7. WorkerInv' /\ NothingLate' /\ ScanIsComplete'
    BY <2>1, <2>2, <2>3, <2>5, <2>6 DEF ScanInv, WorkerInv, NothingLate, ScanIsComplete, AtWork
  <2>8. /\ wjob[w] \notin Failing => row'[wjob[w]] = scan
        /\ \A t \in Tablets \ {wjob[w]} : row'[t] = row[t]
    BY <2>3, <2>4 DEF ScanInv, TypeOK
  <2>9. DoneInv'
    BY <2>2, <2>3, <2>5, <2>8 DEF ScanInv, DoneInv
  <2>10. QED
    BY <1>0, <2>7, <2>9 DEF ScanInv
<1>7. ASSUME NEW w \in Workers, WorkerAdd(w) PROVE ScanInv'
  <2>1. /\ wpc[w] = "add" /\ wpc' = [wpc EXCEPT ![w] = "next"]
        /\ wjob' = [wjob EXCEPT ![w] = NoTablet]
    BY <1>7 DEF WorkerAdd, AddReport, Advance
  <2>2. UNCHANGED <<scan, spc, jobs, row>>
    BY <1>7 DEF WorkerAdd, AddReport, scanVars
  <2>3. spc = "scanning" /\ wjob[w] \in Tablets
    BY <2>1, BusyWorker DEF AtWork
  <2>4. \/ reported' = [reported EXCEPT ![wjob[w]] = scan]
        \/ wjob[w] \in Failing /\ reported' = reported
    BY <1>7 DEF WorkerAdd, AddReport
  <2>5. /\ \A v \in Workers \ {w} : wpc'[v] = wpc[v] /\ wjob'[v] = wjob[v]
        /\ wpc'[w] = "next" /\ wjob'[w] = NoTablet
    BY <2>1 DEF ScanInv, TypeOK
  <2>6. WorkerInv' /\ NothingLate' /\ ScanIsComplete'
    BY <1>0, <2>1, <2>2, <2>3, <2>5 DEF ScanInv, WorkerInv, NothingLate, ScanIsComplete, AtWork, TypeOK
  <2>7. /\ wjob[w] \notin Failing => reported'[wjob[w]] = scan
        /\ \A t \in Tablets \ {wjob[w]} : reported'[t] = reported[t]
    BY <2>3, <2>4 DEF ScanInv, TypeOK
  <2>8. wjob[w] \notin Failing => row[wjob[w]] = scan
    BY <2>1, <2>3 DEF ScanInv, DoneInv, WorkerInv
  <2>9. DoneInv'
    BY <2>2, <2>3, <2>5, <2>7, <2>8 DEF ScanInv, DoneInv
  <2>10. QED
    BY <1>0, <2>6, <2>9 DEF ScanInv
<1>8. ASSUME UNCHANGED <<scanVars, workerVars, tableVars>> PROVE ScanInv'
  BY <1>0, <1>8 DEF ScanInv, WorkerInv, NothingLate, DoneInv, ScanIsComplete, AtWork,
                    scanVars, workerVars, tableVars
<1>9. ASSUME NEW p \in Pages, Page(p) PROVE ScanInv'
  BY <1>8, <1>9 DEF Page, Load, Open, ReadRows, ReadReport, Render, Subscribe, SendEvent,
                    Refresh, Drop, Close, Step
<1>10. CASE UNCHANGED vars
  BY <1>8, <1>10 DEF vars
<1>11. QED
  BY <1>1, <1>2, <1>3, <1>4, <1>5, <1>6, <1>7, <1>9, <1>10 DEF Next, ScanAll, Worker

LEMMA ScanInvariant == Spec => []ScanInv
  BY InitScanInv, NextScanInv, PTL DEF Spec

(* ScanAll waits for its pool: no result is written after its scan.        *)
THEOREM ScansDoNotOverlap == Spec => []NothingLate
  BY ScanInvariant, PTL DEF ScanInv

(* A scan that gets to its cleanup has saved and reported every tablet     *)
(* whose own statements do not fail.                                       *)
THEOREM ScansAreComplete == Spec => []ScanIsComplete
  BY ScanInvariant, PTL DEF ScanInv

-----------------------------------------------------------------------------
LEMMA InitPageInv == Init => PageInv
  BY DEF Init, PageInv, StaleInv, RowRefreshPending

(* Steps that change no row, page or hub keep every change on its way, as  *)
(* long as no notification that is due is forgotten.                       *)
LEMMA OtherSteps ==
    ASSUME PageInv, UNCHANGED <<subscribed, signal, queued, ppc, staleRow, missedRow>>,
           \A w \in Workers : wpc[w] = "notify" => wpc'[w] = "notify" /\ wjob'[w] = wjob[w]
    PROVE  PageInv'
  BY DEF PageInv, StaleInv, RowRefreshPending, OnItsWay

LEMMA WorkerPageInv ==
    ASSUME ScanInv, PageInv, NEW w \in Workers, Worker(w)
    PROVE  PageInv'
<1>0. TypeOK
  BY DEF ScanInv
<1>1. CASE WorkerNext(w) \/ WorkerFetch(w) \/ WorkerAdd(w)
  <2>1. UNCHANGED <<subscribed, signal, queued, ppc, staleRow, missedRow>>
    BY <1>1 DEF WorkerNext, WorkerFetch, WorkerAdd, AddReport, hubVars, pageVars, rowVars, shownVars
  <2>2. \A v \in Workers : wpc[v] = "notify" => wpc'[v] = "notify" /\ wjob'[v] = wjob[v]
    BY <1>0, <1>1 DEF WorkerNext, WorkerFetch, WorkerAdd, AddReport, Advance, TypeOK
  <2>3. QED
    BY <2>1, <2>2, OtherSteps
<1>2. CASE WorkerSave(w)
  <2>1. CASE UNCHANGED rowVars
    <3>1. UNCHANGED <<subscribed, signal, queued, ppc, staleRow, missedRow>>
      BY <1>2, <2>1 DEF WorkerSave, SaveAs, hubVars, pageVars, rowVars
    <3>2. \A v \in Workers : wpc[v] = "notify" => wpc'[v] = "notify" /\ wjob'[v] = wjob[v]
      BY <1>0, <1>2 DEF WorkerSave, SaveAs, Advance, TypeOK
    <3>3. QED
      BY <3>1, <3>2, OtherSteps
  <2>2. CASE /\ Advance(w, "save", "notify")
             /\ staleRow' = Outdated(staleRow, wjob[w])
             /\ missedRow' = Unmissed(missedRow, wjob[w])
    <3>1. UNCHANGED <<wjob, subscribed, signal, queued, ppc>>
      BY <1>2 DEF WorkerSave, SaveAs, hubVars, pageVars
    <3>2. wpc'[w] = "notify" /\ \A v \in Workers : wpc[v] = "notify" => wpc'[v] = "notify"
      BY <1>0, <2>2 DEF Advance, TypeOK
    <3>3. \A p \in Pages : staleRow'[p] = staleRow[p] \cup ({wjob[w]} \cap Watched[p])
      BY <2>2 DEF Outdated
    <3>4. \A p \in subscribed : missedRow'[p] = missedRow[p] \ {wjob[w]}
      BY <1>0, <2>2 DEF Unmissed, TypeOK
    <3>5. StaleInv'
      BY <3>3 DEF PageInv, StaleInv
    <3>6. ASSUME NEW p \in subscribed', NEW t \in staleRow'[p] \ missedRow'[p]
          PROVE  OnItsWay(p, t)'
      <4>1. CASE t = wjob[w]
        BY <3>1, <3>2, <4>1 DEF OnItsWay
      <4>2. CASE t # wjob[w]
        <5>1. p \in subscribed /\ p \in Pages
          BY <1>0, <3>1, <3>6 DEF TypeOK
        <5>2. t \in staleRow[p] \ missedRow[p]
          BY <3>3, <3>4, <3>6, <4>2, <5>1
        <5>3. OnItsWay(p, t)
          BY <5>1, <5>2 DEF PageInv, RowRefreshPending
        <5>4. QED
          BY <3>1, <3>2, <5>3 DEF OnItsWay
      <4>3. QED
        BY <4>1, <4>2
    <3>7. QED
      BY <3>5, <3>6 DEF PageInv, RowRefreshPending
  <2>3. QED
    BY <1>2, <2>1, <2>2 DEF WorkerSave, SaveAs
<1>3. CASE WorkerNotify(w)
  <2>1. UNCHANGED <<wjob, subscribed, queued, ppc, staleRow, missedRow>>
    BY <1>3 DEF WorkerNotify, pageVars, shownVars, rowVars
  <2>2. signal' = signal \cup {p \in subscribed : wjob[w] \in Watched[p]}
    BY <1>3 DEF WorkerNotify
  <2>3. \A v \in Workers \ {w} : wpc'[v] = wpc[v]
    BY <1>0, <1>3 DEF WorkerNotify, Advance, TypeOK
  <2>4. ASSUME NEW p \in subscribed, NEW t \in staleRow[p] \ missedRow[p]
        PROVE  OnItsWay(p, t)'
    <3>1. OnItsWay(p, t) /\ t \in Watched[p]
      BY <1>0 DEF PageInv, RowRefreshPending, StaleInv, TypeOK
    <3>2. QED
      BY <2>1, <2>2, <2>3, <3>1 DEF OnItsWay
  <2>5. QED
    BY <2>1, <2>4 DEF PageInv, StaleInv, RowRefreshPending
<1>4. QED
  BY <1>1, <1>2, <1>3 DEF Worker

LEMMA PagePageInv ==
    ASSUME ScanInv, PageInv, NEW p \in Pages, Page(p)
    PROVE  PageInv'
<1>0. TypeOK
  BY DEF ScanInv
<1>1. UNCHANGED <<wpc, wjob>>
  BY DEF Page, Load, Open, ReadRows, ReadReport, Render, Subscribe, SendEvent, Refresh,
         Drop, Close, Step, workerVars
<1>2. CASE ReadRows(p)
  <2>1. UNCHANGED <<subscribed, signal, queued>>
    BY <1>2 DEF ReadRows, hubVars
  <2>2. /\ \A q \in Pages \ {p} : staleRow'[q] = staleRow[q] /\ missedRow'[q] = missedRow[q]
                                 /\ ppc'[q] = ppc[q]
        /\ staleRow'[p] = {}
    BY <1>0, <1>2 DEF ReadRows, Step, TypeOK
  <2>3. subscribed \subseteq Pages
    BY <1>0 DEF TypeOK
  <2>4. QED
    BY <1>1, <2>1, <2>2, <2>3 DEF PageInv, StaleInv, RowRefreshPending, OnItsWay
<1>3. CASE Subscribe(p)
  <2>1. /\ UNCHANGED <<signal, queued, staleRow>> /\ subscribed' = subscribed \cup {p}
        /\ \A q \in Pages \ {p} : missedRow'[q] = missedRow[q] /\ ppc'[q] = ppc[q]
        /\ missedRow'[p] = staleRow[p]
    BY <1>0, <1>3 DEF Subscribe, Step, TypeOK
  <2>2. subscribed \subseteq Pages
    BY <1>0 DEF TypeOK
  <2>3. QED
    BY <1>1, <2>1, <2>2 DEF PageInv, StaleInv, RowRefreshPending, OnItsWay
<1>4. CASE Open(p) \/ ReadReport(p) \/ Render(p) \/ Refresh(p)
  <2>1. UNCHANGED <<signal, subscribed, staleRow, missedRow>>
    BY <1>4 DEF Open, ReadReport, Render, Refresh, hubVars, rowVars, shownVars
  <2>2. /\ \A q \in Pages \ {p} : ppc'[q] = ppc[q] /\ (q \in queued => q \in queued')
        /\ p \in queued => p \in queued' \/ ppc'[p] = "rows"
        /\ ppc[p] # "rows"
    BY <1>0, <1>4 DEF Open, ReadReport, Render, Refresh, Step, TypeOK
  <2>3. subscribed \subseteq Pages
    BY <1>0 DEF TypeOK
  <2>4. QED
    BY <1>1, <2>1, <2>2, <2>3 DEF PageInv, StaleInv, RowRefreshPending, OnItsWay
<1>5. CASE SendEvent(p)
  BY <1>1, <1>5 DEF SendEvent, PageInv, StaleInv, RowRefreshPending, OnItsWay, shownVars, rowVars
<1>6. CASE Drop(p) \/ Close(p)
  <2>1. UNCHANGED <<staleRow, missedRow>> /\ subscribed' = subscribed \ {p}
    BY <1>6 DEF Drop, Close, Unsubscribe, shownVars, rowVars
  <2>2. \A q \in Pages \ {p} : ppc'[q] = ppc[q] /\ (q \in queued \cup signal => q \in queued' \cup signal')
    BY <1>0, <1>6 DEF Drop, Close, Unsubscribe, Step, TypeOK
  <2>3. subscribed \subseteq Pages
    BY <1>0 DEF TypeOK
  <2>4. QED
    BY <1>1, <2>1, <2>2, <2>3 DEF PageInv, StaleInv, RowRefreshPending, OnItsWay
<1>7. QED
  BY <1>2, <1>3, <1>4, <1>5, <1>6 DEF Page, Load

LEMMA NextPageInv == ScanInv /\ PageInv /\ [Next]_vars => PageInv'
<1> SUFFICES ASSUME ScanInv, PageInv, [Next]_vars PROVE PageInv'
  OBVIOUS
<1>1. CASE ScanStart
  <2>1. \A w \in Workers : wpc[w] = "off"
    BY <1>1 DEF ScanStart, ScanInv, NothingLate
  <2>2. UNCHANGED <<subscribed, signal, queued, ppc, staleRow, missedRow>>
    BY <1>1 DEF ScanStart, hubVars, pageVars, rowVars, shownVars
  <2>3. QED
    BY <2>1, <2>2, OtherSteps
<1>2. CASE ScanWait \/ ScanCleanup \/ UNCHANGED vars
  BY <1>2, OtherSteps DEF ScanWait, ScanCleanup, vars, workerVars, hubVars, pageVars,
                          rowVars, shownVars
<1>3. QED
  BY <1>1, <1>2, WorkerPageInv, PagePageInv DEF Next, ScanAll

(* No wake-up of a page is lost, although a channel holds one signal and   *)
(* the others are dropped: a row written since the page subscribed is on   *)
(* its way to it.                                                          *)
THEOREM NoWakeUpLost == Spec => []RowRefreshPending
<1>1. Spec => []PageInv
  BY ScanInvariant, InitPageInv, NextPageInv, PTL DEF Spec
<1>2. QED
  BY <1>1, PTL DEF PageInv

-----------------------------------------------------------------------------
(* The device status service *)

(* Where a caller stands says what it has in hand: the record it reads or  *)
(* makes is about its own device, and a lane of a batch only ever sends.   *)
CallOK(r, c) ==
    /\ c \in Calls
    /\ c.rec # None => c.rec[2] = c.dev
    /\ c.step \in {"idle", "done"} => c.op = "none" /\ c.dev = None /\ c.rec = None
    /\ c.step = "list" <=> c.op = "all"
    /\ c.step \notin {"idle", "done", "list"} => c.dev \in Devices
    /\ c.step \in {"read", "fill"} => c.op \in {"get", "set", "send"}
    /\ c.step = "fill" => c.rec = <<r, c.dev>>
    /\ c.step = "set" => c.op = "set" /\ c.rec # None
    /\ c.step \in {"load", "store", "compare"} => c.op \in {"set", "report"} /\ c.rec # None
    /\ c.op = "report" => c.step \in {"load", "store", "compare"} /\ c.rec = <<r, c.dev>>
    /\ c.step \in {"send", "merge"} => c.op = "send"
    /\ c.step = "merge" => r \in Lanes /\ c.said \in Verdicts
    /\ r \in Lanes => c.op \in {"none", "send"}

(* Nobody but caller r knows its record of d.                              *)
Unshared(r, d) ==
    /\ \A e \in Devices : cache[e] # <<r, d>>
    /\ \A q \in Callers \ {r} : call[q].rec # <<r, d>>

(* A record is shared once its caller stored it: no other one has a record *)
(* of a caller that has not begun, or of a report on its way, which says   *)
(* that the device is online.                                              *)
ShareInv ==
    \A r \in Callers :
        /\ call[r].step = "idle" => \A d \in Devices : Unshared(r, d)
        /\ call[r].op = "report" /\ call[r].step \in {"load", "store"} =>
              online[call[r].rec] /\ Unshared(r, call[r].dev)

(* About a settled device nobody is at a place from which the cache could  *)
(* get an older state.                                                     *)
SettledInv ==
    /\ \A d \in settled, r \in Callers : call[r].dev = d =>
          call[r].op # "set" /\ call[r].step \notin {"read", "fill"}
    /\ settled # {} => \A r \in Callers : call[r].op # "all"

CacheInv ==
    StatusTypeOK /\ (\A r \in Callers : CallOK(r, call[r])) /\ ShareInv /\ SettledInv /\ ReportLasts

(* A channel is listed, being taken out, or closed, and stays closed.      *)
ChannelInv == ~panicked /\ listed \cap (leaving \cup closed) = {}

(* The lanes of a batch, and what it has counted of them.                  *)
LaneInv ==
    /\ \A l \in Lanes : call[l].step # "idle" => l \in Targeted /\ batch # "idle"
    /\ batch = "idle" => Targeted = {}
    /\ batch = "done" => \A l \in Targeted : At(l, "done")
    /\ results = {l \in Lanes : At(l, "done")}
    /\ \A l \in acted : call[l].step \in {"merge", "done"}
    /\ \A l \in Lanes : At(l, "merge") => (call[l].said = "success" <=> l \in acted)
    /\ ok = Cardinality(results \cap acted) /\ bad = Cardinality(results \ acted)

-----------------------------------------------------------------------------
(* A step of caller r to n: what it takes in hand, puts into the cache and *)
(* changes of the records is its own, the cache's, or in its hands already. *)
StepOf(r, n) ==
    /\ call' = [call EXCEPT ![r] = n] /\ n.step # "idle" /\ CallOK(r, n)
    /\ n.rec # None => n.rec \in {call[r].rec, <<r, n.dev>>, cache[n.dev]}
    /\ \A e \in Devices : cache'[e] \in {cache[e], call[r].rec, <<r, e>>}
    /\ \A x \in Records : online[x] /\ ~online'[x] => x[1] = r \/ x = call[r].rec
    /\ n.op = "report" /\ n.step \in {"load", "store"} =>
          /\ cache' = cache /\ online'[n.rec]
          /\ \/ call[r].step = "idle"
             \/ call[r].op = "report" /\ call[r].step = "load" /\ n.dev = call[r].dev
    /\ n.op \in {"all", "set"} => call[r].step = "idle" \/ n.op = call[r].op

CacheType ==
    /\ seen \in [Devices -> {"never", "recent", "stale"}]
    /\ online \in [Records -> BOOLEAN]
    /\ cache \in [Devices -> Records \cup {None}]
    /\ \A d \in Devices : cache[d] # None => cache[d][2] = d
    /\ settled \subseteq Devices

CallsOK == call \in [Callers -> Calls] /\ \A r \in Callers : CallOK(r, call[r])

(* What a step about the cache comes to.                                   *)
CacheStep(r) ==
    \E n : /\ StepOf(r, n) /\ CacheType'
           /\ settled' \subseteq settled \cup {d \in Devices : ~Busy(r, d) /\ n.op # "set"}
           /\ n.op = "all" => settled' = {}
           /\ n.dev \in settled' => n.op # "set" /\ n.step \notin {"read", "fill"}
           /\ ReportLasts'

LEMMA RecordsDiffer ==
    /\ None \notin Records
    /\ \A r \in Callers, d \in Devices : <<r, d>> \in Records /\ <<r, d>> # None
    /\ \A x \in Records : x = <<x[1], x[2]>> /\ x[1] \in Callers /\ x[2] \in Devices
  BY NoneAssumption DEF NoneAssumption, Records, Callers

(* A caller that found a record goes on with it.                           *)
LEMMA FoundStep ==
    ASSUME NEW r \in Callers, NEW c \in Calls, NEW x \in Records, Found(r, c, x),
           c.dev \in Devices, x[2] = c.dev, c.rec # None => c.rec[2] = c.dev,
           c.op \in {"get", "set", "send"}, r \in Lanes => c.op = "send"
    PROVE  \E n : /\ call' = [call EXCEPT ![r] = n] /\ CallOK(r, n)
                  /\ r \in Lanes => n.step \in {"send", "merge"}
                  /\ n.step = "merge" => n.said = "error"
                  /\ \/ n.step = "set" /\ n.op = "set" /\ c.op = "set" /\ n.dev = c.dev /\ n.rec = x
                     \/ n.step \in {"send", "merge"} /\ n.op = "send" /\ n.dev = c.dev /\ n.rec = c.rec
                     \/ n.step = "done" /\ n.op = "none" /\ n.dev = None /\ n.rec = None
<1> USE RecordsDiffer DEF Become, Finish, Calls, Steps, Verdicts, NoCall, CallOK
<1>1. CASE c.op = "set"
  <2> DEFINE n == [c EXCEPT !.step = "set", !.rec = x]
  <2>1. call' = [call EXCEPT ![r] = n]
    BY <1>1 DEF Found
  <2>2. n \in Calls /\ n.step = "set" /\ n.op = "set" /\ n.dev = c.dev /\ n.rec = x
    BY <1>1
  <2>3. CallOK(r, n)
    BY <1>1, <2>2
  <2>4. QED
    BY <1>1, <2>1, <2>2, <2>3
<1>2. CASE c.op = "send" /\ online[x]
  <2> DEFINE n == [c EXCEPT !.step = "send"]
  <2>1. call' = [call EXCEPT ![r] = n]
    BY <1>2 DEF Found
  <2>2. n \in Calls /\ n.step = "send" /\ n.op = "send" /\ n.dev = c.dev /\ n.rec = c.rec
    BY <1>2
  <2>3. CallOK(r, n)
    BY <1>2, <2>2
  <2>4. QED
    BY <2>1, <2>2, <2>3
<1>3. CASE c.op = "send" /\ ~online[x] /\ r \in Lanes
  <2> DEFINE n == [c EXCEPT !.step = "merge", !.said = "error"]
  <2>1. call' = [call EXCEPT ![r] = n]
    BY <1>3 DEF Found
  <2>2. n \in Calls /\ n.step = "merge" /\ n.op = "send" /\ n.dev = c.dev /\ n.rec = c.rec
        /\ n.said = "error"
    BY <1>3
  <2>3. CallOK(r, n)
    BY <1>3, <2>2
  <2>4. QED
    BY <2>1, <2>2, <2>3
<1>4. CASE c.op = "get" \/ (c.op = "send" /\ ~online[x] /\ r \notin Lanes)
  <2> DEFINE n == [NoCall EXCEPT !.step = "done"]
  <2>1. call' = [call EXCEPT ![r] = n]
    BY <1>4 DEF Found
  <2>2. /\ n \in Calls /\ n.step = "done" /\ n.op = "none" /\ n.dev = None /\ n.rec = None
    OBVIOUS
  <2>3. CallOK(r, n)
    BY <2>2
  <2>4. QED
    BY <1>4, <2>1, <2>2, <2>3
<1>5. QED
  BY <1>1, <1>2, <1>3, <1>4

(* Whoever takes a step about the cache, what held of it goes on to hold.  *)
LEMMA CacheStepKeeps ==
    ASSUME CacheInv, NEW r \in Callers, CacheStep(r)
    PROVE  CacheType' /\ CallsOK' /\ ShareInv' /\ SettledInv' /\ ReportLasts'
<1>1. PICK n : /\ StepOf(r, n) /\ CacheType'
               /\ settled' \subseteq settled \cup {d \in Devices : ~Busy(r, d) /\ n.op # "set"}
               /\ n.op = "all" => settled' = {}
               /\ n.dev \in settled' => n.op # "set" /\ n.step \notin {"read", "fill"}
               /\ ReportLasts'
  BY DEF CacheStep
<1>2. call' \in [Callers -> Calls] /\ call'[r] = n /\ \A q \in Callers \ {r} : call'[q] = call[q]
  BY <1>1 DEF StepOf, CallOK, CacheInv, StatusTypeOK
<1>3. CallsOK'
  <2>1. \A q \in Callers : CallOK(q, call'[q])
    BY <1>1, <1>2 DEF StepOf, CacheInv
  <2>2. QED
    BY <1>2, <2>1 DEF CallsOK, CallOK
<1>4. ShareInv'
  <2>1. n.rec # None => n.dev \in Devices
    BY <1>1, RecordsDiffer DEF StepOf, CallOK, Calls
  <2>2. \A q \in Callers \ {r}, d \in Devices : Unshared(q, d) => Unshared(q, d)'
    <3> SUFFICES ASSUME NEW q \in Callers, q # r, NEW d \in Devices, Unshared(q, d)
                 PROVE  Unshared(q, d)'
      OBVIOUS
    <3>1. call[r].rec # <<q, d>> /\ \A e \in Devices : cache[e] # <<q, d>> /\ <<r, e>> # <<q, d>>
      BY DEF Unshared
    <3>2. \A e \in Devices : cache'[e] # <<q, d>>
      BY <1>1, <3>1 DEF StepOf
    <3>3. n.rec # <<q, d>>
      <4>1. n.rec = None \/ n.rec \in {call[r].rec, <<r, n.dev>>, cache[n.dev]}
        BY <1>1 DEF StepOf
      <4>2. QED
        BY <2>1, <3>1, <4>1, RecordsDiffer
    <3>4. \A p \in Callers \ {q} : call'[p].rec # <<q, d>>
      BY <1>2, <3>3 DEF Unshared
    <3>5. QED
      BY <3>2, <3>4 DEF Unshared
  <2>3. ASSUME NEW q \in Callers, q # r, call'[q].step = "idle", NEW d \in Devices
        PROVE  Unshared(q, d)'
    BY <1>2, <2>2, <2>3 DEF CacheInv, ShareInv
  <2>4. ASSUME NEW q \in Callers, q # r, call'[q].op = "report", call'[q].step \in {"load", "store"}
        PROVE  (online[call[q].rec] /\ Unshared(q, call[q].dev))'
    <3>1. call[q].op = "report" /\ call[q].step \in {"load", "store"} /\ CallOK(q, call[q])
      BY <1>2, <2>4 DEF CacheInv
    <3>2. call[q].rec = <<q, call[q].dev>> /\ call[q].dev \in Devices
      BY <3>1 DEF CallOK
    <3>3. online[<<q, call[q].dev>>] /\ Unshared(q, call[q].dev)
      BY <3>1, <3>2 DEF CacheInv, ShareInv
    <3>4. call[r].rec # <<q, call[q].dev>>
      BY <2>4, <3>3 DEF Unshared
    <3>5. online'[<<q, call[q].dev>>]
      BY <1>1, <2>4, <3>2, <3>3, <3>4, RecordsDiffer DEF StepOf
    <3>6. Unshared(q, call[q].dev)'
      <4>1. \A d \in Devices : Unshared(q, d)' /\ d = call[q].dev => Unshared(q, call[q].dev)'
        BY <1>2, <2>4 DEF Unshared
      <4>2. QED
        BY <2>2, <2>4, <3>2, <3>3, <4>1
    <3>7. QED
      BY <1>2, <2>4, <3>2, <3>5, <3>6
  <2>5. n.op = "report" /\ n.step \in {"load", "store"} =>
            online'[n.rec] /\ Unshared(r, n.dev)'
    <3> SUFFICES ASSUME n.op = "report" /\ n.step \in {"load", "store"}
                 PROVE  online'[n.rec] /\ Unshared(r, n.dev)'
      OBVIOUS
    <3>1. n.dev \in Devices /\ online'[n.rec] /\ cache' = cache
      BY <1>1 DEF StepOf, CallOK
    <3>2. Unshared(r, n.dev)
      BY <1>1, <3>1 DEF StepOf, CacheInv, ShareInv
    <3>3. QED
      BY <1>2, <3>1, <3>2 DEF Unshared
  <2>6. call'[r].step # "idle"
    BY <1>1, <1>2 DEF StepOf
  <2>7. ASSUME NEW q \in Callers
        PROVE  /\ call'[q].step = "idle" => \A d \in Devices : Unshared(q, d)'
               /\ call'[q].op = "report" /\ call'[q].step \in {"load", "store"} =>
                     (online[call[q].rec] /\ Unshared(q, call[q].dev))'
    <3>1. CASE q # r
      BY <2>3, <2>4, <3>1
    <3>2. CASE q = r
      <4>1. n.op = "report" /\ n.step \in {"load", "store"} => Unshared(r, call[r].dev)'
        <5>1. Unshared(r, n.dev)' => Unshared(r, call[r].dev)'
          BY <1>2 DEF Unshared
        <5>2. QED
          BY <2>5, <5>1
      <4>2. QED
        BY <1>2, <2>5, <2>6, <3>2, <4>1
    <3>3. QED
      BY <3>1, <3>2
  <2>8. QED
    BY <2>7 DEF ShareInv
<1>5. SettledInv'
  <2>1. ASSUME NEW d \in settled', NEW q \in Callers, call'[q].dev = d
        PROVE  call'[q].op # "set" /\ call'[q].step \notin {"read", "fill"}
    BY <1>1, <1>2, <2>1 DEF CacheInv, SettledInv, Busy
  <2>2. ASSUME settled' # {}, NEW q \in Callers
        PROVE  call'[q].op # "all"
    BY <1>1, <1>2, <2>2 DEF CacheInv, SettledInv, Busy
  <2>3. QED
    BY <2>1, <2>2 DEF SettledInv
<1>6. QED
  BY <1>1, <1>3, <1>4, <1>5

(* A caller that touches neither the cache nor a record goes on with what  *)
(* it had in hand, or with a record of its own.                            *)
LEMMA QuietStep ==
    ASSUME CacheInv, NEW r \in Callers, NEW n, call' = [call EXCEPT ![r] = n],
           UNCHANGED <<cacheVars, settled>>, CallOK(r, n),
           n.step \notin {"idle", "read", "fill"},
           n.rec # None => n.rec \in {call[r].rec, <<r, n.dev>>},
           n.op \in {"none", call[r].op}, n.dev \in {None, call[r].dev},
           n.op = "report" /\ n.step \in {"load", "store"} =>
               call[r].step = "load" /\ n.rec = call[r].rec /\ n.dev = call[r].dev
    PROVE  CacheStep(r)
<1>1. StepOf(r, n)
  <2>1. n.op = "report" /\ n.step \in {"load", "store"} => online'[n.rec]
    BY DEF CacheInv, ShareInv, cacheVars
  <2>2. n.op \in {"all", "set"} => n.op = call[r].op
    OBVIOUS
  <2>3. \A x \in Records : ~(online[x] /\ ~online'[x])
    BY DEF cacheVars
  <2>4. QED
    BY <2>1, <2>2, <2>3 DEF StepOf, cacheVars
<1>2. CacheType'
  BY DEF CacheInv, StatusTypeOK, CacheType, cacheVars
<1>3. None \notin settled
  BY NoneAssumption DEF NoneAssumption, CacheInv, StatusTypeOK
<1>4. n.op = "all" => settled' = {}
  BY DEF CacheInv, SettledInv
<1>5. n.dev \in settled' => n.op # "set" /\ n.step \notin {"read", "fill"}
  <2>1. n.dev \in settled' => call[r].op # "set" /\ n.dev = call[r].dev
    BY <1>3 DEF CacheInv, SettledInv
  <2>2. QED
    BY <2>1
<1>6. ReportLasts'
  BY DEF CacheInv, ReportLasts, cacheVars
<1>7. QED
  BY <1>1, <1>2, <1>4, <1>5, <1>6 DEF CacheStep

LEMMA FinishKeeps ==
    ASSUME CacheInv, NEW r \in Callers, Finish(r), UNCHANGED <<cacheVars, settled>>
    PROVE  CacheStep(r)
<1> DEFINE n == [NoCall EXCEPT !.step = "done"]
<1>1. call' = [call EXCEPT ![r] = n]
  BY DEF Finish, Become
<1>2. n \in Calls /\ n.step = "done" /\ n.op = "none" /\ n.dev = None /\ n.rec = None
  BY DEF NoCall, Calls, Steps
<1>3. CallOK(r, n)
  BY <1>2 DEF CallOK
<1> HIDE DEF n
<1>4. QED
  BY <1>1, <1>2, <1>3, QuietStep

LEMMA LookUpKeeps ==
    ASSUME CacheInv, NEW r \in Callers, NEW d \in Devices, NEW what \in {"get", "set", "send"},
           NEW b \in BOOLEAN, LookUp(r, d, what, b), r \in Lanes => what = "send",
           settled' = IF what = "set" THEN settled \ {d} ELSE settled
    PROVE  CacheStep(r)
<1> DEFINE c == [NoCall EXCEPT !.op = what, !.dev = d, !.want = b]
<1>1. /\ c \in Calls /\ c.op = what /\ c.dev = d /\ c.rec = None
  BY DEF NoCall, Calls, Steps
<1>2. call[r].step = "idle" /\ call[r].rec = None /\ UNCHANGED cacheVars /\ LoadCached(r, c)
  BY DEF LookUp, At, CacheInv, CallOK
<1>3. CacheType' /\ None \notin settled
  BY NoneAssumption, <1>2 DEF NoneAssumption, CacheInv, StatusTypeOK, CacheType, cacheVars
<1>4. ReportLasts'
  BY <1>2 DEF CacheInv, ReportLasts, cacheVars
<1>5. SUFFICES \E n : /\ call' = [call EXCEPT ![r] = n] /\ CallOK(r, n)
                      /\ n.step \notin {"idle", "load", "store"}
                      /\ n.rec # None => n.rec = cache[n.dev]
                      /\ n.op # "all" /\ (n.op = "set" => what = "set")
                      /\ n.dev \in {d, None}
                      /\ d \in settled => n.step \notin {"read", "fill"}
  <2>1. PICK n : /\ call' = [call EXCEPT ![r] = n] /\ CallOK(r, n)
                 /\ n.step \notin {"idle", "load", "store"}
                 /\ n.rec # None => n.rec = cache[n.dev]
                 /\ n.op # "all" /\ (n.op = "set" => what = "set")
                 /\ n.dev \in {d, None}
                 /\ d \in settled => n.step \notin {"read", "fill"}
    BY <1>5
  <2>2. StepOf(r, n)
    <3>1. seen' = seen /\ online' = online /\ cache' = cache
      BY <1>2 DEF cacheVars
    <3> HIDE DEF c
    <3>2. QED
      BY <1>2, <2>1, <3>1 DEF StepOf
  <2>3. n.dev \in settled' => n.op # "set" /\ n.step \notin {"read", "fill"}
    BY <1>3, <2>1
  <2>4. settled' \subseteq settled
    OBVIOUS
  <2>5. QED
    BY <1>3, <1>4, <2>1, <2>2, <2>3, <2>4 DEF CacheStep
<1>6. CASE cache[d] # None /\ Found(r, c, cache[d])
  <2>1. cache[d] \in Records /\ cache[d][2] = d
    BY <1>6 DEF CacheInv, StatusTypeOK
  <2>2. PICK n : /\ call' = [call EXCEPT ![r] = n] /\ CallOK(r, n)
                 /\ \/ n.step = "set" /\ n.op = "set" /\ c.op = "set" /\ n.dev = c.dev /\ n.rec = cache[d]
                    \/ n.step \in {"send", "merge"} /\ n.op = "send" /\ n.dev = c.dev /\ n.rec = c.rec
                    \/ n.step = "done" /\ n.op = "none" /\ n.dev = None /\ n.rec = None
    <3> HIDE DEF c
    <3>1. QED
      BY <1>1, <1>6, <2>1, FoundStep
  <2>3. QED
    BY <1>1, <2>2
<1>7. CASE cache[d] = None /\ Become(r, [c EXCEPT !.step = "read"])
  <2> DEFINE n == [c EXCEPT !.step = "read"]
  <2>1. call' = [call EXCEPT ![r] = n]
    BY <1>7 DEF Become
  <2>2. n \in Calls /\ n.step = "read" /\ n.op = what /\ n.dev = d /\ n.rec = None
    BY DEF NoCall, Calls, Steps
  <2>3. CallOK(r, n)
    BY <2>2 DEF CallOK
  <2>4. d \notin settled
    BY <1>7 DEF CacheInv, ReportLasts
  <2>5. QED
    BY <2>1, <2>2, <2>3, <2>4
<1>8. QED
  BY <1>1, <1>2, <1>6, <1>7 DEF LoadCached

LEMMA ReadSeenKeeps ==
    ASSUME CacheInv, NEW r \in Callers, ReadSeen(r)
    PROVE  CacheStep(r)
<1> DEFINE d == call[r].dev
           x == <<r, d>>
           n == [call[r] EXCEPT !.step = "fill", !.rec = x]
<1>1. /\ At(r, "read") /\ online' = [online EXCEPT ![x] = seen[d] = "recent"]
      /\ call' = [call EXCEPT ![r] = n] /\ UNCHANGED <<seen, cache, settled>>
  BY DEF ReadSeen, Become
<1>2. call[r] \in Calls /\ call[r].op \in {"get", "set", "send"} /\ d \in Devices /\ CallOK(r, call[r])
  BY <1>1 DEF CacheInv, CallOK, At
<1>3. x \in Records /\ x # None /\ x[2] = d
  BY <1>2, RecordsDiffer
<1>4. /\ n \in Calls /\ n.step = "fill" /\ n.op = call[r].op /\ n.dev = d /\ n.rec = x
  BY <1>2, <1>3 DEF Calls, Steps
<1>5. CallOK(r, n)
  BY <1>2, <1>3, <1>4 DEF CallOK
<1>6. d \notin settled
  BY <1>1 DEF CacheInv, SettledInv, At
<1>7. StepOf(r, n)
  <2>1. \A y \in Records : online[y] /\ ~online'[y] => y[1] = r
    BY <1>1, <1>3 DEF CacheInv, StatusTypeOK
  <2>2. QED
    BY <1>1, <1>2, <1>4, <1>5, <2>1 DEF StepOf
<1>8. CacheType'
  BY <1>1, <1>3 DEF CacheInv, StatusTypeOK, CacheType
<1>9. ReportLasts'
  <2>1. \A e \in settled : cache[e] # x
    BY <1>3, <1>6 DEF CacheInv, StatusTypeOK
  <2>2. QED
    BY <1>1, <2>1 DEF CacheInv, StatusTypeOK, ReportLasts
<1>10. settled' = settled /\ n.op # "all" /\ n.dev \notin settled'
  BY <1>1, <1>2, <1>4, <1>6
<1> HIDE DEF n
<1>11. QED
  BY <1>7, <1>8, <1>9, <1>10 DEF CacheStep

LEMMA ReadNothingKeeps ==
    ASSUME CacheInv, NEW r \in Callers, ReadNothing(r)
    PROVE  CacheStep(r)
<1>1. /\ At(r, "read") /\ UNCHANGED <<cacheVars, settled>>
  BY DEF ReadNothing
<1>2. call[r] \in Calls /\ call[r].op \in {"get", "set", "send"} /\ call[r].dev \in Devices
      /\ CallOK(r, call[r])
  BY <1>1 DEF CacheInv, CallOK, At
<1>3. CASE /\ call[r].op = "set"
           /\ Become(r, [call[r] EXCEPT !.step = "set", !.rec = <<r, call[r].dev>>])
  <2> DEFINE n == [call[r] EXCEPT !.step = "set", !.rec = <<r, call[r].dev>>]
  <2>1. n \in Calls /\ n.step = "set" /\ n.op = "set" /\ n.dev = call[r].dev
        /\ n.rec = <<r, call[r].dev>> /\ n.rec # None /\ n.rec[2] = n.dev
    BY <1>2, <1>3, RecordsDiffer DEF Calls, Steps
  <2>2. CallOK(r, n)
    BY <1>2, <1>3, <2>1 DEF CallOK
  <2>3. call' = [call EXCEPT ![r] = n]
    BY <1>3 DEF Become
  <2> HIDE DEF n
  <2>4. QED
    BY <1>1, <1>3, <2>1, <2>2, <2>3, QuietStep
<1>4. CASE r \in Lanes /\ Become(r, [call[r] EXCEPT !.step = "merge", !.said = "error"])
  <2> DEFINE n == [call[r] EXCEPT !.step = "merge", !.said = "error"]
  <2>1. n \in Calls /\ n.step = "merge" /\ n.op = call[r].op /\ n.dev = call[r].dev
        /\ n.rec = call[r].rec /\ n.said = "error" /\ call[r].op = "send"
    BY <1>2, <1>4 DEF Calls, Steps, Verdicts, CallOK
  <2>2. CallOK(r, n)
    BY <1>2, <1>4, <2>1 DEF CallOK, Verdicts
  <2>3. call' = [call EXCEPT ![r] = n]
    BY <1>4 DEF Become
  <2> HIDE DEF n
  <2>4. QED
    BY <1>1, <2>1, <2>2, <2>3, QuietStep
<1>5. CASE Finish(r)
  BY <1>1, <1>5, FinishKeeps
<1>6. QED
  BY <1>3, <1>4, <1>5 DEF ReadNothing

LEMMA FillKeeps ==
    ASSUME CacheInv, NEW r \in Callers, Fill(r)
    PROVE  CacheStep(r)
<1> DEFINE d == call[r].dev
           x == call[r].rec
<1>1. /\ At(r, "fill") /\ cache' = [cache EXCEPT ![d] = x] /\ Found(r, call[r], x)
      /\ UNCHANGED <<seen, online, settled>>
  BY DEF Fill
<1>2. call[r] \in Calls /\ call[r].op \in {"get", "set", "send"} /\ d \in Devices
      /\ x = <<r, d>> /\ (r \in Lanes => call[r].op = "send")
  BY <1>1 DEF CacheInv, CallOK, At
<1>3. x \in Records /\ x # None /\ x[2] = d
  BY <1>2, RecordsDiffer
<1>4. PICK n : /\ call' = [call EXCEPT ![r] = n] /\ CallOK(r, n)
               /\ \/ n.step = "set" /\ n.op = "set" /\ call[r].op = "set" /\ n.dev = d /\ n.rec = x
                  \/ n.step \in {"send", "merge"} /\ n.op = "send" /\ n.dev = d /\ n.rec = x
                  \/ n.step = "done" /\ n.op = "none" /\ n.dev = None /\ n.rec = None
  BY <1>1, <1>2, <1>3, FoundStep
<1>5. d \notin settled /\ None \notin settled
  BY NoneAssumption, <1>1 DEF NoneAssumption, CacheInv, StatusTypeOK, SettledInv, At
<1>6. StepOf(r, n)
  <2>1. \A e \in Devices : cache'[e] \in {cache[e], x}
    BY <1>1 DEF CacheInv, StatusTypeOK
  <2>2. QED
    BY <1>1, <1>4, <2>1 DEF StepOf
<1>7. CacheType'
  BY <1>1, <1>3 DEF CacheInv, StatusTypeOK, CacheType
<1>8. ReportLasts'
  BY <1>1, <1>5 DEF CacheInv, StatusTypeOK, ReportLasts
<1>9. QED
  BY <1>1, <1>4, <1>5, <1>6, <1>7, <1>8 DEF CacheStep

LEMMA GetAllKeeps ==
    ASSUME CacheInv, NEW r \in Requests, GetAllDeviceStatuses(r)
    PROVE  CacheStep(r)
<1> DEFINE n == [NoCall EXCEPT !.step = "list", !.op = "all", !.todo = Devices]
<1>1. At(r, "idle") /\ UNCHANGED <<seen, cache>> /\ r \in Callers
  BY DEF GetAllDeviceStatuses, Callers
<1>2. ASSUME Become(r, n), settled' = {},
             online' = [x \in Records |-> IF x[1] = r THEN seen[x[2]] = "recent" ELSE online[x]]
      PROVE  CacheStep(r)
  <2>1. n \in Calls /\ n.step = "list" /\ n.op = "all" /\ n.rec = None /\ n.dev = None
    BY DEF NoCall, Calls, Steps
  <2>2. CallOK(r, n)
    BY <2>1, LanesAssumption DEF CallOK, LanesAssumption
  <2>3. StepOf(r, n)
    BY <1>1, <1>2, <2>1, <2>2 DEF StepOf, At, Become, CacheInv, StatusTypeOK
  <2>4. CacheType'
    BY <1>1, <1>2 DEF CacheInv, StatusTypeOK, CacheType
  <2>5. QED
    BY <1>2, <2>1, <2>3, <2>4 DEF CacheStep, ReportLasts
<1>3. CASE Finish(r) /\ UNCHANGED <<online, settled>>
  BY <1>1, <1>3, FinishKeeps DEF cacheVars
<1>4. QED
  BY <1>2, <1>3 DEF GetAllDeviceStatuses

LEMMA StoreNextKeeps ==
    ASSUME CacheInv, NEW r \in Requests, StoreNext(r)
    PROVE  CacheStep(r)
<1>1. /\ At(r, "list") /\ UNCHANGED <<seen, online, settled>>
  BY DEF StoreNext
<1>2. r \in Callers /\ call[r] \in Calls /\ call[r].op = "all" /\ CallOK(r, call[r])
  BY <1>1 DEF CacheInv, CallOK, At, Callers
<1>3. settled = {}
  BY <1>2 DEF CacheInv, SettledInv
<1>4. ASSUME NEW d \in call[r].todo, cache' = [cache EXCEPT ![d] = <<r, d>>],
             Become(r, [call[r] EXCEPT !.todo = @ \ {d}])
      PROVE  CacheStep(r)
  <2> DEFINE n == [call[r] EXCEPT !.todo = @ \ {d}]
  <2>1. n \in Calls /\ n.step = "list" /\ n.op = "all" /\ n.dev = call[r].dev /\ n.rec = call[r].rec
    BY <1>1, <1>2 DEF Calls, At
  <2>2. CallOK(r, n)
    BY <1>1, <1>2, <2>1 DEF CallOK
  <2>3. d \in Devices /\ <<r, d>> \in Records /\ <<r, d>>[2] = d
    BY <1>2, RecordsDiffer DEF Calls
  <2>4. StepOf(r, n)
    <3>1. \A e \in Devices : cache'[e] \in {cache[e], <<r, e>>}
      BY <1>4, <2>3 DEF CacheInv, StatusTypeOK
    <3>2. call' = [call EXCEPT ![r] = n]
      BY <1>4 DEF Become
    <3>3. QED
      BY <1>1, <1>2, <2>1, <2>2, <3>1, <3>2 DEF StepOf
  <2>5. CacheType'
    BY <1>1, <1>4, <2>3 DEF CacheInv, StatusTypeOK, CacheType
  <2>6. QED
    BY <1>1, <1>3, <2>1, <2>4, <2>5 DEF CacheStep, ReportLasts
<1>5. CASE call[r].todo = {} /\ Finish(r) /\ UNCHANGED cache
  BY <1>1, <1>2, <1>5, FinishKeeps DEF cacheVars
<1>6. QED
  BY <1>4, <1>5 DEF StoreNext

LEMMA SetOnlineKeeps ==
    ASSUME CacheInv, NEW r \in Callers, SetOnline(r)
    PROVE  CacheStep(r)
<1> DEFINE d == call[r].dev
           x == call[r].rec
           n == [call[r] EXCEPT !.step = "load"]
<1>1. /\ At(r, "set") /\ online' = [online EXCEPT ![x] = call[r].want]
      /\ call' = [call EXCEPT ![r] = n] /\ UNCHANGED <<seen, cache, settled>>
  BY DEF SetOnline, Become, Goto
<1>2. call[r] \in Calls /\ call[r].op = "set" /\ d \in Devices /\ x # None /\ x[2] = d
      /\ CallOK(r, call[r])
  BY <1>1 DEF CacheInv, CallOK, At
<1>3. /\ x \in Records /\ n \in Calls /\ n.step = "load" /\ n.op = "set" /\ n.dev = d /\ n.rec = x
  BY <1>2 DEF Calls, Steps
<1>4. CallOK(r, n)
  BY <1>2, <1>3 DEF CallOK
<1>5. d \notin settled
  BY <1>2 DEF CacheInv, SettledInv
<1>6. StepOf(r, n)
  <2>1. \A y \in Records : online[y] /\ ~online'[y] => y = x
    BY <1>1, <1>3 DEF CacheInv, StatusTypeOK
  <2>2. QED
    BY <1>1, <1>2, <1>3, <1>4, <2>1 DEF StepOf
<1>7. CacheType'
  BY <1>1, <1>2, <1>3 DEF CacheInv, StatusTypeOK, CacheType, Calls
<1>8. ReportLasts'
  <2>1. \A e \in settled : cache[e] # x
    BY <1>2, <1>5 DEF CacheInv, StatusTypeOK
  <2>2. QED
    BY <1>1, <2>1 DEF CacheInv, StatusTypeOK, ReportLasts
<1>9. settled' = settled /\ n.op # "all" /\ n.dev \notin settled'
  BY <1>1, <1>2, <1>3, <1>5
<1> HIDE DEF n
<1>10. QED
  BY <1>6, <1>7, <1>8, <1>9 DEF CacheStep

LEMMA ReportKeeps ==
    ASSUME CacheInv, NEW r \in Requests, NEW d \in Devices, HandleStatusMessage(r, d)
    PROVE  CacheStep(r)
<1> DEFINE x == <<r, d>>
           n == [NoCall EXCEPT !.step = "load", !.op = "report", !.dev = d, !.rec = x]
<1>1. /\ At(r, "idle") /\ online' = [online EXCEPT ![x] = TRUE]
      /\ call' = [call EXCEPT ![r] = n] /\ UNCHANGED <<seen, cache, settled>>
  BY DEF HandleStatusMessage, Become
<1>2. r \in Callers /\ x \in Records /\ x # None /\ x[2] = d
  BY RecordsDiffer DEF Callers
<1>3. /\ n \in Calls /\ n.step = "load" /\ n.op = "report" /\ n.dev = d /\ n.rec = x
  BY <1>2 DEF NoCall, Calls, Steps
<1>4. CallOK(r, n)
  BY <1>2, <1>3, LanesAssumption DEF CallOK, LanesAssumption
<1>5. \A y \in Records : online[y] => online'[y]
  BY <1>1, <1>2 DEF CacheInv, StatusTypeOK
<1>6. StepOf(r, n)
  <2>1. online'[x]
    BY <1>1, <1>2 DEF CacheInv, StatusTypeOK
  <2>2. QED
    BY <1>1, <1>3, <1>4, <1>5, <2>1 DEF StepOf, At
<1>7. CacheType'
  BY <1>1 DEF CacheInv, StatusTypeOK, CacheType
<1>8. ReportLasts'
  <2>1. \A e \in settled : cache[e] \in Records
    BY DEF CacheInv, StatusTypeOK, ReportLasts
  <2>2. QED
    BY <1>1, <1>5, <2>1 DEF CacheInv, ReportLasts
<1>9. QED
  BY <1>1, <1>3, <1>6, <1>7, <1>8 DEF CacheStep

LEMMA LoadOldKeeps ==
    ASSUME CacheInv, NEW r \in Callers, LoadOld(r)
    PROVE  CacheStep(r)
<1> DEFINE n == [call[r] EXCEPT !.step = "store", !.old = cache[call[r].dev]]
<1>1. At(r, "load") /\ call' = [call EXCEPT ![r] = n] /\ UNCHANGED <<cacheVars, settled>>
  BY DEF LoadOld, Become
<1>2. call[r] \in Calls /\ CallOK(r, call[r]) /\ call[r].dev \in Devices
  BY <1>1 DEF CacheInv, CallOK, At
<1>3. /\ n \in Calls /\ n.step = "store" /\ n.op = call[r].op /\ n.dev = call[r].dev
      /\ n.rec = call[r].rec
  BY <1>2 DEF Calls, Steps, CacheInv, StatusTypeOK
<1>4. CallOK(r, n)
  BY <1>1, <1>2, <1>3 DEF CallOK, At
<1> HIDE DEF n
<1>5. QED
  BY <1>1, <1>3, <1>4, QuietStep DEF At

LEMMA NotifyKeeps ==
    ASSUME CacheInv, NEW r \in Callers, NotifyStatusChange(r)
    PROVE  CacheStep(r)
  BY FinishKeeps DEF NotifyStatusChange

LEMMA SendCommandKeeps ==
    ASSUME CacheInv, NEW r \in Callers, SendCommand(r)
    PROVE  CacheStep(r)
<1>1. /\ At(r, "send") /\ UNCHANGED <<cacheVars, settled>>
  BY DEF SendCommand, sending
<1>2. call[r] \in Calls /\ CallOK(r, call[r]) /\ call[r].op = "send" /\ call[r].dev \in Devices
  BY <1>1 DEF CacheInv, CallOK, At
<1>3. ASSUME r \in Lanes, NEW v \in Verdicts, Become(r, [call[r] EXCEPT !.step = "merge", !.said = v])
      PROVE  CacheStep(r)
  <2> DEFINE n == [call[r] EXCEPT !.step = "merge", !.said = v]
  <2>1. n \in Calls /\ n.step = "merge" /\ n.op = call[r].op /\ n.dev = call[r].dev
        /\ n.rec = call[r].rec /\ n.said = v
    BY <1>2 DEF Calls, Steps
  <2>2. CallOK(r, n)
    BY <1>2, <1>3, <2>1 DEF CallOK
  <2>3. call' = [call EXCEPT ![r] = n]
    BY <1>3 DEF Become
  <2> HIDE DEF n
  <2>4. QED
    BY <1>1, <2>1, <2>2, <2>3, QuietStep
<1>4. CASE Finish(r)
  BY <1>1, <1>4, FinishKeeps
<1>5. QED
  BY <1>3, <1>4 DEF SendCommand

(* What is stored goes to the caller's device.  A report that nobody       *)
(* contends with settles it, and its record is still online.               *)
LEMMA StoreStatusKeeps ==
    ASSUME CacheInv, NEW r \in Callers, StoreStatus(r)
    PROVE  CacheStep(r)
<1> DEFINE d == call[r].dev
           x == call[r].rec
           n == IF call[r].old = None THEN [NoCall EXCEPT !.step = "done"]
                                      ELSE [call[r] EXCEPT !.step = "compare"]
<1>1. /\ At(r, "store") /\ cache' = [cache EXCEPT ![d] = x] /\ UNCHANGED <<seen, online>>
      /\ call' = [call EXCEPT ![r] = n]
      /\ settled' = IF call[r].op = "report" /\ ~Busy(r, d) THEN settled \cup {d} ELSE settled
  BY DEF StoreStatus, Become, Finish, Goto
<1>2. call[r] \in Calls /\ CallOK(r, call[r]) /\ d \in Devices /\ x \in Records /\ x # None /\ x[2] = d
      /\ call[r].op \in {"set", "report"}
  BY <1>1 DEF CacheInv, CallOK, At, Calls
<1>3. /\ n \in Calls /\ n.step \in {"done", "compare"}
      /\ n.step = "done" => n.op = "none" /\ n.dev = None /\ n.rec = None
      /\ n.step = "compare" => n.op = call[r].op /\ n.dev = d /\ n.rec = x
  BY <1>2 DEF Calls, Steps, NoCall
<1> HIDE DEF n
<1>4. CallOK(r, n)
  BY <1>1, <1>2, <1>3 DEF CallOK, At
<1>5. call[r].op = "set" => d \notin settled
  BY <1>1 DEF CacheInv, SettledInv
<1>6. call[r].op = "report" => online[x]
  BY <1>1 DEF CacheInv, ShareInv, At
<1>7. StepOf(r, n)
  <2>1. \A e \in Devices : cache'[e] \in {cache[e], x}
    BY <1>1 DEF CacheInv, StatusTypeOK
  <2>2. QED
    BY <1>1, <1>3, <1>4, <2>1 DEF StepOf
<1>8. CacheType'
  BY <1>1, <1>2 DEF CacheInv, StatusTypeOK, CacheType
<1>9. ReportLasts'
  <2>1. \A e \in settled' : e \in settled \/ (e = d /\ call[r].op = "report")
    BY <1>1
  <2>2. \A e \in settled' : cache'[e] # None /\ online[cache'[e]]
    BY <1>1, <1>2, <1>5, <1>6, <2>1 DEF CacheInv, StatusTypeOK, ReportLasts
  <2>3. QED
    BY <1>1, <2>2 DEF ReportLasts
<1>10. settled' \subseteq settled \cup {e \in Devices : ~Busy(r, e) /\ n.op # "set"}
  BY <1>1, <1>2, <1>3
<1>11. n.op # "all" /\ (n.dev \in settled' => n.op # "set" /\ n.step \notin {"read", "fill"})
  BY <1>1, <1>2, <1>3, <1>5 
<1>12. QED
  BY <1>7, <1>8, <1>9, <1>10, <1>11 DEF CacheStep

-----------------------------------------------------------------------------
(* The lanes of a batch *)

(* A lane on its way to its verdict has been counted nowhere.              *)
LEMMA LaneGoesOn ==
    ASSUME CacheInv, LaneInv, NEW r \in Lanes, NEW n \in Calls, UNCHANGED batchVars,
           call' = [call EXCEPT ![r] = n], call[r].step \in {"idle", "read", "fill"},
           n.step \in {"read", "fill", "send", "merge"}, n.step = "merge" => n.said = "error",
           call[r].step = "idle" => r \in Targeted /\ batch = "run"
    PROVE  LaneInv'
<1>1. /\ r \in Callers /\ call \in [Callers -> Calls] /\ call'[r] = n
      /\ \A l \in Callers \ {r} : call'[l] = call[l]
      /\ Targeted' = Targeted /\ Lanes \subseteq Callers
  BY DEF CacheInv, StatusTypeOK, Callers, batchVars, Targeted
<1>2. r \notin results /\ r \notin acted /\ r \in Targeted /\ batch = "run"
  <2>1. r \in Targeted /\ batch # "idle"
    BY DEF LaneInv
  <2>2. batch # "done"
    BY <2>1 DEF LaneInv, At
  <2>3. QED
    BY <2>1, <2>2 DEF LaneInv, At, CacheInv, StatusTypeOK
<1>3. \A l \in Lanes : At(l, "done")' <=> At(l, "done")
  BY <1>1 DEF At
<1>4. results' = {l \in Lanes : At(l, "done")'}
  BY <1>3 DEF LaneInv, batchVars
<1>5. \A l \in Lanes : At(l, "merge")' => (call'[l].said = "success" <=> l \in acted)
  BY <1>1, <1>2 DEF LaneInv, At
<1>6. \A l \in acted : call'[l].step \in {"merge", "done"}
  BY <1>1, <1>2 DEF LaneInv, CacheInv, StatusTypeOK
<1>7. \A l \in Lanes : call'[l].step # "idle" => l \in Targeted /\ batch # "idle"
  BY <1>1, <1>2 DEF LaneInv
<1>8. QED
  BY <1>1, <1>2, <1>4, <1>5, <1>6, <1>7 DEF LaneInv, batchVars

LEMMA OtherCaller ==
    ASSUME LaneInv, UNCHANGED batchVars, \A l \in Lanes : call'[l] = call[l], acted \subseteq Lanes
    PROVE  LaneInv'
<1>1. Targeted' = Targeted /\ Targeted \subseteq Lanes
  BY DEF Targeted, batchVars
<1>2. results' = {l \in Lanes : At(l, "done")'}
  BY DEF LaneInv, batchVars, At
<1>3. \A l \in Lanes : At(l, "merge")' => (call'[l].said = "success" <=> l \in acted)
  BY DEF LaneInv, At
<1>4. \A l \in acted : call'[l].step \in {"merge", "done"}
  BY DEF LaneInv
<1>5. \A l \in Lanes : call'[l].step # "idle" => l \in Targeted /\ batch # "idle"
  BY DEF LaneInv
<1>6. batch = "done" => \A l \in Targeted : At(l, "done")'
  BY <1>1 DEF LaneInv, At
<1>7. QED
  BY <1>1, <1>2, <1>3, <1>4, <1>5, <1>6 DEF LaneInv, batchVars

(* The four steps on the way.                                              *)
LEMMA LaneOnItsWay ==
    ASSUME CacheInv, LaneInv, NEW l \in Lanes, LaneBegin(l) \/ ReadSeen(l) \/ ReadNothing(l) \/ Fill(l)
    PROVE  LaneInv'
<1>1. /\ l \in Callers /\ call[l] \in Calls /\ CallOK(l, call[l]) /\ call[l].op \in {"none", "send"}
      /\ target \in [Lanes -> Devices \cup {None}]
  BY DEF CacheInv, StatusTypeOK, CallOK, Callers
<1>2. CASE LaneBegin(l)
  <2> DEFINE d == target[l]
             c == [NoCall EXCEPT !.op = "send", !.dev = d, !.want = FALSE]
  <2>1. /\ batch = "run" /\ l \in Targeted /\ d \in Devices /\ At(l, "idle")
        /\ UNCHANGED batchVars /\ LoadCached(l, c)
    BY <1>1, <1>2 DEF LaneBegin, IsDeviceOnline, LookUp, Targeted
  <2>2. c \in Calls /\ c.op = "send" /\ c.dev = d /\ c.rec = None
    BY <2>1 DEF NoCall, Calls, Steps
  <2>3. CASE cache[d] # None /\ Found(l, c, cache[d])
    <3>1. cache[d] \in Records /\ cache[d][2] = d
      BY <2>1, <2>3 DEF CacheInv, StatusTypeOK
    <3> HIDE DEF c
    <3>2. PICK n : /\ call' = [call EXCEPT ![l] = n] /\ CallOK(l, n)
                   /\ n.step \in {"send", "merge"} /\ (n.step = "merge" => n.said = "error")
      BY <1>1, <2>1, <2>2, <2>3, <3>1, FoundStep
    <3>3. QED
      BY <2>1, <3>2, LaneGoesOn DEF CallOK, At
  <2>4. CASE cache[d] = None /\ Become(l, [c EXCEPT !.step = "read"])
    <3> DEFINE n == [c EXCEPT !.step = "read"]
    <3>1. call' = [call EXCEPT ![l] = n] /\ n \in Calls /\ n.step = "read"
      BY <2>2, <2>4 DEF Become, Calls, Steps
    <3> HIDE DEF n
    <3>2. QED
      BY <2>1, <3>1, LaneGoesOn DEF At
  <2>5. QED
    BY <2>1, <2>2, <2>3, <2>4 DEF LoadCached
<1>3. CASE ReadSeen(l)
  <2> DEFINE n == [call[l] EXCEPT !.step = "fill", !.rec = <<l, call[l].dev>>]
  <2>1. /\ At(l, "read") /\ UNCHANGED batchVars /\ call' = [call EXCEPT ![l] = n]
    BY <1>3 DEF ReadSeen, Become
  <2>2. n \in Calls /\ n.step = "fill"
    BY <1>1, <2>1, RecordsDiffer DEF Calls, Steps, CallOK, At
  <2> HIDE DEF n
  <2>3. QED
    BY <2>1, <2>2, LaneGoesOn DEF At
<1>4. CASE ReadNothing(l)
  <2> DEFINE n == [call[l] EXCEPT !.step = "merge", !.said = "error"]
  <2>1. /\ At(l, "read") /\ UNCHANGED batchVars /\ call' = [call EXCEPT ![l] = n]
    BY <1>1, <1>4 DEF ReadNothing, Become
  <2>2. n \in Calls /\ n.step = "merge" /\ n.said = "error"
    BY <1>1 DEF Calls, Steps, Verdicts
  <2> HIDE DEF n
  <2>3. QED
    BY <2>1, <2>2, LaneGoesOn DEF At
<1>5. CASE Fill(l)
  <2>1. /\ At(l, "fill") /\ UNCHANGED batchVars /\ Found(l, call[l], call[l].rec)
    BY <1>5 DEF Fill
  <2>2. /\ call[l].op = "send" /\ call[l].dev \in Devices /\ call[l].rec = <<l, call[l].dev>>
        /\ call[l].rec \in Records /\ call[l].rec[2] = call[l].dev
    BY <1>1, <2>1, RecordsDiffer DEF CallOK, At
  <2>3. PICK n : /\ call' = [call EXCEPT ![l] = n] /\ CallOK(l, n)
                 /\ n.step \in {"send", "merge"} /\ (n.step = "merge" => n.said = "error")
    BY <1>1, <2>1, <2>2, FoundStep
  <2>4. QED
    BY <2>1, <2>3, LaneGoesOn DEF CallOK, At
<1>6. QED
  BY <1>2, <1>3, <1>4, <1>5

(* The verdict of a command is noted before it is counted.                 *)
LEMMA LaneSends ==
    ASSUME CacheInv, LaneInv, NEW l \in Lanes, SendCommand(l)
    PROVE  LaneInv'
<1>1. l \in Callers /\ l \notin Requests /\ At(l, "send") /\ call[l] \in Calls
      /\ UNCHANGED <<batch, target, results, ok, bad>>
  BY LanesAssumption DEF LanesAssumption, SendCommand, CacheInv, StatusTypeOK, Callers
<1>2. PICK v \in Verdicts : /\ Become(l, [call[l] EXCEPT !.step = "merge", !.said = v])
                            /\ acted' = IF v = "success" THEN acted \cup {l} ELSE acted
  BY <1>1 DEF SendCommand
<1> DEFINE n == [call[l] EXCEPT !.step = "merge", !.said = v]
<1>3. n.step = "merge" /\ n.said = v
  BY <1>1 DEF Calls
<1>4. /\ call'[l] = n /\ \A q \in Callers \ {l} : call'[q] = call[q]
      /\ Targeted' = Targeted /\ Lanes \subseteq Callers
  BY <1>1, <1>2 DEF Become, CacheInv, StatusTypeOK, Targeted, Callers
<1> HIDE DEF n
<1>5. l \notin results /\ l \notin acted /\ l \in Targeted /\ batch # "idle" /\ batch # "done"
  BY <1>1 DEF LaneInv, At, CacheInv, StatusTypeOK
<1>6. results' = {q \in Lanes : At(q, "done")'}
  <2>1. \A q \in Lanes : At(q, "done")' <=> At(q, "done")
    BY <1>1, <1>3, <1>4 DEF At
  <2>2. QED
    BY <1>1, <2>1 DEF LaneInv
<1>7. \A q \in Lanes : At(q, "merge")' => (call'[q].said = "success" <=> q \in acted')
  BY <1>2, <1>3, <1>4, <1>5 DEF LaneInv, At
<1>8. \A q \in acted' : call'[q].step \in {"merge", "done"}
  BY <1>2, <1>3, <1>4 DEF LaneInv, CacheInv, StatusTypeOK
<1>9. results' \cap acted' = results \cap acted /\ results' \ acted' = results \ acted
  BY <1>1, <1>2, <1>5
<1>10. \A q \in Lanes : call'[q].step # "idle" => q \in Targeted /\ batch # "idle"
  BY <1>4, <1>5 DEF LaneInv
<1>11. QED
  BY <1>1, <1>4, <1>5, <1>6, <1>7, <1>8, <1>9, <1>10 DEF LaneInv

LEMMA LaneMerges ==
    ASSUME CacheInv, LaneInv, NEW l \in Lanes, Merge(l)
    PROVE  LaneInv'
<1>1. /\ l \in Callers /\ At(l, "merge") /\ results' = results \cup {l} /\ Count(call[l].said)
      /\ UNCHANGED <<batch, target, acted>>
  BY DEF Merge, Callers
<1>2. /\ call'[l].step = "done" /\ \A q \in Callers \ {l} : call'[q] = call[q]
      /\ Targeted' = Targeted /\ Lanes \subseteq Callers
  BY <1>1 DEF Merge, Finish, Become, NoCall, CacheInv, StatusTypeOK, Targeted, Callers
<1>3. l \notin results /\ l \in Targeted /\ batch # "idle" /\ batch # "done"
      /\ (call[l].said = "success" <=> l \in acted)
  BY <1>1 DEF LaneInv, At
<1>4. results' = {q \in Lanes : At(q, "done")'}
  BY <1>1, <1>2 DEF LaneInv, At
<1>5. \A q \in Lanes : At(q, "merge")' => (call'[q].said = "success" <=> q \in acted')
  BY <1>1, <1>2 DEF LaneInv, At
<1>6. \A q \in acted' : call'[q].step \in {"merge", "done"}
  BY <1>1, <1>2 DEF LaneInv, CacheInv, StatusTypeOK
<1>7. ok' = Cardinality(results' \cap acted') /\ bad' = Cardinality(results' \ acted')
  <2>1. IsFiniteSet(results \cap acted) /\ IsFiniteSet(results \ acted)
    BY LanesAssumption, FS_Subset DEF LanesAssumption, CacheInv, StatusTypeOK
  <2>2. ok = Cardinality(results \cap acted) /\ bad = Cardinality(results \ acted)
    BY DEF LaneInv
  <2>3. CASE l \in acted
    <3>1. results' \cap acted' = (results \cap acted) \cup {l} /\ results' \ acted' = results \ acted
      BY <1>1, <2>3
    <3>2. Cardinality((results \cap acted) \cup {l}) = Cardinality(results \cap acted) + 1
      BY <1>3, <2>1, FS_AddElement
    <3>3. ok' = ok + 1 /\ bad' = bad
      BY <1>1, <1>3, <2>3 DEF Count
    <3>4. QED
      BY <2>2, <3>1, <3>2, <3>3
  <2>4. CASE l \notin acted
    <3>1. results' \ acted' = (results \ acted) \cup {l} /\ results' \cap acted' = results \cap acted
      BY <1>1, <2>4
    <3>2. Cardinality((results \ acted) \cup {l}) = Cardinality(results \ acted) + 1
      BY <1>3, <2>1, FS_AddElement
    <3>3. bad' = bad + 1 /\ ok' = ok
      BY <1>1, <1>3, <2>4 DEF Count
    <3>4. QED
      BY <2>2, <3>1, <3>2, <3>3
  <2>5. QED
    BY <2>3, <2>4
<1>8. \A q \in Lanes : call'[q].step # "idle" => q \in Targeted /\ batch # "idle"
  BY <1>2, <1>3 DEF LaneInv
<1>9. QED
  BY <1>1, <1>2, <1>3, <1>4, <1>5, <1>6, <1>7, <1>8 DEF LaneInv

(* A batch begins with lanes that are all idle, and returns when those with *)
(* a device are done.                                                       *)
LEMMA BatchBegins ==
    ASSUME CacheInv, LaneInv, NEW S \in SUBSET Lanes, NEW devices \in [S -> Devices],
           SendBatchCommand(devices)
    PROVE  LaneInv'
<1>1. /\ batch = "idle" /\ Targeted = {} /\ \A l \in Lanes : call[l].step = "idle"
      /\ UNCHANGED <<call, results, ok, bad, acted>> /\ batch' \in {"done", "run"}
      /\ target' = [l \in Lanes |-> IF l \in S THEN devices[l] ELSE None]
      /\ batch' = "done" => S = {}
  BY DEF SendBatchCommand, LaneInv
<1>2. S = {} => Targeted' = {}
  BY <1>1 DEF Targeted
<1>3. results' = {l \in Lanes : At(l, "done")'}
  BY <1>1 DEF LaneInv, At
<1>4. QED
  BY <1>1, <1>2, <1>3 DEF LaneInv, At

LEMMA BatchEnds ==
    ASSUME CacheInv, LaneInv, BatchReturn
    PROVE  LaneInv'
<1>1. /\ batch = "run" /\ batch' = "done" /\ \A l \in Targeted : At(l, "done")
      /\ UNCHANGED <<call, target, results, ok, bad, acted>> /\ Targeted' = Targeted
  BY DEF BatchReturn, Targeted
<1>2. results' = {l \in Lanes : At(l, "done")'}
  BY <1>1 DEF LaneInv, At
<1>3. QED
  BY <1>1, <1>2 DEF LaneInv, At

-----------------------------------------------------------------------------
(* Together *)

StatusInv == CacheInv /\ ChannelInv /\ LaneInv

(* Each request about the cache is such a step.                            *)
LEMMA RequestKeeps ==
    ASSUME CacheInv, NEW r \in Requests, StatusRequest(r)
    PROVE  CacheStep(r)
<1>1. r \in Callers /\ r \notin Lanes
  BY LanesAssumption DEF LanesAssumption, Callers
<1>2. ASSUME NEW d \in Devices, GetDeviceStatus(r, d) \/ HandleSendCommand(r, d)
      PROVE  CacheStep(r)
  BY <1>1, <1>2, LookUpKeeps DEF GetDeviceStatus, HandleSendCommand, IsDeviceOnline
<1>3. ASSUME NEW d \in Devices, NEW b \in BOOLEAN, SetDeviceOnline(r, d, b)
      PROVE  CacheStep(r)
  BY <1>1, <1>3, LookUpKeeps DEF SetDeviceOnline
<1>4. QED
  BY <1>1, <1>2, <1>3, ReportKeeps, GetAllKeeps, StoreNextKeeps, SetOnlineKeeps,
     LoadOldKeeps, StoreStatusKeeps, NotifyKeeps DEF StatusRequest, UpdateDeviceStatus

(* A step is one of a caller on the cache, or leaves the cache, the records *)
(* and the callers alone.                                                   *)
LEMMA NextKeepsCache ==
    ASSUME CacheInv, StatusNext
    PROVE  CacheType' /\ CallsOK' /\ ShareInv' /\ SettledInv' /\ ReportLasts'
<1>1. ASSUME NEW r \in Requests, StatusRequest(r)
      PROVE  CacheStep(r)
  BY <1>1, RequestKeeps
<1>2. ASSUME NEW r \in Callers, ReadSeen(r) \/ ReadNothing(r) \/ Fill(r) \/ SendCommand(r)
      PROVE  CacheStep(r)
  BY <1>2, ReadSeenKeeps, ReadNothingKeeps, FillKeeps, SendCommandKeeps
<1>3. ASSUME NEW l \in Lanes, LaneBegin(l)
      PROVE  CacheStep(l)
  <2>1. target[l] \in Devices /\ LookUp(l, target[l], "send", FALSE) /\ UNCHANGED settled
    BY <1>3 DEF LaneBegin, Targeted, IsDeviceOnline, CacheInv, StatusTypeOK
  <2>2. QED
    BY <2>1, LookUpKeeps DEF Callers
<1>4. ASSUME NEW l \in Lanes, Merge(l)
      PROVE  CacheStep(l)
  BY <1>4, FinishKeeps DEF Merge, sending, Callers
<1>5. ASSUME UNCHANGED <<online, cache, call, settled>>, seen' \in [Devices -> {"never", "recent", "stale"}]
      PROVE  CacheType' /\ CallsOK' /\ ShareInv' /\ SettledInv' /\ ReportLasts'
  <2>1. CacheType' /\ CallsOK'
    BY <1>5 DEF CacheInv, StatusTypeOK, CacheType, CallsOK
  <2>2. ShareInv'
    BY <1>5 DEF CacheInv, ShareInv, Unshared
  <2>3. SettledInv' /\ ReportLasts'
    BY <1>5 DEF CacheInv, SettledInv, ReportLasts
  <2>4. QED
    BY <2>1, <2>2, <2>3
<1>6. ASSUME NEW d \in Devices, ValidateDevice(d) \/ TimePasses(d)
      PROVE  seen' \in [Devices -> {"never", "recent", "stale"}] /\ UNCHANGED <<online, cache, call, settled>>
  BY <1>6 DEF ValidateDevice, TimePasses, CacheInv, StatusTypeOK
<1>7. ASSUME Subscription \/ BatchReturn
             \/ \E S \in SUBSET Lanes : \E devices \in [S -> Devices] : SendBatchCommand(devices)
      PROVE  seen' \in [Devices -> {"never", "recent", "stale"}] /\ UNCHANGED <<online, cache, call, settled>>
  BY <1>7 DEF Subscription, SubscribeStatusChanges, RemoveSubscriber, CloseChannel, subscribing,
     BatchReturn, SendBatchCommand, sending, cacheVars, CacheInv, StatusTypeOK
<1>8. QED
  BY <1>1, <1>2, <1>3, <1>4, <1>5, <1>6, <1>7, CacheStepKeeps DEF StatusNext, Batch, Callers

(* Only the subscriptions touch the channels; a channel is closed after it *)
(* has left the list, so a notification panics on none.                    *)
LEMMA NextKeepsChannels ==
    ASSUME StatusTypeOK, ChannelInv, StatusNext
    PROVE  /\ ChannelInv' /\ panicked' \in BOOLEAN
           /\ UNION {listed', leaving', closed'} \subseteq Subscribers /\ leaving' \cap closed' = {}
<1>1. CASE Subscription
  <2>1. PICK s \in Subscribers : SubscribeStatusChanges(s) \/ RemoveSubscriber(s) \/ CloseChannel(s)
    BY <1>1 DEF Subscription
  <2>2. QED
    BY <2>1 DEF SubscribeStatusChanges, RemoveSubscriber, CloseChannel, subscribing, StatusTypeOK, ChannelInv
<1>2. CASE UNCHANGED <<channelVars, panicked>>
  BY <1>2 DEF channelVars, StatusTypeOK, ChannelInv
<1>3. ASSUME NEW r \in Requests, NotifyStatusChange(r)
      PROVE  UNCHANGED <<channelVars, panicked>>
  BY <1>3 DEF NotifyStatusChange, ChannelInv, StatusTypeOK
<1>4. ASSUME NEW r \in Requests, StatusRequest(r)
      PROVE  UNCHANGED <<channelVars, panicked>>
  BY <1>3, <1>4 DEF StatusRequest, UpdateDeviceStatus, GetDeviceStatus, HandleSendCommand, IsDeviceOnline,
     SetDeviceOnline, LookUp, HandleStatusMessage, GetAllDeviceStatuses, StoreNext, SetOnline, LoadOld,
     StoreStatus
<1>5. ASSUME NEW r \in Callers, ReadSeen(r) \/ ReadNothing(r) \/ Fill(r) \/ SendCommand(r)
      PROVE  UNCHANGED <<channelVars, panicked>>
  BY <1>5 DEF ReadSeen, ReadNothing, Fill, SendCommand, sending
<1>6. ASSUME NEW d \in Devices, ValidateDevice(d) \/ TimePasses(d)
      PROVE  UNCHANGED <<channelVars, panicked>>
  BY <1>6 DEF ValidateDevice, TimePasses
<1>7. ASSUME Batch
      PROVE  UNCHANGED <<channelVars, panicked>>
  BY <1>7 DEF Batch, SendBatchCommand, LaneBegin, IsDeviceOnline, LookUp, Merge, BatchReturn, sending
<1>8. QED
  BY <1>1, <1>2, <1>4, <1>5, <1>6, <1>7 DEF StatusNext

BatchType ==
    /\ batch \in {"idle", "run", "done"}
    /\ target \in [Lanes -> Devices \cup {None}]
    /\ results \subseteq Lanes /\ ok \in Nat /\ bad \in Nat /\ acted \subseteq Lanes

LEMMA NextKeepsLanes ==
    ASSUME CacheInv, LaneInv, StatusNext
    PROVE  LaneInv' /\ BatchType'
<1>1. BatchType /\ acted \subseteq Lanes
  BY DEF CacheInv, StatusTypeOK, BatchType
<1>2. ASSUME NEW l \in Lanes, LaneBegin(l) \/ ReadSeen(l) \/ ReadNothing(l) \/ Fill(l)
      PROVE  LaneInv' /\ BatchType'
  <2>1. UNCHANGED batchVars
    BY <1>2 DEF LaneBegin, IsDeviceOnline, LookUp, ReadSeen, ReadNothing, Fill
  <2>2. QED
    BY <1>1, <1>2, <2>1, LaneOnItsWay DEF batchVars, BatchType
<1>3. ASSUME NEW l \in Lanes, SendCommand(l)
      PROVE  LaneInv' /\ BatchType'
  <2>1. UNCHANGED <<batch, target, results, ok, bad>> /\ acted' \subseteq acted \cup {l}
    BY <1>3 DEF SendCommand
  <2>2. QED
    BY <1>1, <1>3, <2>1, LaneSends DEF BatchType
<1>4. ASSUME NEW l \in Lanes, Merge(l)
      PROVE  LaneInv' /\ BatchType'
  <2>1. /\ UNCHANGED <<batch, target, acted>> /\ results' = results \cup {l}
        /\ ok' \in {ok, ok + 1} /\ bad' \in {bad, bad + 1}
    BY <1>4 DEF Merge, Count
  <2>2. QED
    BY <1>1, <1>4, <2>1, LaneMerges DEF BatchType
<1>5. ASSUME NEW S \in SUBSET Lanes, NEW devices \in [S -> Devices], SendBatchCommand(devices)
      PROVE  LaneInv' /\ BatchType'
  <2>1. /\ UNCHANGED <<results, ok, bad, acted>> /\ batch' \in {"run", "done"}
        /\ target' = [l \in Lanes |-> IF l \in S THEN devices[l] ELSE None]
    BY <1>5 DEF SendBatchCommand
  <2>2. QED
    BY <1>1, <1>5, <2>1, BatchBegins DEF BatchType
<1>6. ASSUME BatchReturn
      PROVE  LaneInv' /\ BatchType'
  BY <1>1, <1>6, BatchEnds DEF BatchReturn, BatchType
<1>7. ASSUME UNCHANGED batchVars, \A l \in Lanes : call'[l] = call[l]
      PROVE  LaneInv' /\ BatchType'
  BY <1>1, <1>7, OtherCaller DEF batchVars, BatchType
<1>8. ASSUME NEW r \in Requests, NEW n, call' = [call EXCEPT ![r] = n]
      PROVE  \A l \in Lanes : call'[l] = call[l]
  BY <1>8, LanesAssumption DEF LanesAssumption, CacheInv, StatusTypeOK, Callers
<1>9. ASSUME NEW r \in Requests, ReadSeen(r) \/ ReadNothing(r) \/ Fill(r) \/ SendCommand(r)
      PROVE  LaneInv' /\ BatchType'
  <2>1. r \in Callers /\ r \notin Lanes
    BY LanesAssumption DEF LanesAssumption, Callers
  <2>2. CacheStep(r)
    BY <1>9, <2>1, ReadSeenKeeps, ReadNothingKeeps, FillKeeps, SendCommandKeeps
  <2>3. UNCHANGED batchVars
    BY <1>9, <2>1 DEF ReadSeen, ReadNothing, Fill, SendCommand, batchVars
  <2>4. QED
    BY <1>7, <1>8, <2>2, <2>3 DEF CacheStep, StepOf
<1>10. ASSUME NEW r \in Requests, StatusRequest(r)
       PROVE  LaneInv' /\ BatchType'
  <2>1. UNCHANGED batchVars
    BY <1>10 DEF StatusRequest, UpdateDeviceStatus, GetDeviceStatus, HandleSendCommand, IsDeviceOnline,
       SetDeviceOnline, LookUp, HandleStatusMessage, GetAllDeviceStatuses, StoreNext, SetOnline, LoadOld,
       StoreStatus, NotifyStatusChange
  <2>2. CacheStep(r)
    BY <1>10, RequestKeeps
  <2>3. QED
    BY <1>7, <1>8, <2>1, <2>2 DEF CacheStep, StepOf
<1>11. ASSUME NEW d \in Devices, ValidateDevice(d) \/ TimePasses(d)
       PROVE  LaneInv' /\ BatchType'
  BY <1>7, <1>11 DEF ValidateDevice, TimePasses
<1>12. ASSUME Subscription
       PROVE  LaneInv' /\ BatchType'
  BY <1>7, <1>12 DEF Subscription, SubscribeStatusChanges, RemoveSubscriber, CloseChannel, subscribing
<1>13. QED
  BY <1>2, <1>3, <1>4, <1>5, <1>6, <1>9, <1>10, <1>11, <1>12 DEF StatusNext, Batch, Callers

LEMMA InitStatusInv == StatusInit => StatusInv
<1> SUFFICES ASSUME StatusInit PROVE StatusInv
  OBVIOUS
<1> USE DEF StatusInit
<1>1. NoCall \in Calls
  BY DEF NoCall, Calls, Steps
<1>2. StatusTypeOK
  BY <1>1 DEF StatusTypeOK
<1>3. \A r \in Callers : CallOK(r, call[r])
  BY <1>1 DEF CallOK, NoCall
<1>4. ShareInv
  BY RecordsDiffer DEF ShareInv, Unshared, NoCall
<1>5. SettledInv /\ ReportLasts /\ ChannelInv
  BY DEF SettledInv, ReportLasts, ChannelInv
<1>6. LaneInv
  <2>1. Targeted = {} /\ \A l \in Lanes : call[l].step = "idle"
    BY DEF Targeted, NoCall, Callers
  <2>2. results \cap acted = {} /\ results \ acted = {}
    OBVIOUS
  <2>3. results = {l \in Lanes : At(l, "done")}
    BY <2>1 DEF At
  <2>4. ok = Cardinality(results \cap acted) /\ bad = Cardinality(results \ acted)
    BY <2>2, FS_EmptySet
  <2>5. QED
    BY <2>1, <2>3, <2>4 DEF LaneInv, At
<1>7. QED
  BY <1>2, <1>3, <1>4, <1>5, <1>6 DEF StatusInv, CacheInv

(* The inductive invariant holds in every reachable state: the records in *)
(* hand and in the cache, the channels, and the lanes of a batch.          *)
THEOREM StatusInvariant == StatusSpec => []StatusInv
<1>1. StatusInit => StatusInv
  BY InitStatusInv
<1>2. StatusInv /\ [StatusNext]_statusVars => StatusInv'
  <2> SUFFICES ASSUME StatusInv, [StatusNext]_statusVars
               PROVE  StatusInv'
    OBVIOUS
  <2>1. CASE StatusNext
    <3>1. CacheType' /\ CallsOK' /\ ShareInv' /\ SettledInv' /\ ReportLasts'
      BY <2>1, NextKeepsCache DEF StatusInv
    <3>2. LaneInv' /\ BatchType'
      BY <2>1, NextKeepsLanes DEF StatusInv
    <3>3. /\ ChannelInv' /\ panicked' \in BOOLEAN
          /\ UNION {listed', leaving', closed'} \subseteq Subscribers
          /\ leaving' \cap closed' = {}
      BY <2>1, NextKeepsChannels DEF StatusInv, CacheInv
    <3>4. StatusTypeOK'
      BY <3>1, <3>2, <3>3 DEF StatusTypeOK, CacheType, CallsOK, BatchType, ChannelInv
    <3>5. QED
      BY <3>1, <3>2, <3>3, <3>4 DEF StatusInv, CacheInv, CallsOK
  <2>2. CASE UNCHANGED statusVars
    <3>1. StatusTypeOK' /\ ReportLasts' /\ SettledInv' /\ ShareInv' /\ \A r \in Callers : CallOK(r, call'[r])
      BY <2>2 DEF statusVars, cacheVars, channelVars, batchVars, StatusInv, CacheInv, StatusTypeOK, ShareInv,
         Unshared, SettledInv, ReportLasts
    <3>2. ChannelInv' /\ LaneInv'
      BY <2>2 DEF statusVars, channelVars, batchVars, StatusInv, ChannelInv, LaneInv, At, Targeted
    <3>3. QED
      BY <3>1, <3>2 DEF StatusInv, CacheInv
  <2>3. QED
    BY <2>1, <2>2
<1>3. QED
  BY <1>1, <1>2, PTL DEF StatusSpec

(* Every variable of the status service keeps its type, the call of every  *)
(* caller included (services/status_service.go).                           *)
THEOREM StatusTypeCorrect == StatusSpec => []StatusTypeOK
<1>1. StatusInv => StatusTypeOK
  BY DEF StatusInv, CacheInv
<1>2. QED
  BY <1>1, StatusInvariant, PTL

(* However subscriptions end, notifyStatusChange sends on no closed        *)
(* channel.                                                                *)
THEOREM NotifiesOpenChannels == StatusSpec => []NeverSendsOnClosed
<1>1. StatusInv => NeverSendsOnClosed
  BY DEF StatusInv, ChannelInv, NeverSendsOnClosed
<1>2. QED
  BY <1>1, StatusInvariant, PTL

(* What a device reported while nothing else about it was going on is what *)
(* lookups find, until its state is set or all devices are listed: no      *)
(* request fills the cache with what it read before (GetDeviceStatus,      *)
(* IsDeviceOnline).                                                        *)
THEOREM ReportsLast == StatusSpec => []ReportLasts
<1>1. StatusInv => ReportLasts
  BY DEF StatusInv, CacheInv
<1>2. QED
  BY <1>1, StatusInvariant, PTL

(* A batch that returned has a result of each lane, and counts that add up *)
(* to the lanes and to what the devices did (SendBatchCommand).            *)
THEOREM BatchesAddUp == StatusSpec => []BatchAddsUp
<1>1. StatusInv => BatchAddsUp
  <2> SUFFICES ASSUME StatusInv, batch = "done" PROVE BatchAddsUp
    BY DEF BatchAddsUp
  <2>1. results = Targeted
    BY DEF StatusInv, LaneInv, At, Targeted
  <2>2. results \cap acted = acted
    BY <2>1 DEF StatusInv, CacheInv, StatusTypeOK, LaneInv
  <2>3. IsFiniteSet(results)
    BY LanesAssumption, FS_Subset DEF LanesAssumption, StatusInv, CacheInv, StatusTypeOK
  <2>4. IsFiniteSet(results \cap acted)
    BY <2>3, FS_Subset
  <2>5. /\ Cardinality(results \ acted) = Cardinality(results) - Cardinality(results \cap acted)
        /\ Cardinality(results) \in Nat /\ Cardinality(results \cap acted) \in Nat
    BY <2>3, <2>4, FS_Difference, FS_CardinalityType
  <2>6. ok = Cardinality(results \cap acted) /\ bad = Cardinality(results \ acted)
    BY DEF StatusInv, LaneInv
  <2> DEFINE m == Cardinality(results)
             k == Cardinality(results \cap acted)
  <2>7. m \in Nat /\ k \in Nat /\ ok = k /\ bad = m - k /\ k = Cardinality(acted)
    BY <2>2, <2>5, <2>6
  <2> HIDE DEF m, k
  <2>8. ok = Cardinality(acted) /\ ok + bad = m
    BY <2>7
  <2>9. QED
    BY <2>1, <2>8 DEF m, BatchAddsUp
<1>2. QED
  BY <1>1, StatusInvariant, PTL
=============================================================================
