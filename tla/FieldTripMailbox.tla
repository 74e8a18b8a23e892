-------------------------- MODULE FieldTripMailbox --------------------------
(***************************************************************************)
(* The mailbox of one field-trip tablet: its rows in pending_commands      *)
(* (internal/repositories/fieldtrip_repo.go) between the handlers that     *)
(* fill it (SetWhitelist) and the handler that empties it (PollCommands,   *)
(* internal/api/fieldtrip_handler.go).  Every HTTP request is a goroutine  *)
(* of its own and every statement a transaction of its own, so requests    *)
(* interleave between statements: a poll selects the pending rows, marks   *)
(* them delivered one UPDATE at a time and only then answers.  The tablet  *)
(* may have given up on the poll by then, and the hub may be restarted     *)
(* anywhere in between.                                                    *)
(*                                                                         *)
(* The hub only ever inserts rows of type "whitelist".                     *)
(***************************************************************************)
EXTENDS Integers, FiniteSets

CONSTANTS Sets,         (* the SetWhitelist requests, one whitelist each   *)
          EmptyLists,   (* those that set an empty whitelist               *)
          Polls,        (* the poll requests that can be open at a time    *)
          None,         (* no poll, no whitelist                           *)
          MaxClock,     (* bound on the clock, in seconds                  *)
          Lossy,        (* may the tablet give up on an open poll?         *)
          Crashes,      (* may the hub be restarted?                       *)
          Unmarkable    (* the rows whose UPDATE may fail: the code ignores*)
                        (* the error                                       *)

ASSUME SetsAssumption == EmptyLists \subseteq Sets /\ Unmarkable \subseteq Sets
ASSUME NoneAssumption == None \notin Sets \cup Polls
ASSUME ClockAssumption == MaxClock \in Nat
ASSUME FaultAssumption == {Lossy, Crashes} \subseteq BOOLEAN

VARIABLES
    registered,   (* the tablet has a row in fieldtrip_devices             *)
    now,          (* time.Now().Unix()                                     *)
    wpc,          (* wpc[s]: where the SetWhitelist request stands         *)
    seen,         (* seen[s]: the whitelists stored when s began (history) *)
    status,       (* status[s]: the status column of the row s inserted    *)
    createdAt,    (* createdAt[s]: its created_at                          *)
    rowid,        (* rowid[s]: its place in the table                      *)
    nextRow,      (* the place of the next row                             *)
    ppc,          (* ppc[p]: where the PollCommands request stands         *)
    batch,        (* batch[p]: the rows p has selected                     *)
    todo,         (* todo[p]: those it has yet to mark                     *)
    current,      (* the poll whose answer the tablet waits for            *)
    applied       (* the whitelist the tablet saved last                   *)

setVars  == <<wpc, seen>>
rowVars  == <<status, createdAt, rowid, nextRow>>
pollVars == <<ppc, batch, todo>>
mailboxVars == <<registered, now, setVars, rowVars, pollVars, current, applied>>

MailboxTypeOK ==
    /\ registered \in BOOLEAN
    /\ now \in Nat /\ nextRow \in Nat
    /\ wpc \in [Sets -> {"idle", "insert", "stored", "refused"}]
    /\ seen \in [Sets -> SUBSET Sets]
    /\ status \in [Sets -> {"absent", "pending", "delivered"}]
    /\ createdAt \in [Sets -> Nat] /\ rowid \in [Sets -> Nat]
    /\ ppc \in [Polls -> {"idle", "select", "mark", "respond"}]
    /\ batch \in [Polls -> SUBSET Sets] /\ todo \in [Polls -> SUBSET Sets]
    /\ current \in Polls \cup {None}
    /\ applied \in Sets \cup {None}

MailboxInit ==
    /\ registered = TRUE
    /\ now = 0 /\ nextRow = 0
    /\ wpc = [s \in Sets |-> "idle"] /\ seen = [s \in Sets |-> {}]
    /\ status = [s \in Sets |-> "absent"]
    /\ createdAt = [s \in Sets |-> 0] /\ rowid = [s \in Sets |-> 0]
    /\ ppc = [p \in Polls |-> "idle"]
    /\ batch = [p \in Polls |-> {}] /\ todo = [p \in Polls |-> {}]
    /\ current = None /\ applied = None

Stored  == {s \in Sets : wpc[s] = "stored"}
Pending == {s \in Sets : status[s] = "pending"}

(* ORDER BY created_at: rows of one second come in the order of the table. *)
Before(s, t) ==
    \/ createdAt[s] < createdAt[t]
    \/ createdAt[s] = createdAt[t] /\ rowid[s] < rowid[t]

First(s, S) == s \in S /\ \A t \in S \ {s} : Before(s, t)
Last(s, S)  == s \in S /\ \A t \in S \ {s} : Before(t, s)

-----------------------------------------------------------------------------
(* SetWhitelist: look the device up and stamp the row, then insert it.     *)

SetBegin(s) ==
    /\ wpc[s] = "idle"
    /\ wpc' = [wpc EXCEPT ![s] = IF registered THEN "insert" ELSE "refused"]
    /\ seen' = [seen EXCEPT ![s] = Stored]
    /\ createdAt' = [createdAt EXCEPT ![s] = now]
    /\ UNCHANGED <<registered, now, status, rowid, nextRow, pollVars, current, applied>>

(* Faulty variant: the row is inserted with the zero Status of its struct. *)
PushWithoutStatus(s) ==
    /\ wpc[s] = "insert"
    /\ wpc' = [wpc EXCEPT ![s] = "stored"]
    /\ status' = [status EXCEPT ![s] = ""]
    /\ UNCHANGED <<registered, now, seen, createdAt, rowid, nextRow, pollVars, current, applied>>

SetPush(s) ==
    /\ wpc[s] = "insert"
    /\ wpc' = [wpc EXCEPT ![s] = "stored"]
    /\ status' = [status EXCEPT ![s] = "pending"]
    /\ rowid' = [rowid EXCEPT ![s] = nextRow]
    /\ nextRow' = nextRow + 1
    /\ UNCHANGED <<registered, now, seen, createdAt, pollVars, current, applied>>

Tick ==
    /\ now < MaxClock
    /\ now' = now + 1
    /\ UNCHANGED <<registered, setVars, rowVars, pollVars, current, applied>>

DeleteTablet ==
    /\ registered
    /\ registered' = FALSE
    /\ UNCHANGED <<now, setVars, rowVars, pollVars, current, applied>>

-----------------------------------------------------------------------------
(* PollCommands.  The tablet has one poll open at a time and opens another *)
(* when that one is answered or given up; the hub goes on with a poll that *)
(* was given up as with any other.                                         *)

PollBegin(p) ==
    /\ registered /\ current = None /\ ppc[p] = "idle"
    /\ current' = p
    /\ ppc' = [ppc EXCEPT ![p] = "select"]
    /\ UNCHANGED <<registered, now, setVars, rowVars, batch, todo, applied>>

PollSelect(p) ==
    /\ ppc[p] = "select"
    /\ batch' = [batch EXCEPT ![p] = Pending]
    /\ todo' = [todo EXCEPT ![p] = Pending]
    /\ ppc' = [ppc EXCEPT ![p] = IF Pending = {} THEN "respond" ELSE "mark"]
    /\ UNCHANGED <<registered, now, setVars, rowVars, current, applied>>

MarkOne(p, s) ==
    /\ ppc[p] = "mark"
    /\ \/ status' = [status EXCEPT ![s] = "delivered"]
       \/ s \in Unmarkable /\ UNCHANGED status
    /\ todo' = [todo EXCEPT ![p] = @ \ {s}]
    /\ ppc' = [ppc EXCEPT ![p] = IF todo[p] = {s} THEN "respond" ELSE "mark"]
    /\ UNCHANGED <<registered, now, setVars, createdAt, rowid, nextRow, batch, current, applied>>

(* Faulty variants: the newest row is marked first, or it alone is.        *)
MarkNewestFirst(p) == \E s \in todo[p] : Last(s, todo[p]) /\ MarkOne(p, s)
MarkOnlyNewest(p) ==
    /\ ppc[p] = "mark"
    /\ \E s \in todo[p] : Last(s, todo[p]) /\ status' = [status EXCEPT ![s] = "delivered"]
    /\ todo' = [todo EXCEPT ![p] = {}] /\ ppc' = [ppc EXCEPT ![p] = "respond"]
    /\ UNCHANGED <<registered, now, setVars, createdAt, rowid, nextRow, batch, current, applied>>

(* One turn of the loop over the selected rows, oldest first.              *)
PollMark(p) == \E s \in todo[p] : First(s, todo[p]) /\ MarkOne(p, s)

(* The last whitelist of the batch overwrites the ones before it; an empty *)
(* one is left out of the JSON (omitempty) and the tablet keeps its list.  *)
PollAnswer(p) ==
    IF \E s \in batch[p] : Last(s, batch[p]) /\ s \notin EmptyLists
    THEN {CHOOSE s \in batch[p] : Last(s, batch[p])}
    ELSE {}

RespondAs(p, answer) ==
    /\ ppc[p] = "respond"
    /\ ppc' = [ppc EXCEPT ![p] = "idle"]
    /\ batch' = [batch EXCEPT ![p] = {}]
    /\ IF current = p
       THEN /\ current' = None
            /\ applied' \in (IF answer = {} THEN {applied} ELSE answer)
       ELSE UNCHANGED <<current, applied>>
    /\ UNCHANGED <<registered, now, setVars, rowVars, todo>>

(* Faulty variant: the first whitelist of the batch wins.                  *)
RespondOldest(p) == RespondAs(p, {s \in batch[p] : First(s, batch[p])} \ EmptyLists)

PollRespond(p) == RespondAs(p, PollAnswer(p))

GiveUp ==
    /\ Lossy /\ current # None
    /\ current' = None
    /\ UNCHANGED <<registered, now, setVars, rowVars, pollVars, applied>>

(* The hub is restarted: open requests are gone, the tables stay.          *)
Crash ==
    /\ Crashes
    /\ wpc' = [s \in Sets |-> IF wpc[s] = "insert" THEN "refused" ELSE wpc[s]]
    /\ ppc' = [p \in Polls |-> "idle"]
    /\ batch' = [p \in Polls |-> {}] /\ todo' = [p \in Polls |-> {}]
    /\ current' = None
    /\ UNCHANGED <<registered, now, seen, rowVars, applied>>
-----------------------------------------------------------------------------
SetWhitelist(s) == SetBegin(s) \/ SetPush(s)
PollCommands(p) == PollSelect(p) \/ PollMark(p) \/ PollRespond(p)

MailboxNext ==
    \/ \E s \in Sets : SetWhitelist(s)
    \/ \E p \in Polls : PollBegin(p) \/ PollCommands(p)
    \/ Tick \/ DeleteTablet \/ GiveUp \/ Crash

MailboxSpec == MailboxInit /\ [][MailboxNext]_mailboxVars

(* The tablet polls every 30 seconds, and a handler that started goes on.  *)
MailboxFairSpec ==
    /\ MailboxSpec
    /\ WF_mailboxVars(\E p \in Polls : PollBegin(p))
    /\ \A p \in Polls : WF_mailboxVars(PollCommands(p))
-----------------------------------------------------------------------------
(* Whatever polls were given up and wherever a restart cut one short, no   *)
(* whitelist is left waiting in the mailbox behind a delivered one that an *)
(* administrator set after it: rows leave the mailbox oldest first, except *)
(* those that could not be marked.                                         *)
OldestFirst ==
    \A t \in Sets : status[t] = "delivered" =>
        \A s \in seen[t] \ Unmarkable : status[s] = "delivered"

(* The tablet never goes back: once it applied a whitelist, it does not    *)
(* apply one that was already stored when that one was requested, unless   *)
(* that one's row could not be marked and comes back with every poll.      *)
NeverReverts ==
    [][applied' # applied /\ applied # None =>
          applied' \notin seen[applied] \ Unmarkable]_mailboxVars

(* A whitelist that the hub accepted reaches the tablet, or a later one    *)
(* does, or the tablet is removed from the hub.                            *)
WhitelistReachesTablet ==
    \A s \in Sets :
        status[s] = "pending" ~>
            \/ ~registered \/ applied = s
            \/ applied # None /\ Before(s, applied)
=============================================================================
