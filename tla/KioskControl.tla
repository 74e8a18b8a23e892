---------------------------- MODULE KioskControl -----------------------------
(***************************************************************************)
(* Commands to tablets over HTTP (services/kiosk_service.go and            *)
(* clients/kiosk_client.go), the forms that give them                      *)
(* (api/html_tablet.go), and the groups of tablets (api/html_groups.go,    *)
(* repositories/group.go).  A call resolves its target to a list of        *)
(* tablets, starts one goroutine for each, waits for all of them and       *)
(* reports.  PINs go over MQTT when the link is up, else over HTTP; a bulk *)
(* change takes its tablets one after the other.                           *)
(*                                                                         *)
(* One action is one statement, one exchange with a tablet or one critical *)
(* section.  Any statement may fail.  A tablet that was added is never     *)
(* deleted.  What a tablet does with a request is external.                *)
(***************************************************************************)
EXTENDS Naturals, Sequences, FiniteSets

CONSTANTS
    Tablets,        \* the rows of the table tablets
    Unknown,        \* ids without a row
    Groups, Toggles, Calls,
    Uploads,        \* uploads of one sound; different names do not interact
    BulkLists,      \* the lists of ids that a bulk change may name
    None,           \* no target yet
    RequestTimesOut \* every HTTP request ends

Ids == Tablets \cup Unknown

ASSUME TabletsAssumption == IsFiniteSet(Tablets)
ASSUME TargetsDiffer == Groups \cap Ids = {} /\ None \notin Ids \cup Groups
ASSUME BulkAssumption == BulkLists \subseteq Seq(Ids)
ASSUME TimeoutAssumption == RequestTimesOut \in BOOLEAN

VARIABLES
    created, groups,    \* ids that were used (AUTOINCREMENT), rows of groups
    member,             \* rows of tablet_groups
    fk,                 \* the connection in use enforces foreign keys
    tog, pair,          \* a toggle's next step and its tablet and group
    pc, kind, goal,     \* a call's next step, how it is confirmed, its target
    list,               \* the tablets it resolved to
    lane, result,       \* its goroutines and report.Results, by index
    tally,              \* how many of the list succeeded and failed
    performed,          \* <<c, t>>: tablet t did what call c asks
    sound, up           \* the sound's file in the library, each upload's next step

groupVars == <<created, groups, member, fk>>
toggleVars == <<tog, pair>>
callVars == <<pc, kind, goal, list, lane, result, tally>>
soundVars == <<sound, up>>
vars == <<groupVars, toggleVars, callVars, performed, soundVars>>

Kinds == {"confirmed", "fired", "status", "pin"}
Lane == {"asked", "yes", "no", "lost", "stored"}

TypeOK ==
    /\ created \subseteq Groups /\ groups \subseteq created
    /\ member \subseteq Ids \X Groups
    /\ fk \in BOOLEAN
    /\ tog \in [Toggles -> {"idle", "add", "remove", "done"}]
    /\ pair \in [Toggles -> (Ids \cup {None}) \X (Groups \cup {None})]
    /\ pc \in [Calls -> {"idle", "resolve", "run", "pin", "bulk", "done"}]
    /\ kind \in [Calls -> Kinds]
    /\ goal \in [Calls -> Ids \cup Groups \cup {None}]
    /\ list \in [Calls -> Seq(Ids)]
    /\ lane \in [Calls -> Seq(Lane)]
    /\ result \in [Calls -> Seq({"none", "executed", "failed"})]
    /\ \A c \in Calls : Len(result[c]) = Len(lane[c])
    /\ tally \in [Calls -> [ok: Nat, bad: Nat]]
    /\ performed \subseteq Calls \X Tablets
    /\ sound \in {"none", "part", "whole"} /\ up \in [Uploads -> {"idle", "copy", "done"}]

Init ==
    /\ created = {} /\ groups = {} /\ member = {} /\ fk = TRUE
    /\ tog = [q \in Toggles |-> "idle"]
    /\ pair = [q \in Toggles |-> <<None, None>>]
    /\ pc = [c \in Calls |-> "idle"]
    /\ kind = [c \in Calls |-> "fired"]
    /\ goal = [c \in Calls |-> None]
    /\ list = [c \in Calls |-> <<>>]
    /\ lane = [c \in Calls |-> <<>>]
    /\ result = [c \in Calls |-> <<>>]
    /\ tally = [c \in Calls |-> [ok |-> 0, bad |-> 0]]
    /\ performed = {}
    /\ sound = "none" /\ up = [u \in Uploads |-> "idle"]

-----------------------------------------------------------------------------
(* Groups *)

CreateRow(g) ==
    /\ g \notin created
    /\ created' = created \cup {g}
    /\ groups' = groups \cup {g}

DeleteRow(g) ==
    /\ groups' = groups \ {g}
    /\ member' = IF fk THEN {m \in member : m[2] # g} ELSE member

GetGroupsByTablet(t) == {g \in groups : <<t, g>> \in member}

GetTabletsByGroup(g) == {t \in Tablets : <<t, g>> \in member}

\* Faulty variant: the table has no foreign keys.
AddUnchecked(t, g) == member' = member \cup {<<t, g>>}

\* INSERT OR IGNORE: a duplicate is left alone, a foreign key still refuses.
AddTabletToGroup(t, g) ==
    member' = IF fk => (t \in Tablets /\ g \in groups) THEN member \cup {<<t, g>>}
                                                       ELSE member

RemoveTabletFromGroup(t, g) == member' = member \ {<<t, g>>}

\* A group with an id is updated: its name and color, which nothing depends on.
HandleSaveGroup(g) ==
    /\ CreateRow(g)
    /\ UNCHANGED <<member, fk, toggleVars, callVars, performed, soundVars>>

HandleDeleteGroup(g) ==
    /\ g \in groups
    /\ DeleteRow(g)
    /\ UNCHANGED <<created, fk, toggleVars, callVars, performed, soundVars>>

\* The lifetime of the first connection ends; no other one enforces keys.
RecycleConnection ==
    /\ fk' = FALSE
    /\ UNCHANGED <<created, groups, member, toggleVars, callVars, performed, soundVars>>

\* A query that fails is taken for "in no group".
ToggleRead(q, t, g) ==
    /\ tog[q] = "idle"
    /\ pair' = [pair EXCEPT ![q] = <<t, g>>]
    /\ \/ g \in GetGroupsByTablet(t) /\ tog' = [tog EXCEPT ![q] = "remove"]
       \/ tog' = [tog EXCEPT ![q] = "add"]
    /\ UNCHANGED <<groupVars, callVars, performed, soundVars>>

ToggleWrite(q) ==
    LET t == pair[q][1]  g == pair[q][2] IN
    /\ \/ tog[q] = "remove" /\ RemoveTabletFromGroup(t, g)
       \/ tog[q] = "add" /\ AddTabletToGroup(t, g)
       \/ tog[q] \in {"add", "remove"} /\ UNCHANGED member
    /\ tog' = [tog EXCEPT ![q] = "done"]
    /\ UNCHANGED <<created, groups, fk, pair, callVars, performed, soundVars>>

HandleToggleGroup(q) ==
    ToggleWrite(q) \/ \E t \in Ids, g \in created : ToggleRead(q, t, g)

-----------------------------------------------------------------------------
(* The engine of kiosk_service.go *)

elsewhere == <<groupVars, toggleVars, soundVars>>

\* Bad input, or a target that cannot be found: nothing is sent.
Refuse(c, at) ==
    /\ pc[c] = at
    /\ pc' = [pc EXCEPT ![c] = "done"]
    /\ UNCHANGED <<kind, goal, list, lane, result, tally, performed, elsewhere>>

Ask(c, target, k) ==
    /\ pc[c] = "idle"
    /\ pc' = [pc EXCEPT ![c] = "resolve"]
    /\ goal' = [goal EXCEPT ![c] = target]
    /\ kind' = [kind EXCEPT ![c] = k]
    /\ UNCHANGED <<list, lane, result, tally, performed, elsewhere>>

\* The orders in which a query may return a set of rows.
Listings(S) == {l \in [1..Cardinality(S) -> S] : \A t \in S : \E i \in DOMAIN l : l[i] = t}

\* No handler gives the addresses of its tablets instead of an id.
Resolved(target) ==
    IF target \in Groups THEN Listings(GetTabletsByGroup(target)) \ {<<>>}
                         ELSE {<<t>> : t \in {target} \cap Tablets}

ResolveTablets(c) ==
    \/ /\ pc[c] = "resolve"
       /\ \E l \in Resolved(goal[c]) :
             /\ list' = [list EXCEPT ![c] = l]
             /\ lane' = [lane EXCEPT ![c] = [i \in DOMAIN l |-> "asked"]]
             /\ result' = [result EXCEPT ![c] = [i \in DOMAIN l |-> "none"]]
       /\ pc' = [pc EXCEPT ![c] = "run"]
       /\ UNCHANGED <<kind, goal, tally, performed, elsewhere>>
    \/ Refuse(c, "resolve")

\* The tablet acts or not, and says so, declines, or is not heard.
Exchange(c, i) ==
    /\ pc[c] = "run" /\ i \in DOMAIN lane[c] /\ lane[c][i] = "asked"
    /\ \/ /\ performed' = performed \cup {<<c, list[c][i]>>}
          /\ \E reply \in {"yes", "lost"} : lane' = [lane EXCEPT ![c][i] = reply]
       \/ /\ \E reply \in {"no", "lost"} : lane' = [lane EXCEPT ![c][i] = reply]
          /\ UNCHANGED performed
    /\ UNCHANGED <<pc, kind, goal, list, result, tally, elsewhere>>

\* postJSON: the tablet must say that it executed the command.
Confirmed(reply) == reply = "yes"

\* The other commands succeed with any answer, an HTTP error included.
Fired(reply) == reply # "lost"

\* FetchStatus of the client: a status arrived, and it says that all is well.
Fetched(reply) == reply = "yes"

Executed(k, reply) ==
    CASE k = "confirmed" -> Confirmed(reply)
      [] k = "status" -> Fetched(reply)
      [] OTHER -> Fired(reply)

\* Faulty variant: results are put where the next free place is.
StoreNext(c, i) ==
    LET next == 1 + Cardinality({j \in DOMAIN lane[c] : lane[c][j] = "stored"}) IN
    /\ pc[c] = "run" /\ i \in DOMAIN lane[c] /\ lane[c][i] \in {"yes", "no", "lost"}
    /\ result' = [result EXCEPT ![c][next] =
                     IF Executed(kind[c], lane[c][i]) THEN "executed" ELSE "failed"]
    /\ lane' = [lane EXCEPT ![c][i] = "stored"]
    /\ UNCHANGED <<pc, kind, goal, list, tally, performed, elsewhere>>

\* Faulty variant: results are appended to the slice that was made full length.
StoreAppended(c, i) ==
    /\ pc[c] = "run" /\ i \in DOMAIN lane[c] /\ lane[c][i] \in {"yes", "no", "lost"}
    /\ result' = [result EXCEPT ![c] =
                     Append(@, IF Executed(kind[c], lane[c][i]) THEN "executed" ELSE "failed")]
    /\ lane' = [lane EXCEPT ![c][i] = "stored"]
    /\ UNCHANGED <<pc, kind, goal, list, tally, performed, elsewhere>>

\* Faulty variant: a goroutine that failed does not say that it is done.
StoreExecuted(c, i) ==
    /\ pc[c] = "run" /\ i \in DOMAIN lane[c] /\ lane[c][i] \in {"yes", "no", "lost"}
    /\ Executed(kind[c], lane[c][i])
    /\ result' = [result EXCEPT ![c][i] = "executed"]
    /\ lane' = [lane EXCEPT ![c][i] = "stored"]
    /\ UNCHANGED <<pc, kind, goal, list, tally, performed, elsewhere>>

StoreResult(c, i) ==
    /\ pc[c] = "run" /\ i \in DOMAIN lane[c] /\ lane[c][i] \in {"yes", "no", "lost"}
    /\ result' = [result EXCEPT ![c][i] =
                     IF Executed(kind[c], lane[c][i]) THEN "executed" ELSE "failed"]
    /\ lane' = [lane EXCEPT ![c][i] = "stored"]
    /\ UNCHANGED <<pc, kind, goal, list, tally, performed, elsewhere>>

\* wg.Wait, and the count of the results; a status report has no counts.
Report(c) ==
    LET count(v) == Cardinality({i \in DOMAIN result[c] : result[c][i] = v}) IN
    /\ pc[c] = "run" /\ \A i \in DOMAIN lane[c] : lane[c][i] = "stored"
    /\ \/ kind[c] = "status" /\ UNCHANGED tally
       \/ /\ kind[c] # "status"
          /\ tally' = [tally EXCEPT ![c] = [ok |-> count("executed"), bad |-> count("failed")]]
    /\ pc' = [pc EXCEPT ![c] = "done"]
    /\ UNCHANGED <<kind, goal, list, lane, result, performed, elsewhere>>

ExecuteAndWait(c) ==
    \/ ResolveTablets(c) \/ Report(c)
    \/ \E i \in DOMAIN lane[c] : Exchange(c, i) \/ StoreResult(c, i)

\* The same fan-out, but what comes back is the tablet's status.
FetchStatus(c, target) == Ask(c, target, "status")

Beep(c, t) == Ask(c, t, "fired")
Reload(c, t) == Ask(c, t, "fired")
Reboot(c, t) == Ask(c, t, "fired")
Wake(c, t) == Ask(c, t, "fired")
SetScreen(c, t) == Ask(c, t, "fired")
SetScreensaver(c, t) == Ask(c, t, "fired")
StopAudio(c, t) == Ask(c, t, "fired")
SendRemoteCommand(c, t) == Ask(c, t, "fired")
Navigate(c, t) == Ask(c, t, "confirmed")
PlayAudio(c, t) == Ask(c, t, "confirmed")

-----------------------------------------------------------------------------
(* The handlers of html_tablet.go; t is what the id in the path parses to. *)

HandleBeep(c, t) == Refuse(c, "idle") \/ Beep(c, t)
HandleReload(c, t) == Refuse(c, "idle") \/ Reload(c, t)
HandleReboot(c, t) == Refuse(c, "idle") \/ Reboot(c, t)
HandleWakeUp(c, t) == Refuse(c, "idle") \/ Wake(c, t)
HandleNavigate(c, t) == Refuse(c, "idle") \/ Navigate(c, t)
HandleScreenStatus(c, t) == Refuse(c, "idle") \/ SetScreen(c, t)
HandleScreenSaver(c, t) == Refuse(c, "idle") \/ SetScreensaver(c, t)
\* Any address is taken, whether or not the library lists a sound there.
HandlePlaySound(c, t) == PlayAudio(c, t)
HandleStopSound(c, t) == StopAudio(c, t)
HandleGtslTTSSound(c, t) == Refuse(c, "idle") \/ PlayAudio(c, t)

\* The commands of the service that no form gives yet, to a tablet or a group.
ServiceCall(c, target) == \E k \in {"confirmed", "fired"} : Ask(c, target, k)

PinTo(c, l, step) ==
    /\ pc[c] = "idle"
    /\ pc' = [pc EXCEPT ![c] = step]
    /\ list' = [list EXCEPT ![c] = l]
    /\ kind' = [kind EXCEPT ![c] = "pin"]
    /\ UNCHANGED <<goal, lane, result, tally, performed, elsewhere>>

\* Over MQTT if the link is up, else over HTTP.
HandleSetPin(c, t) ==
    \/ Refuse(c, "idle")
    \/ t \in Tablets /\ PinTo(c, <<t>>, "pin")
    \/ t \in Tablets /\ SendRemoteCommand(c, t)

HandleBulkSetPin(c, l) == Refuse(c, "idle") \/ (l # <<>> /\ PinTo(c, l, "bulk"))

Done(c) == tally[c].ok + tally[c].bad

Succeeds(c) == tally' = [tally EXCEPT ![c].ok = @ + 1]
Fails(c) == tally' = [tally EXCEPT ![c].bad = @ + 1]

\* The MQTT service's SendCommand: the device may have acted although it failed.
\* Over HTTP the bulk change looks at no result: it fails if the lookup does.
SendPin(c, t) ==
    /\ t \in Tablets
    /\ performed' \in {performed, performed \cup {<<c, t>>}}
    /\ Succeeds(c) \/ Fails(c)

PinStep(c) ==
    /\ pc[c] = "pin"
    /\ SendPin(c, list[c][1])
    /\ pc' = [pc EXCEPT ![c] = "done"]
    /\ UNCHANGED <<kind, goal, list, lane, result, elsewhere>>

BulkStep(c) ==
    /\ pc[c] = "bulk"
    /\ \/ /\ Done(c) < Len(list[c])
          /\ SendPin(c, list[c][Done(c) + 1]) \/ (Fails(c) /\ UNCHANGED performed)
          /\ UNCHANGED pc
       \/ /\ Done(c) = Len(list[c])
          /\ pc' = [pc EXCEPT ![c] = "done"]
          /\ UNCHANGED <<tally, performed>>
    /\ UNCHANGED <<kind, goal, list, lane, result, elsewhere>>

-----------------------------------------------------------------------------
(* The library of sounds *)

\* os.Create: the name is listed from now on, and what it named is cut to nothing.
CreateFile(u) ==
    /\ up[u] = "idle"
    /\ up' = [up EXCEPT ![u] = "copy"]
    /\ sound' = "part"
    /\ UNCHANGED <<groupVars, toggleVars, callVars, performed>>

\* A copy that fails leaves what it has written; another upload may still be at it.
CopyFile(u) ==
    /\ up[u] = "copy"
    /\ up' = [up EXCEPT ![u] = "done"]
    /\ sound' \in {"part", "whole"}
    /\ UNCHANGED <<groupVars, toggleVars, callVars, performed>>

\* A file that is missing or no sound is refused and changes nothing.
HandleUploadSound(u) == CreateFile(u) \/ CopyFile(u)

-----------------------------------------------------------------------------
Form(c) ==
    \/ \E t \in Ids :
          \/ HandleBeep(c, t) \/ HandleReload(c, t) \/ HandleReboot(c, t)
          \/ HandleWakeUp(c, t) \/ HandleNavigate(c, t) \/ HandleScreenStatus(c, t)
          \/ HandleScreenSaver(c, t) \/ HandlePlaySound(c, t) \/ HandleStopSound(c, t)
          \/ HandleGtslTTSSound(c, t) \/ HandleSetPin(c, t)
    \/ \E l \in BulkLists : HandleBulkSetPin(c, l)
    \/ \E target \in Ids \cup Groups : ServiceCall(c, target) \/ FetchStatus(c, target)

Next ==
    \/ \E g \in Groups : HandleSaveGroup(g) \/ HandleDeleteGroup(g)
    \/ \E q \in Toggles : HandleToggleGroup(q)
    \/ RecycleConnection
    \/ \E u \in Uploads : HandleUploadSound(u)
    \/ \E c \in Calls : Form(c) \/ ExecuteAndWait(c) \/ PinStep(c) \/ BulkStep(c)

Spec == Init /\ [][Next]_vars

\* The goroutines run and statements return; a request ends if it has a timeout.
Fairness ==
    \A c \in Calls :
        /\ WF_vars(ResolveTablets(c)) /\ WF_vars(Report(c))
        /\ WF_vars(PinStep(c)) /\ WF_vars(BulkStep(c))
        /\ \A i \in 1..Cardinality(Tablets) :
              /\ RequestTimesOut => WF_vars(Exchange(c, i))
              /\ WF_vars(StoreResult(c, i))

FairSpec == Spec /\ Fairness

-----------------------------------------------------------------------------
\* What a finished call reports of a tablet is about that tablet, whatever the
\* order in which the goroutines return: there is a result for each, and where
\* the command has to be confirmed, or a status read, a success that is
\* reported took place (executeAndWait, FetchStatus).  Its counts of successes
\* and failures add up to the tablets it was for (also HandleBulkSetPin).
ReportTellsTruth ==
    \A c \in Calls : pc[c] = "done" =>
        /\ \A i \in DOMAIN result[c] :
              /\ result[c][i] # "none"
              /\ result[c][i] = "executed" /\ kind[c] \in {"confirmed", "status"} =>
                    <<c, list[c][i]>> \in performed
        /\ kind[c] # "status" => Done(c) = Len(list[c])

\* A group that was deleted between the read and the write of a toggle gets no
\* members, and none outlive their group (HandleToggleGroup, while foreign keys
\* are enforced).
MembersBelong == fk => member \subseteq Tablets \X groups

\* Every call is answered, also with tablets that fail or stay silent.
CallAnswers == \A c \in Calls : pc[c] # "idle" ~> pc[c] = "done"
=============================================================================
