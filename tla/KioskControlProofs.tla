------------------------- MODULE KioskControlProofs --------------------------
(***************************************************************************)
(* Proofs about KioskControl, for any number of tablets, groups, toggles   *)
(* and calls: a report is true and complete, however the goroutines of a   *)
(* call are scheduled, and no member of a group outlives it.               *)
(***************************************************************************)
EXTENDS KioskControl, FiniteSetTheorems, SequenceTheorems, TLAPS

(* A toggle that is about to write has a tablet and a group in hand.       *)
ToggleInv == \A q \in Toggles : tog[q] \in {"add", "remove"} => pair[q] \in Ids \X Groups

(* Only a call that runs or ran has goroutines, one for each tablet.       *)
StageInv(c) ==
    /\ lane[c] # <<>> => pc[c] \in {"run", "done"} /\ Len(lane[c]) = Len(list[c])
    /\ pc[c] = "run" => list[c] \in Seq(Tablets) /\ Len(lane[c]) = Len(list[c])
    /\ pc[c] \in {"idle", "resolve"} => list[c] = <<>>

(* Each goroutine: an answer that confirms comes from a tablet that acted, *)
(* what is stored is about the goroutine's own tablet, and a call that is  *)
(* done has waited for all of them.                                        *)
LaneInv(c) ==
    \A i \in DOMAIN lane[c] :
        /\ lane[c][i] = "yes" => <<c, list[c][i]>> \in performed
        /\ lane[c][i] = "stored" =>
              /\ result[c][i] # "none"
              /\ result[c][i] = "executed" /\ kind[c] \in {"confirmed", "status"} =>
                    <<c, list[c][i]>> \in performed
        /\ pc[c] = "done" => lane[c][i] = "stored"

(* The counts: a bulk change has counted the tablets it has come to.       *)
TallyInv(c) ==
    /\ pc[c] \in {"idle", "resolve", "run", "pin"} => Done(c) = 0
    /\ pc[c] = "pin" => Len(list[c]) = 1
    /\ pc[c] = "bulk" => Done(c) <= Len(list[c])
    /\ pc[c] = "done" /\ kind[c] # "status" => Done(c) = Len(list[c])

CallInv(c) == StageInv(c) /\ LaneInv(c) /\ TallyInv(c)

KioskInv == TypeOK /\ ToggleInv /\ \A c \in Calls : CallInv(c)
-----------------------------------------------------------------------------
(* What a call resolves its target to are tablets.                         *)
LEMMA ResolvedTablets ==
    ASSUME NEW target, NEW l \in Resolved(target)
    PROVE  l \in Seq(Tablets)
<1>1. CASE target \in Groups
  <2> DEFINE S == GetTabletsByGroup(target)
  <2>1. S \subseteq Tablets
    BY DEF GetTabletsByGroup
  <2>2. Cardinality(S) \in Nat
    BY <2>1, TabletsAssumption, FS_Subset, FS_CardinalityType DEF TabletsAssumption
  <2>3. l \in [1..Cardinality(S) -> S]
    BY <1>1 DEF Resolved, Listings
  <2>4. QED
    BY <2>1, <2>2, <2>3
<1>2. CASE target \notin Groups
  <2>1. PICK t \in {target} \cap Tablets : l = <<t>>
    BY <1>2 DEF Resolved
  <2>2. QED
    BY <2>1
<1>3. QED
  BY <1>1, <1>2

(* The forms and the service's interface come down to four ways to begin.  *)
LEMMA FormCases ==
    ASSUME NEW c \in Calls, Form(c)
    PROVE  \/ Refuse(c, "idle")
           \/ \E target \in Ids \cup Groups, k \in Kinds \ {"pin"} : Ask(c, target, k)
           \/ \E t \in Tablets : PinTo(c, <<t>>, "pin")
           \/ \E l \in Seq(Ids) : PinTo(c, l, "bulk")
<1>1. CASE \E t \in Ids : HandleSetPin(c, t)
  BY <1>1 DEF HandleSetPin, SendRemoteCommand, Kinds
<1>2. CASE \E l \in BulkLists : HandleBulkSetPin(c, l)
  BY <1>2, BulkAssumption DEF HandleBulkSetPin, BulkAssumption
<1>3. CASE \E target \in Ids \cup Groups : ServiceCall(c, target) \/ FetchStatus(c, target)
  BY <1>3 DEF ServiceCall, FetchStatus, Kinds
<1>4. CASE \E t \in Ids :
          \/ HandleBeep(c, t) \/ HandleReload(c, t) \/ HandleReboot(c, t)
          \/ HandleWakeUp(c, t) \/ HandleNavigate(c, t) \/ HandleScreenStatus(c, t)
          \/ HandleScreenSaver(c, t) \/ HandlePlaySound(c, t) \/ HandleStopSound(c, t)
          \/ HandleGtslTTSSound(c, t)
  <2>1. \A t \in Ids : \A k \in {"confirmed", "fired"} : Ask(c, t, k) =>
            \E target \in Ids \cup Groups, m \in Kinds \ {"pin"} : Ask(c, target, m)
    BY DEF Kinds
  <2>2. QED
    BY <1>4, <2>1 DEF HandleBeep, HandleReload, HandleReboot, HandleWakeUp, HandleNavigate,
       HandleScreenStatus, HandleScreenSaver, HandlePlaySound, HandleStopSound,
       HandleGtslTTSSound, Beep, Reload, Reboot, Wake, Navigate, SetScreen, SetScreensaver,
       PlayAudio, StopAudio
<1>5. QED
  BY <1>1, <1>2, <1>3, <1>4 DEF Form

(* What a step that is none of call c's, or of no call's, leaves alone.    *)
LEMMA OtherCalls ==
    ASSUME NEW c \in Calls, CallInv(c), performed \subseteq performed',
           pc'[c] = pc[c], kind'[c] = kind[c], list'[c] = list[c],
           lane'[c] = lane[c], result'[c] = result[c], tally'[c] = tally[c]
    PROVE  CallInv(c)'
  BY DEF CallInv, StageInv, LaneInv, TallyInv, Done

-----------------------------------------------------------------------------
(* Groups, toggles and uploads do not touch the calls.                     *)
LEMMA GroupStep ==
    ASSUME KioskInv, UNCHANGED <<callVars, performed>>,
           \/ \E g \in Groups : HandleSaveGroup(g) \/ HandleDeleteGroup(g)
           \/ \E q \in Toggles : HandleToggleGroup(q)
           \/ RecycleConnection
           \/ \E u \in Uploads : HandleUploadSound(u)
           \/ UNCHANGED vars
    PROVE  KioskInv'
<1> USE DEF KioskInv, callVars
<1>1. \A c \in Calls : CallInv(c)'
  BY OtherCalls
<1>2. TypeOK' /\ ToggleInv'
  <2> USE DEF TypeOK, ToggleInv, groupVars, toggleVars, soundVars
  <2>1. CASE \E g \in Groups : HandleSaveGroup(g) \/ HandleDeleteGroup(g)
    BY <2>1 DEF HandleSaveGroup, HandleDeleteGroup, CreateRow, DeleteRow
  <2>2. CASE \E q \in Toggles : HandleToggleGroup(q)
    <3>1. ASSUME NEW q \in Toggles, ToggleWrite(q) PROVE TypeOK' /\ ToggleInv'
      <4>1. tog[q] \in {"add", "remove"} /\ pair[q] \in Ids \X Groups
        BY <3>1 DEF ToggleWrite
      <4>2. pair[q] = <<pair[q][1], pair[q][2]>>
        BY <4>1
      <4>3. member' \subseteq Ids \X Groups
        BY <3>1, <4>1, <4>2 DEF ToggleWrite, RemoveTabletFromGroup, AddTabletToGroup
      <4>4. QED
        BY <3>1, <4>3 DEF ToggleWrite
    <3>2. ASSUME NEW q \in Toggles, NEW t \in Ids, NEW g \in created, ToggleRead(q, t, g)
          PROVE  TypeOK' /\ ToggleInv'
      <4>1. <<t, g>> \in Ids \X Groups /\ <<t, g>> \in (Ids \cup {None}) \X (Groups \cup {None})
        BY DEF Ids
      <4>2. QED
        BY <3>2, <4>1 DEF ToggleRead
    <3>3. QED
      BY <2>2, <3>1, <3>2 DEF HandleToggleGroup
  <2>3. CASE RecycleConnection
    BY <2>3 DEF RecycleConnection
  <2>4. CASE \E u \in Uploads : HandleUploadSound(u)
    BY <2>4 DEF HandleUploadSound, CreateFile, CopyFile
  <2>5. CASE UNCHANGED vars
    BY <2>5 DEF vars
  <2>6. QED
    BY <2>1, <2>2, <2>3, <2>4, <2>5
<1>3. QED
  BY <1>1, <1>2

(* A call begins, or is refused.                                           *)
LEMMA BeginStep ==
    ASSUME KioskInv, NEW c \in Calls, Form(c)
    PROVE  KioskInv'
<1> USE DEF KioskInv, elsewhere, groupVars, toggleVars, soundVars
<1>1. TypeOK'
  <2>1. CASE Refuse(c, "idle")
    BY <2>1 DEF Refuse, TypeOK
  <2>2. ASSUME NEW target \in Ids \cup Groups, NEW k \in Kinds, Ask(c, target, k) PROVE TypeOK'
    BY <2>2 DEF Ask, TypeOK
  <2>3. ASSUME NEW l \in Seq(Ids), NEW step \in {"pin", "bulk"}, PinTo(c, l, step) PROVE TypeOK'
    BY <2>3 DEF PinTo, TypeOK, Kinds
  <2>4. \A t \in Tablets : <<t>> \in Seq(Ids)
    BY DEF Ids
  <2>5. QED
    BY FormCases, <2>1, <2>2, <2>3, <2>4
<1>2. ToggleInv' /\ performed' = performed
  <2>1. tog' = tog /\ pair' = pair /\ performed' = performed
    BY FormCases DEF Refuse, Ask, PinTo
  <2>2. QED
    BY <2>1 DEF ToggleInv
<1>3. ASSUME NEW d \in Calls \ {c} PROVE CallInv(d)'
  <2>1. /\ pc'[d] = pc[d] /\ kind'[d] = kind[d] /\ list'[d] = list[d]
        /\ lane'[d] = lane[d] /\ result'[d] = result[d] /\ tally'[d] = tally[d]
    <3>1. UNCHANGED <<lane, result, tally>>
      BY FormCases DEF Refuse, Ask, PinTo
    <3>2. \E v : pc' = [pc EXCEPT ![c] = v]
      BY FormCases DEF Refuse, Ask, PinTo
    <3>3. kind' = kind \/ \E v : kind' = [kind EXCEPT ![c] = v]
      BY FormCases DEF Refuse, Ask, PinTo
    <3>4. list' = list \/ \E v : list' = [list EXCEPT ![c] = v]
      BY FormCases DEF Refuse, Ask, PinTo
    <3>5. QED
      BY <3>1, <3>2, <3>3, <3>4 DEF TypeOK
  <2>2. QED
    BY <1>2, <2>1, OtherCalls
<1>4. CallInv(c)'
  <2>1. /\ pc[c] = "idle" /\ lane[c] = <<>> /\ list[c] = <<>> /\ Done(c) = 0
        /\ lane' = lane /\ tally' = tally
    BY FormCases DEF Refuse, Ask, PinTo, CallInv, StageInv, TallyInv
  <2>2. \/ pc'[c] = "done" /\ list'[c] = <<>>
        \/ pc'[c] = "resolve" /\ list'[c] = <<>>
        \/ pc'[c] = "pin" /\ Len(list'[c]) = 1
        \/ pc'[c] = "bulk" /\ list'[c] \in Seq(Ids)
    BY <2>1, FormCases DEF Refuse, Ask, PinTo, TypeOK
  <2>3. StageInv(c)' /\ LaneInv(c)'
    BY <2>1, <2>2 DEF StageInv, LaneInv
  <2>4. TallyInv(c)'
    BY <2>1, <2>2 DEF TallyInv, Done
  <2>5. QED
    BY <2>3, <2>4 DEF CallInv
<1>5. QED
  BY <1>1, <1>2, <1>3, <1>4

(* The goroutines of a call start, ask, store what they heard, and end.    *)
LEMMA ResolveStep ==
    ASSUME KioskInv, NEW c \in Calls, ResolveTablets(c)
    PROVE  KioskInv'
<1> USE DEF KioskInv, elsewhere, groupVars, toggleVars, soundVars
<1>0. ToggleInv'
  BY DEF ResolveTablets, Refuse, ToggleInv
<1>1. lane[c] = <<>> /\ list[c] = <<>> /\ Done(c) = 0 /\ pc[c] = "resolve"
  BY DEF ResolveTablets, Refuse, CallInv, StageInv, TallyInv
<1>2. CASE Refuse(c, "resolve")
  <2>1. TypeOK'
    BY <1>2 DEF Refuse, TypeOK
  <2>2. ASSUME NEW d \in Calls \ {c} PROVE CallInv(d)'
    BY <1>2, OtherCalls DEF Refuse, TypeOK
  <2>3. CallInv(c)'
    BY <1>1, <1>2 DEF Refuse, TypeOK, CallInv, StageInv, LaneInv, TallyInv, Done
  <2>4. QED
    BY <1>0, <2>1, <2>2, <2>3
<1>3. CASE ~Refuse(c, "resolve")
  <2>1. PICK l \in Resolved(goal[c]) :
          /\ list' = [list EXCEPT ![c] = l]
          /\ lane' = [lane EXCEPT ![c] = [i \in DOMAIN l |-> "asked"]]
          /\ result' = [result EXCEPT ![c] = [i \in DOMAIN l |-> "none"]]
    BY <1>3 DEF ResolveTablets
  <2>2. /\ pc' = [pc EXCEPT ![c] = "run"]
        /\ UNCHANGED <<kind, goal, tally, performed, elsewhere>>
    BY <1>3 DEF ResolveTablets
  <2>3. l \in Seq(Tablets) /\ l \in Seq(Ids)
    BY ResolvedTablets, SeqMonotonic DEF Ids
  <2>4. /\ [i \in DOMAIN l |-> "asked"] \in Seq(Lane)
        /\ [i \in DOMAIN l |-> "none"] \in Seq({"none", "executed", "failed"})
        /\ Len([i \in DOMAIN l |-> "asked"]) = Len(l)
        /\ Len([i \in DOMAIN l |-> "none"]) = Len(l)
    <3>1. DOMAIN l = 1..Len(l) /\ Len(l) \in Nat
      BY <2>3
    <3>2. QED
      BY <3>1 DEF Lane
  <2>5. TypeOK'
    BY <2>1, <2>2, <2>3, <2>4 DEF TypeOK
  <2>6. ASSUME NEW d \in Calls \ {c} PROVE CallInv(d)'
    BY <2>1, <2>2, OtherCalls DEF TypeOK
  <2>7. CallInv(c)'
    <3>1. /\ pc'[c] = "run" /\ list'[c] = l /\ lane'[c] = [i \in DOMAIN l |-> "asked"]
          /\ tally' = tally
      BY <2>1, <2>2 DEF TypeOK
    <3>2. StageInv(c)' /\ TallyInv(c)'
      BY <1>1, <2>3, <2>4, <3>1 DEF StageInv, TallyInv, Done
    <3>3. LaneInv(c)'
      BY <3>1 DEF LaneInv
    <3>4. QED
      BY <3>2, <3>3 DEF CallInv
  <2>8. QED
    BY <1>0, <2>5, <2>6, <2>7
<1>4. QED
  BY <1>2, <1>3

LEMMA ExchangeStep ==
    ASSUME KioskInv, NEW c \in Calls, NEW i \in DOMAIN lane[c], Exchange(c, i)
    PROVE  KioskInv'
<1> USE DEF KioskInv, elsewhere, groupVars, toggleVars, soundVars
<1>1. PICK reply \in {"yes", "no", "lost"} :
        /\ lane' = [lane EXCEPT ![c] = [lane[c] EXCEPT ![i] = reply]]
        /\ \/ performed' = performed \cup {<<c, list[c][i]>>}
           \/ performed' = performed /\ reply # "yes"
  BY DEF Exchange, TypeOK
<1>2. /\ pc[c] = "run" /\ lane[c] \in Seq(Lane) /\ i \in 1..Len(lane[c])
      /\ list[c] \in Seq(Tablets) /\ Len(list[c]) = Len(lane[c]) /\ reply \in Lane
  BY DEF Exchange, TypeOK, CallInv, StageInv, Lane
<1>3. UNCHANGED <<pc, kind, goal, list, result, tally, elsewhere>>
  BY DEF Exchange
<1>4. list[c][i] \in Tablets
  BY <1>2, ElementOfSeq
<1> DEFINE new == [lane[c] EXCEPT ![i] = reply]
<1>5. /\ new \in Seq(Lane) /\ Len(new) = Len(lane[c])
      /\ \A j \in 1..Len(lane[c]) : new[j] = IF j = i THEN reply ELSE lane[c][j]
  BY <1>2, ExceptSeq
<1>6. TypeOK'
  BY <1>1, <1>3, <1>4, <1>5 DEF TypeOK
<1>7. ASSUME NEW d \in Calls \ {c} PROVE CallInv(d)'
  BY <1>1, <1>3, OtherCalls DEF TypeOK
<1>8. CallInv(c)'
  <2>1. lane'[c] = new /\ DOMAIN new = DOMAIN lane[c] /\ DOMAIN lane[c] = 1..Len(lane[c])
    BY <1>1, <1>2 DEF TypeOK
  <2>2. StageInv(c)' /\ TallyInv(c)'
    BY <1>2, <1>3, <1>5, <2>1 DEF CallInv, StageInv, TallyInv, Done
  <2>3. performed \subseteq performed' /\ (reply = "yes" => <<c, list[c][i]>> \in performed')
    BY <1>1
  <2>4. LaneInv(c)'
    <3> SUFFICES ASSUME NEW j \in 1..Len(lane[c])
                 PROVE  /\ new[j] = "yes" => <<c, list[c][j]>> \in performed'
                        /\ new[j] = "stored" =>
                              /\ result[c][j] # "none"
                              /\ result[c][j] = "executed" /\ kind[c] \in {"confirmed", "status"} =>
                                    <<c, list[c][j]>> \in performed'
      BY <1>2, <1>3, <2>1 DEF LaneInv
    <3>1. CASE j = i
      BY <1>5, <2>3, <3>1
    <3>2. CASE j # i
      <4>1. new[j] = lane[c][j]
        BY <1>5, <3>2
      <4>2. /\ lane[c][j] = "yes" => <<c, list[c][j]>> \in performed
            /\ lane[c][j] = "stored" =>
                  /\ result[c][j] # "none"
                  /\ result[c][j] = "executed" /\ kind[c] \in {"confirmed", "status"} =>
                        <<c, list[c][j]>> \in performed
        BY <2>1 DEF CallInv, LaneInv
      <4> HIDE DEF new
      <4>3. QED
        BY <2>3, <4>1, <4>2
    <3>3. QED
      BY <3>1, <3>2
  <2>5. QED
    BY <2>2, <2>4 DEF CallInv
<1>9. QED
  BY <1>3, <1>6, <1>7, <1>8 DEF ToggleInv

LEMMA StoreStep ==
    ASSUME KioskInv, NEW c \in Calls, NEW i \in DOMAIN lane[c], StoreResult(c, i)
    PROVE  KioskInv'
<1> USE DEF KioskInv, elsewhere, groupVars, toggleVars, soundVars
<1> DEFINE verdict == IF Executed(kind[c], lane[c][i]) THEN "executed" ELSE "failed"
           newLane == [lane[c] EXCEPT ![i] = "stored"]
           newResult == [result[c] EXCEPT ![i] = verdict]
           Verdicts == {"none", "executed", "failed"}
<1>1. lane' = [lane EXCEPT ![c] = newLane] /\ result' = [result EXCEPT ![c] = newResult]
  BY DEF StoreResult
<1>2. /\ pc[c] = "run" /\ lane[c] \in Seq(Lane) /\ result[c] \in Seq(Verdicts)
      /\ i \in 1..Len(lane[c]) /\ Len(result[c]) = Len(lane[c])
      /\ "stored" \in Lane /\ verdict \in Verdicts
  BY DEF StoreResult, TypeOK, Lane
<1>3. UNCHANGED <<pc, kind, goal, list, tally, performed, elsewhere>>
  BY DEF StoreResult
<1>4. /\ newLane \in Seq(Lane) /\ Len(newLane) = Len(lane[c])
      /\ \A j \in 1..Len(lane[c]) : newLane[j] = IF j = i THEN "stored" ELSE lane[c][j]
  BY <1>2, ExceptSeq
<1>5. /\ newResult \in Seq(Verdicts) /\ Len(newResult) = Len(result[c])
      /\ \A j \in 1..Len(result[c]) : newResult[j] = IF j = i THEN verdict ELSE result[c][j]
  <2> HIDE DEF verdict, Verdicts
  <2> QED
    BY <1>2, ExceptSeq
<1>6. TypeOK'
  BY <1>1, <1>2, <1>3, <1>4, <1>5 DEF TypeOK
<1>7. ASSUME NEW d \in Calls \ {c} PROVE CallInv(d)'
  BY <1>1, <1>3, OtherCalls DEF TypeOK
<1>8. CallInv(c)'
  <2>1. /\ lane'[c] = newLane /\ result'[c] = newResult
        /\ DOMAIN newLane = DOMAIN lane[c] /\ DOMAIN lane[c] = 1..Len(lane[c])
    BY <1>1, <1>2 DEF TypeOK
  <2>2. StageInv(c)' /\ TallyInv(c)'
    BY <1>2, <1>3, <1>4, <2>1 DEF CallInv, StageInv, TallyInv, Done
  <2>3. verdict = "executed" /\ kind[c] \in {"confirmed", "status"} => lane[c][i] = "yes"
    BY DEF Executed, Confirmed, Fetched
  <2>4. <<c, list[c][i]>> \in performed \/ lane[c][i] # "yes"
    BY DEF CallInv, LaneInv
  <2>5. LaneInv(c)'
    <3> SUFFICES ASSUME NEW j \in 1..Len(lane[c])
                 PROVE  /\ newLane[j] = "yes" => <<c, list[c][j]>> \in performed
                        /\ newLane[j] = "stored" =>
                              /\ newResult[j] # "none"
                              /\ newResult[j] = "executed" /\ kind[c] \in {"confirmed", "status"} =>
                                    <<c, list[c][j]>> \in performed
      BY <1>2, <1>3, <2>1 DEF LaneInv
    <3>1. CASE j = i
      BY <1>2, <1>4, <1>5, <2>3, <2>4, <3>1
    <3>2. CASE j # i
      <4>1. newLane[j] = lane[c][j] /\ newResult[j] = result[c][j]
        BY <1>2, <1>4, <1>5, <3>2
      <4>2. /\ lane[c][j] = "yes" => <<c, list[c][j]>> \in performed
            /\ lane[c][j] = "stored" =>
                  /\ result[c][j] # "none"
                  /\ result[c][j] = "executed" /\ kind[c] \in {"confirmed", "status"} =>
                        <<c, list[c][j]>> \in performed
        BY <2>1 DEF CallInv, LaneInv
      <4> HIDE DEF newLane, newResult
      <4>3. QED
        BY <4>1, <4>2
    <3>3. QED
      BY <3>1, <3>2
  <2>6. QED
    BY <2>2, <2>5 DEF CallInv
<1>9. QED
  BY <1>3, <1>6, <1>7, <1>8 DEF ToggleInv

(* Results that are all there are successes or failures.                   *)
LEMMA CountsOfResults ==
    ASSUME NEW s \in Seq({"none", "executed", "failed"}), \A i \in DOMAIN s : s[i] # "none"
    PROVE  LET count(v) == Cardinality({i \in DOMAIN s : s[i] = v}) IN
           /\ count("executed") \in Nat /\ count("failed") \in Nat
           /\ count("executed") + count("failed") = Len(s)
<1> DEFINE E == {i \in DOMAIN s : s[i] = "executed"}
           F == {i \in DOMAIN s : s[i] = "failed"}
<1>1. DOMAIN s = 1..Len(s) /\ Len(s) \in Nat
  OBVIOUS
<1>2. IsFiniteSet(1..Len(s)) /\ Cardinality(1..Len(s)) = Len(s)
  BY <1>1, FS_Interval
<1>3. E \cup F = 1..Len(s) /\ E \cap F = {} /\ E \subseteq 1..Len(s) /\ F \subseteq 1..Len(s)
  BY <1>1
<1>4. IsFiniteSet(E) /\ IsFiniteSet(F)
  BY <1>2, <1>3, FS_Subset
<1>5. Cardinality(E) \in Nat /\ Cardinality(F) \in Nat
  BY <1>4, FS_CardinalityType
<1>6. Cardinality(E \cup F) = Cardinality(E) + Cardinality(F) - Cardinality(E \cap F)
  BY <1>4, FS_Union
<1> HIDE DEF E, F
<1>7. Cardinality(E) + Cardinality(F) = Len(s)
  <2>1. Cardinality(E \cap F) = 0 /\ Cardinality(E \cup F) = Len(s)
    BY <1>2, <1>3, FS_EmptySet
  <2>2. QED
    BY <1>5, <1>6, <2>1
<1> USE DEF E, F
<1>8. QED
  BY <1>5, <1>7

LEMMA ReportStep ==
    ASSUME KioskInv, NEW c \in Calls, Report(c)
    PROVE  KioskInv'
<1> USE DEF KioskInv, elsewhere, groupVars, toggleVars, soundVars
<1> DEFINE count(v) == Cardinality({i \in DOMAIN result[c] : result[c][i] = v})
<1>1. /\ pc[c] = "run" /\ \A i \in DOMAIN lane[c] : lane[c][i] = "stored"
      /\ pc' = [pc EXCEPT ![c] = "done"]
      /\ UNCHANGED <<kind, goal, list, lane, result, performed, elsewhere>>
  BY DEF Report
<1>2. \/ kind[c] = "status" /\ tally' = tally
      \/ tally' = [tally EXCEPT ![c] = [ok |-> count("executed"), bad |-> count("failed")]]
  BY DEF Report
<1>3. /\ result[c] \in Seq({"none", "executed", "failed"}) /\ lane[c] \in Seq(Lane)
      /\ Len(result[c]) = Len(lane[c]) /\ Len(lane[c]) = Len(list[c])
      /\ DOMAIN result[c] = DOMAIN lane[c]
  BY <1>1 DEF TypeOK, CallInv, StageInv
<1>4. \A i \in DOMAIN result[c] : result[c][i] # "none"
  BY <1>1, <1>3 DEF CallInv, LaneInv
<1>5. /\ count("executed") \in Nat /\ count("failed") \in Nat
      /\ count("executed") + count("failed") = Len(list[c])
  BY <1>3, <1>4, CountsOfResults
<1> HIDE DEF count
<1>6. TypeOK'
  <2>1. [ok |-> count("executed"), bad |-> count("failed")] \in [ok : Nat, bad : Nat]
    BY <1>5
  <2>2. tally \in [Calls -> [ok : Nat, bad : Nat]]
    BY DEF TypeOK
  <2>3. tally' \in [Calls -> [ok : Nat, bad : Nat]]
    BY <1>2, <2>1, <2>2
  <2>4. QED
    BY <1>1, <2>3 DEF TypeOK
<1>7. ASSUME NEW d \in Calls \ {c} PROVE CallInv(d)'
  <2>1. pc'[d] = pc[d] /\ tally'[d] = tally[d]
    BY <1>1, <1>2 DEF TypeOK
  <2>2. QED
    BY <1>1, <2>1, OtherCalls
<1>8. CallInv(c)'
  <2>1. pc'[c] = "done" /\ UNCHANGED <<kind, list, lane, result, performed>>
    BY <1>1 DEF TypeOK
  <2>2. StageInv(c)' /\ LaneInv(c)'
    <3>1. lane'[c] = lane[c] /\ list'[c] = list[c] /\ CallInv(c)
      BY <2>1
    <3>2. StageInv(c)'
      BY <1>3, <2>1, <3>1 DEF StageInv
    <3>3. LaneInv(c)'
      BY <1>1, <2>1, <3>1 DEF CallInv, LaneInv
    <3>4. QED
      BY <3>2, <3>3
  <2>3. kind[c] # "status" => Done(c)' = Len(list[c])
    BY <1>2, <1>5 DEF TypeOK, Done
  <2>4. QED
    BY <2>1, <2>2, <2>3 DEF CallInv, TallyInv
<1>9. QED
  BY <1>1, <1>6, <1>7, <1>8 DEF ToggleInv

(* Changes of PINs: the tablets in hand are taken one after the other.     *)
LEMMA PinSteps ==
    ASSUME KioskInv, NEW c \in Calls, PinStep(c) \/ BulkStep(c)
    PROVE  KioskInv'
<1> USE DEF KioskInv, elsewhere, groupVars, toggleVars, soundVars
<1>1. UNCHANGED <<kind, goal, list, lane, result, elsewhere>>
  BY DEF PinStep, BulkStep
<1>2. /\ tally[c] \in [ok : Nat, bad : Nat] /\ list[c] \in Seq(Ids)
      /\ pc[c] \in {"pin", "bulk"} /\ lane[c] = <<>>
  BY DEF PinStep, BulkStep, TypeOK, CallInv, StageInv
<1>3. \/ pc' = [pc EXCEPT ![c] = "done"]
      \/ pc' = pc
  BY DEF PinStep, BulkStep
<1>4. \/ performed' = performed
      \/ \E t \in Tablets : performed' = performed \cup {<<c, t>>}
  BY DEF PinStep, BulkStep, SendPin
<1> DEFINE Tally == [ok : Nat, bad : Nat]
           Counted == \E new \in Tally : /\ tally' = [tally EXCEPT ![c] = new]
                                         /\ new.ok + new.bad = tally[c].ok + tally[c].bad + 1
<1>a. Succeeds(c) \/ Fails(c) => Counted
  <2>1. CASE Succeeds(c)
    <3> DEFINE new == [tally[c] EXCEPT !.ok = tally[c].ok + 1]
    <3>1. tally' = [tally EXCEPT ![c] = new]
      BY <2>1 DEF Succeeds
    <3>2. new \in Tally /\ new.ok + new.bad = tally[c].ok + tally[c].bad + 1
      BY <1>2
    <3>3. QED
      BY <3>1, <3>2
  <2>2. CASE Fails(c)
    <3> DEFINE new == [tally[c] EXCEPT !.bad = tally[c].bad + 1]
    <3>1. tally' = [tally EXCEPT ![c] = new]
      BY <2>2 DEF Fails
    <3>2. new \in Tally /\ new.ok + new.bad = tally[c].ok + tally[c].bad + 1
      BY <1>2
    <3>3. QED
      BY <3>1, <3>2
  <2>3. QED
    BY <2>1, <2>2
<1> HIDE DEF Counted
<1>5. \/ tally' = tally /\ pc' = [pc EXCEPT ![c] = "done"] /\ pc[c] = "bulk" /\ Done(c) = Len(list[c])
      \/ /\ Counted
         /\ \/ pc[c] = "pin" /\ pc' = [pc EXCEPT ![c] = "done"]
            \/ pc[c] = "bulk" /\ pc' = pc /\ Done(c) < Len(list[c])
  BY <1>a DEF PinStep, BulkStep, SendPin
<1> USE DEF Counted
<1>6. TypeOK'
  <2>1. tally' \in [Calls -> [ok : Nat, bad : Nat]]
    BY <1>5 DEF TypeOK
  <2>2. performed' \subseteq Calls \X Tablets
    BY <1>4 DEF TypeOK
  <2>3. pc' \in [Calls -> {"idle", "resolve", "run", "pin", "bulk", "done"}]
    BY <1>3 DEF TypeOK
  <2>4. QED
    BY <1>1, <2>1, <2>2, <2>3 DEF TypeOK
<1>7. ASSUME NEW d \in Calls \ {c} PROVE CallInv(d)'
  <2>a. pc'[d] = pc[d] /\ performed \subseteq performed'
    BY <1>3, <1>4 DEF TypeOK
  <2>1. pc'[d] = pc[d] /\ tally'[d] = tally[d] /\ performed \subseteq performed'
    BY <1>5, <2>a DEF TypeOK
  <2>2. QED
    BY <1>1, <2>1, OtherCalls
<1>8. CallInv(c)'
  <2>1. StageInv(c)' /\ LaneInv(c)'
    BY <1>1, <1>2, <1>3 DEF TypeOK, CallInv, StageInv, LaneInv
  <2>2. TallyInv(c)'
    <3>1. CASE tally' = tally
      BY <1>1, <1>5, <3>1 DEF TypeOK, CallInv, TallyInv, Done
    <3>2. CASE tally' # tally
      <4>0. Counted
        BY <1>5, <3>2
      <4>1. Done(c)' = Done(c) + 1 /\ Done(c) \in Nat
        BY <1>2, <4>0 DEF TypeOK, Done
      <4>2. Len(list[c]) \in Nat
        BY <1>2
      <4> HIDE DEF Counted
      <4>3. \/ pc[c] = "pin" /\ pc'[c] = "done" /\ Done(c) = 0 /\ Len(list[c]) = 1
            \/ pc[c] = "bulk" /\ pc'[c] = "bulk" /\ Done(c) < Len(list[c])
        BY <1>5, <3>2 DEF TypeOK, CallInv, TallyInv
      <4>4. list'[c] = list[c]
        BY <1>1
      <4>5. \/ pc'[c] = "done" /\ Done(c)' = Len(list[c])
            \/ pc'[c] = "bulk" /\ Done(c)' <= Len(list[c])
        <5> DEFINE before == Done(c)
                   after == Done(c)'
                   n == Len(list[c])
        <5> HIDE DEF before, after, n
        <5>1. /\ before \in Nat /\ n \in Nat /\ after = before + 1
              /\ \/ pc'[c] = "done" /\ before = 0 /\ n = 1
                 \/ pc'[c] = "bulk" /\ before < n
          BY <4>1, <4>2, <4>3 DEF before, after, n
        <5>2. \/ pc'[c] = "done" /\ after = n
              \/ pc'[c] = "bulk" /\ after <= n
          BY <5>1
        <5>3. QED
          BY <5>2 DEF before, after, n
      <4>6. QED
        BY <4>4, <4>5 DEF TallyInv
    <3>3. QED
      BY <3>1, <3>2
  <2>3. QED
    BY <2>1, <2>2 DEF CallInv
<1>9. QED
  BY <1>1, <1>6, <1>7, <1>8 DEF ToggleInv

LEMMA NextKioskInv == KioskInv /\ [Next]_vars => KioskInv'
<1> SUFFICES ASSUME KioskInv, [Next]_vars PROVE KioskInv'
  OBVIOUS
<1>1. ASSUME NEW c \in Calls, Form(c) \/ ExecuteAndWait(c) \/ PinStep(c) \/ BulkStep(c)
      PROVE  KioskInv'
  BY <1>1, BeginStep, ResolveStep, ExchangeStep, StoreStep, ReportStep, PinSteps DEF ExecuteAndWait
<1>2. CASE \/ \E g \in Groups : HandleSaveGroup(g) \/ HandleDeleteGroup(g)
           \/ \E q \in Toggles : HandleToggleGroup(q)
           \/ RecycleConnection
           \/ \E u \in Uploads : HandleUploadSound(u)
           \/ UNCHANGED vars
  <2>1. UNCHANGED <<callVars, performed>>
    BY <1>2 DEF HandleSaveGroup, HandleDeleteGroup, HandleToggleGroup, ToggleRead, ToggleWrite,
       RecycleConnection, HandleUploadSound, CreateFile, CopyFile, vars
  <2>2. QED
    BY <1>2, <2>1, GroupStep
<1>3. QED
  BY <1>1, <1>2 DEF Next

(* The inductive invariant holds in every reachable state.                 *)
LEMMA Invariance == Spec => []KioskInv
<1>1. Init => KioskInv
  <2> SUFFICES ASSUME Init PROVE KioskInv
    OBVIOUS
  <2>1. TypeOK
    BY DEF Init, TypeOK, Kinds
  <2>2. ToggleInv /\ \A c \in Calls : CallInv(c)
    BY DEF Init, ToggleInv, CallInv, StageInv, LaneInv, TallyInv, Done
  <2>3. QED
    BY <2>1, <2>2 DEF KioskInv
<1>2. QED
  BY <1>1, NextKioskInv, PTL DEF Spec

(* The groups, toggles, calls and sounds stay of their types.              *)
THEOREM TypeCorrect == Spec => []TypeOK
<1>1. KioskInv => TypeOK
  BY DEF KioskInv
<1>2. QED
  BY <1>1, Invariance, PTL

(* A finished call reports on the right tablets: a confirmed success took  *)
(* place, and its counts add up to the tablets it was for.                 *)
THEOREM ReportsAreTrue == Spec => []ReportTellsTruth
<1>1. KioskInv => ReportTellsTruth
  <2> SUFFICES ASSUME KioskInv, NEW c \in Calls, pc[c] = "done"
               PROVE  /\ \A i \in DOMAIN result[c] :
                            /\ result[c][i] # "none"
                            /\ result[c][i] = "executed" /\ kind[c] \in {"confirmed", "status"} =>
                                  <<c, list[c][i]>> \in performed
                      /\ kind[c] # "status" => Done(c) = Len(list[c])
    BY DEF ReportTellsTruth
  <2>1. DOMAIN result[c] = DOMAIN lane[c]
    BY DEF KioskInv, TypeOK
  <2>2. LaneInv(c) /\ TallyInv(c)
    BY DEF KioskInv, CallInv
  <2>3. QED
    BY <2>1, <2>2 DEF LaneInv, TallyInv
<1>2. QED
  BY <1>1, Invariance, PTL

-----------------------------------------------------------------------------
(* While the connection enforces foreign keys, every membership is of a    *)
(* tablet and a group that exist, whatever is deleted between the read and *)
(* the write of a toggle.                                                  *)
THEOREM MembersHaveGroups == Spec => []MembersBelong
<1>1. Init => MembersBelong
  BY DEF Init, MembersBelong
<1>2. KioskInv /\ MembersBelong /\ [Next]_vars => MembersBelong'
  <2> SUFFICES ASSUME KioskInv, MembersBelong, [Next]_vars, fk' PROVE member' \subseteq Tablets \X groups'
    BY DEF MembersBelong
  <2>1. CASE UNCHANGED groupVars
    BY <2>1 DEF MembersBelong, groupVars
  <2>2. ASSUME NEW g \in Groups, HandleSaveGroup(g) PROVE member' \subseteq Tablets \X groups'
    BY <2>2 DEF HandleSaveGroup, CreateRow, MembersBelong
  <2>3. ASSUME NEW g \in Groups, HandleDeleteGroup(g) PROVE member' \subseteq Tablets \X groups'
    BY <2>3 DEF HandleDeleteGroup, DeleteRow, MembersBelong
  <2>4. ASSUME NEW q \in Toggles, ToggleWrite(q) PROVE member' \subseteq Tablets \X groups'
    BY <2>4 DEF ToggleWrite, AddTabletToGroup, RemoveTabletFromGroup, MembersBelong
  <2>5. \/ UNCHANGED groupVars \/ RecycleConnection
        \/ \E g \in Groups : HandleSaveGroup(g) \/ HandleDeleteGroup(g)
        \/ \E q \in Toggles : ToggleWrite(q)
    <3>1. ASSUME NEW c \in Calls, Form(c) PROVE UNCHANGED groupVars
      BY <3>1, FormCases DEF Refuse, Ask, PinTo, elsewhere
    <3>2. ASSUME NEW c \in Calls, ExecuteAndWait(c) \/ PinStep(c) \/ BulkStep(c)
          PROVE  UNCHANGED groupVars
      BY <3>2 DEF ExecuteAndWait, ResolveTablets, Refuse, Exchange, StoreResult, Report, PinStep,
         BulkStep, elsewhere
    <3>3. ASSUME NEW u \in Uploads, HandleUploadSound(u) PROVE UNCHANGED groupVars
      BY <3>3 DEF HandleUploadSound, CreateFile, CopyFile
    <3>4. ASSUME NEW q \in Toggles, HandleToggleGroup(q) PROVE UNCHANGED groupVars \/ ToggleWrite(q)
      BY <3>4 DEF HandleToggleGroup, ToggleRead
    <3>5. QED
      BY <3>1, <3>2, <3>3, <3>4 DEF Next, vars
  <2>6. CASE RecycleConnection
    BY <2>6 DEF RecycleConnection
  <2>7. QED
    BY <2>1, <2>2, <2>3, <2>4, <2>5, <2>6
<1>3. QED
  BY <1>1, <1>2, Invariance, PTL DEF Spec
=============================================================================
