------------------------- MODULE TenantPolicyProofs --------------------------
(***************************************************************************)
(* What concurrent requests cannot break in the tables of tenants and      *)
(* policies, for any number of requests, devices, tenants and apps.        *)
(***************************************************************************)
EXTENDS TenantPolicy, SequenceTheorems, TLAPS

\* Every whitelist, stored or about to be, names each package once, but for
\* those that a list given whole names twice.
ListsDistinct ==
    /\ \A p \in PolicyIds : Distinct(apps[p])
    /\ \A r \in Requests : Distinct(list[r])

SlugsUnique == \A s \in Slugs, t, u \in Requests : {t, u} \subseteq GetBySlug(s) => t = u

ReferencesHold ==
    /\ DefaultPolicyID \in policies
    /\ \A d \in Devices : assigned[d] \in policies \cup {None}

-----------------------------------------------------------------------------
(* Changes of a list keep its packages different, those of GivenTwice apart. *)

LEMMA AppendKeepsDistinct ==
    ASSUME NEW l \in Seq(Entries), NEW e \in Entries, Distinct(l),
           \A i \in DOMAIN l : l[i].app # e.app
    PROVE  Append(l, e) \in Seq(Entries) /\ Distinct(Append(l, e))
  BY DEF Distinct

LEMMA RemoveKeepsDistinct ==
    ASSUME NEW l \in Seq(Entries), NEW i \in DOMAIN l, Distinct(l)
    PROVE  LET k == SubSeq(l, 1, i - 1) \o SubSeq(l, i + 1, Len(l))
           IN  k \in Seq(Entries) /\ Distinct(k)
<1> DEFINE a == SubSeq(l, 1, i - 1)
           b == SubSeq(l, i + 1, Len(l))
<1>1. i \in 1..Len(l) /\ Len(l) \in Nat
  OBVIOUS
<1>2. a \in Seq(Entries) /\ Len(a) = i - 1 /\ \A j \in 1..(i - 1) : a[j] = l[j]
  BY <1>1
<1>3. b \in Seq(Entries) /\ Len(b) = Len(l) - i /\ \A j \in 1..(Len(l) - i) : b[j] = l[i + j]
  BY <1>1
<1> HIDE DEF a, b
<1>4. a \o b \in Seq(Entries) /\ Len(a \o b) = Len(l) - 1
  BY <1>1, <1>2, <1>3
<1>5. \A j \in 1..(Len(l) - 1) : (a \o b)[j] = IF j < i THEN l[j] ELSE l[j + 1]
  <2> TAKE j \in 1..(Len(l) - 1)
  <2>1. (a \o b)[j] = IF j <= i - 1 THEN a[j] ELSE b[j - (i - 1)]
    BY <1>1, <1>2, <1>3, ConcatProperties
  <2>2. CASE j < i
    BY <2>1, <2>2, <1>1, <1>2
  <2>3. CASE ~(j < i)
    <3>1. j - (i - 1) \in 1..(Len(l) - i) /\ i + (j - (i - 1)) = j + 1
      BY <2>3, <1>1
    <3>2. b[j - (i - 1)] = l[j + 1]
      BY <3>1, <1>3
    <3> QED
      BY <2>1, <2>3, <3>2, <1>1
  <2> QED
    BY <2>2, <2>3
<1>6. DOMAIN (a \o b) = 1..(Len(l) - 1)
  BY <1>4, <1>1
<1>7. ASSUME NEW j \in 1..(Len(l) - 1), NEW m \in 1..(Len(l) - 1),
             (a \o b)[j].app = (a \o b)[m].app
      PROVE  j = m \/ (a \o b)[j].app \in GivenTwice
  <2>1. \A x, y \in 1..Len(l) : l[x].app = l[y].app => x = y \/ l[x].app \in GivenTwice
    BY DEF Distinct
  <2>2. PICK x \in 1..Len(l) : x = (IF j < i THEN j ELSE j + 1)
    BY <1>1
  <2>3. PICK y \in 1..Len(l) : y = (IF m < i THEN m ELSE m + 1)
    BY <1>1
  <2>4. (a \o b)[j] = l[x]
    BY <1>5, <2>2
  <2>5. (a \o b)[m] = l[y]
    BY <1>5, <2>3
  <2>6. x = y \/ (a \o b)[j].app \in GivenTwice
    BY <2>1, <2>4, <2>5, <1>7
  <2>7. x = y => j = m
    BY <2>2, <2>3, <1>1
  <2> QED
    BY <2>6, <2>7
<1>8. Distinct(a \o b)
  BY <1>6, <1>7 DEF Distinct
<1> QED
  BY <1>4, <1>8 DEF a, b

LEMMA ReplaceKeepsDistinct ==
    ASSUME NEW l \in Seq(Entries), NEW i \in DOMAIN l, NEW e \in Entries,
           Distinct(l), l[i].app = e.app
    PROVE  [l EXCEPT ![i] = e] \in Seq(Entries) /\ Distinct([l EXCEPT ![i] = e])
<1>1. [l EXCEPT ![i] = e] \in Seq(Entries)
  OBVIOUS
<1>2. \A j \in DOMAIN l : [l EXCEPT ![i] = e][j].app = l[j].app
  OBVIOUS
<1>3. DOMAIN [l EXCEPT ![i] = e] = DOMAIN l
  OBVIOUS
<1> QED
  BY <1>1, <1>2, <1>3 DEF Distinct

LEMMA NoTenantIsRow == NoTenant \in TenantRows
  BY DefaultsAssumption DEF NoTenant, TenantRows, Statuses

LEMMA GivenListsAreDistinct ==
    \A l \in GivenLists \cup {<<>>} : l \in Seq(Entries) /\ Distinct(l)
<1>1. <<>> \in Seq(Entries) /\ Distinct(<<>>)
  BY DEF Distinct
<1>2. ASSUME NEW l \in GivenLists
      PROVE  l \in Seq(Entries) /\ Distinct(l)
  <2>1. l \in Seq(Entries)
    BY ListsAssumption DEF ListsAssumption
  <2>2. ASSUME NEW i \in DOMAIN l, NEW j \in DOMAIN l, l[i].app = l[j].app, i # j
        PROVE  l[i].app \in GivenTwice
    <3>1. l[i] \in Entries
      BY <2>1
    <3>2. l[i].app \in Apps
      BY <3>1 DEF Entries
    <3> QED
      BY <2>2, <3>2 DEF GivenTwice
  <2> QED
    BY <2>1, <2>2 DEF Distinct
<1> QED
  BY <1>1, <1>2

-----------------------------------------------------------------------------
(* The invariant: types, and what the two properties rest on. *)

IInv == TypeOK /\ ListsDistinct /\ SlugsUnique /\ ReferencesHold

LEMMA InitEstablishes == Init => IInv
<1> SUFFICES ASSUME Init PROVE IInv
  OBVIOUS
<1>1. TypeOK
  BY NoTenantIsRow DEF Init, TypeOK, PolicyIds
<1>2. ListsDistinct
  BY DEF Init, ListsDistinct, Distinct
<1>3. SlugsUnique
  BY DefaultsAssumption DEF Init, SlugsUnique, GetBySlug, NoTenant
<1>4. ReferencesHold
  BY DEF Init, ReferencesHold
<1> QED
  BY <1>1, <1>2, <1>3, <1>4 DEF IInv

(* A request that reads a tenant only takes a copy. *)
LEMMA ReadTenantStep ==
    ASSUME IInv, NEW r \in Requests, NEW t \in Requests, NEW changed \in TenantRows,
           ReadTenant(r, t, changed)
    PROVE  IInv'
<1> USE DEF IInv, ReadTenant, Goto, tables
<1>1. TypeOK'
  BY DEF TypeOK, PolicyIds
<1>2. ListsDistinct'
  BY DEF ListsDistinct
<1>3. SlugsUnique'
  BY DEF SlugsUnique, GetBySlug
<1>4. ReferencesHold'
  BY DEF ReferencesHold
<1> QED
  BY <1>1, <1>2, <1>3, <1>4

LEMMA TenantReads ==
    ASSUME IInv, NEW r \in Requests, NEW t \in Requests,
           \/ \E plan \in Plans, status \in GivenStatuses \cup {tenants[t].status} :
                 HandleUpdateTenant(r, t, plan, status)
           \/ HandleDeleteTenant(r, t)
           \/ \E q \in Quotas : HandleUpdateQuota(r, t, q)
           \/ IncrementDeviceCount(r, t) \/ DecrementDeviceCount(r, t)
    PROVE  IInv'
<1>1. tenants[t] \in TenantRows
  BY DEF IInv, TypeOK
<1>2. ASSUME NEW plan \in Plans, NEW status \in GivenStatuses \cup {tenants[t].status},
             HandleUpdateTenant(r, t, plan, status)
      PROVE  IInv'
  <2>1. status \in Statuses
    BY <1>1 DEF TenantRows, Statuses
  <2>2. [tenants[t] EXCEPT !.plan = plan, !.status = status] \in TenantRows
    BY <1>1, <2>1 DEF TenantRows
  <2> QED
    BY <1>2, <2>2, ReadTenantStep DEF HandleUpdateTenant
<1>3. CASE HandleDeleteTenant(r, t)
  <2>1. [tenants[t] EXCEPT !.status = "deleted"] \in TenantRows
    BY <1>1 DEF TenantRows, Statuses
  <2> QED
    BY <1>3, <2>1, ReadTenantStep DEF HandleDeleteTenant
<1>4. ASSUME NEW q \in Quotas, HandleUpdateQuota(r, t, q)
      PROVE  IInv'
  <2>1. [tenants[t] EXCEPT !.quota = q] \in TenantRows
    BY <1>1 DEF TenantRows
  <2> QED
    BY <1>4, <2>1, ReadTenantStep DEF HandleUpdateQuota
<1>5. CASE IncrementDeviceCount(r, t)
  <2>1. [tenants[t] EXCEPT !.used = @ + 1] \in TenantRows
    BY <1>1 DEF TenantRows
  <2> QED
    BY <1>5, <2>1, ReadTenantStep DEF IncrementDeviceCount
<1>6. CASE DecrementDeviceCount(r, t)
  <2>1. [tenants[t] EXCEPT !.used = IF @ > 0 THEN @ - 1 ELSE @] \in TenantRows
    BY <1>1 DEF TenantRows
  <2> QED
    BY <1>6, <2>1, ReadTenantStep DEF DecrementDeviceCount
<1> QED
  BY <1>2, <1>3, <1>4, <1>5, <1>6

(* The three other steps of the tenants. *)
LEMMA TenantStep == ASSUME IInv, NEW r \in Requests, TenantRequests(r) PROVE IInv'
<1>1. ASSUME NEW s \in Slugs, NEW plan \in Plans, HandleCreateTenant(r, s, plan)
      PROVE  IInv'
  <2> USE <1>1 DEF IInv, HandleCreateTenant, Goto, tables
  <2>1. [NoTenant EXCEPT !.slug = s, !.plan = plan] \in TenantRows
    BY NoTenantIsRow DEF TenantRows
  <2>2. TypeOK'
    BY <2>1 DEF TypeOK, PolicyIds
  <2>3. ListsDistinct' /\ SlugsUnique' /\ ReferencesHold'
    BY DEF ListsDistinct, SlugsUnique, GetBySlug, ReferencesHold
  <2> QED
    BY <2>2, <2>3
<1>2. CASE CreateTenant(r)
  <2> USE <1>2 DEF IInv, CreateTenant, InsertTenant, Goto
  <2>1. TypeOK'
    BY DEF TypeOK
  <2>2. SlugsUnique'
    BY DEF TypeOK, SlugsUnique, GetBySlug
  <2>3. ListsDistinct' /\ ReferencesHold'
    BY DEF ListsDistinct, ReferencesHold
  <2> QED
    BY <2>1, <2>2, <2>3
<1>3. CASE UpdateTenant(r)
  <2> USE <1>3 DEF IInv, UpdateTenant, Goto
  <2>1. tenants' \in [Requests -> TenantRows] /\ \A t \in Requests : tenants'[t].slug = tenants[t].slug
    <3> DEFINE new == [tenant[r] EXCEPT !.slug = tenants[row[r]].slug]
    <3>1. CASE row[r] \in Requests
      <4>1. tenant[r] \in TenantRows /\ tenants[row[r]] \in TenantRows
        BY <3>1 DEF TypeOK
      <4>2. new \in TenantRows /\ new.slug = tenants[row[r]].slug
        BY <4>1 DEF TenantRows
      <4> HIDE DEF new
      <4>3. tenants' = [tenants EXCEPT ![row[r]] = new]
        BY DEF new
      <4> QED
        BY <4>2, <4>3 DEF TypeOK
    <3>2. CASE row[r] \notin Requests
      BY <3>2 DEF TypeOK
    <3> QED
      BY <3>1, <3>2
  <2>2. TypeOK'
    BY <2>1 DEF TypeOK
  <2>3. SlugsUnique'
    BY <2>1 DEF SlugsUnique, GetBySlug
  <2>4. ListsDistinct' /\ ReferencesHold'
    BY DEF ListsDistinct, ReferencesHold
  <2> QED
    BY <2>2, <2>3, <2>4
<1> QED
  BY <1>1, <1>2, <1>3, TenantReads DEF TenantRequests

(* A request that reads a policy takes a copy of its list. *)
LEMMA ReadPolicyStep ==
    ASSUME IInv, NEW r \in Requests, NEW p \in PolicyIds,
           NEW changed \in Seq(Entries), Distinct(changed), ReadPolicy(r, p, changed)
    PROVE  IInv'
<1> USE DEF IInv, ReadPolicy, Goto, tables
<1>1. TypeOK'
  BY DEF TypeOK
<1>2. ListsDistinct'
  BY DEF TypeOK, ListsDistinct, Distinct
<1>3. SlugsUnique' /\ ReferencesHold'
  BY DEF SlugsUnique, GetBySlug, ReferencesHold
<1> QED
  BY <1>1, <1>2, <1>3

LEMMA PolicyStep == ASSUME IInv, NEW r \in Requests, PolicyRequests(r) PROVE IInv'
<1>1. ASSUME NEW l \in GivenLists \cup {<<>>}, CreatePolicy(r, l)
      PROVE  IInv'
  <2> USE <1>1 DEF IInv, CreatePolicy, InsertPolicy, Goto
  <2>1. l \in Seq(Entries) /\ Distinct(l)
    BY GivenListsAreDistinct
  <2>2. TypeOK'
    BY <2>1 DEF TypeOK, PolicyIds
  <2>3. ListsDistinct'
    BY <2>1 DEF TypeOK, ListsDistinct
  <2>4. SlugsUnique' /\ ReferencesHold'
    BY DEF SlugsUnique, GetBySlug, ReferencesHold
  <2> QED
    BY <2>2, <2>3, <2>4
<1>2. ASSUME NEW p \in PolicyIds, DeletePolicy(r, p)
      PROVE  IInv'
  <2> USE <1>2 DEF IInv, DeletePolicy, DeleteRow, Goto
  <2>1. TypeOK'
    BY DEF TypeOK
  <2>2. ReferencesHold'
    BY DEF ReferencesHold
  <2>3. ListsDistinct' /\ SlugsUnique'
    BY DEF ListsDistinct, SlugsUnique, GetBySlug
  <2> QED
    BY <2>1, <2>2, <2>3
<1>3. ASSUME NEW p \in PolicyIds, UpdatePolicy(r, p)
      PROVE  IInv'
  <2>1. PICK l \in GivenLists \cup {apps[p]} : ReadPolicy(r, p, l)
    BY <1>3 DEF UpdatePolicy
  <2>2. l \in Seq(Entries) /\ Distinct(l)
    BY GivenListsAreDistinct DEF IInv, TypeOK, ListsDistinct
  <2> QED
    BY <2>1, <2>2, ReadPolicyStep
<1>4. CASE StorePolicy(r)
  <2> USE <1>4 DEF IInv, StorePolicy, Goto
  <2>1. TypeOK'
    BY DEF TypeOK
  <2>2. ListsDistinct'
    BY DEF TypeOK, ListsDistinct
  <2>3. SlugsUnique' /\ ReferencesHold'
    BY DEF SlugsUnique, GetBySlug, ReferencesHold
  <2> QED
    BY <2>1, <2>2, <2>3
<1> QED
  BY <1>1, <1>2, <1>3, <1>4 DEF PolicyRequests

LEMMA AssignStep == ASSUME IInv, NEW r \in Requests, AssignRequests(r) PROVE IInv'
<1>1. PICK d \in Devices : RemovePolicy(r, d) \/ \E p \in PolicyIds : AssignPolicy(r, p, d)
  BY DEF AssignRequests
<1> USE DEF IInv, Goto
<1>2. CASE RemovePolicy(r, d)
  <2> USE <1>2 DEF RemovePolicy, RemoveFromDevice
  <2>1. TypeOK'
    BY DEF TypeOK
  <2>2. ReferencesHold'
    BY DEF TypeOK, ReferencesHold
  <2>3. ListsDistinct' /\ SlugsUnique'
    BY DEF ListsDistinct, SlugsUnique, GetBySlug
  <2> QED
    BY <2>1, <2>2, <2>3
<1>3. ASSUME NEW p \in PolicyIds, AssignPolicy(r, p, d)
      PROVE  IInv'
  <2> USE <1>3 DEF AssignPolicy, AssignToDevice
  <2>1. TypeOK'
    BY DEF TypeOK
  <2>2. ReferencesHold'
    BY DEF TypeOK, ReferencesHold
  <2>3. ListsDistinct' /\ SlugsUnique'
    BY DEF ListsDistinct, SlugsUnique, GetBySlug
  <2> QED
    BY <2>1, <2>2, <2>3
<1> QED
  BY <1>1, <1>2, <1>3

LEMMA WhitelistStep == ASSUME IInv, NEW r \in Requests, WhitelistRequests(r) PROVE IInv'
<1>1. ASSUME NEW p \in PolicyIds, NEW a \in Apps, RemoveApp(r, p, a)
      PROVE  IInv'
  <2>1. PICK i \in DOMAIN apps[p] :
           ReadPolicy(r, p, SubSeq(apps[p], 1, i - 1) \o SubSeq(apps[p], i + 1, Len(apps[p])))
    BY <1>1 DEF RemoveApp, First, Places
  <2>2. apps[p] \in Seq(Entries) /\ Distinct(apps[p])
    BY DEF IInv, TypeOK, ListsDistinct
  <2> QED
    BY <2>1, <2>2, RemoveKeepsDistinct, ReadPolicyStep
<1>2. ASSUME NEW p \in PolicyIds, NEW e \in Entries, AddApp(r, p, e)
      PROVE  IInv'
  <2>1. apps[p] \in Seq(Entries) /\ Distinct(apps[p])
    BY DEF IInv, TypeOK, ListsDistinct
  <2>2. \A i \in DOMAIN apps[p] : apps[p][i].app # e.app
    BY <1>2 DEF AddApp, Places
  <2>3. Append(apps[p], e) \in Seq(Entries) /\ Distinct(Append(apps[p], e))
    BY <2>1, <2>2, AppendKeepsDistinct
  <2> QED
    BY <1>2, <2>3, ReadPolicyStep DEF AddApp
<1>3. ASSUME NEW p \in PolicyIds, NEW e \in Entries, UpdateApp(r, p, e)
      PROVE  IInv'
  <2>1. PICK i \in DOMAIN apps[p] :
           apps[p][i].app = e.app /\ ReadPolicy(r, p, [apps[p] EXCEPT ![i] = e])
    BY <1>3 DEF UpdateApp, First, Places
  <2>2. apps[p] \in Seq(Entries) /\ Distinct(apps[p])
    BY DEF IInv, TypeOK, ListsDistinct
  <2> QED
    BY <2>1, <2>2, ReplaceKeepsDistinct, ReadPolicyStep
<1> QED
  BY <1>1, <1>2, <1>3 DEF WhitelistRequests

LEMMA DeviceStep == ASSUME IInv, NEW r \in Requests, DeviceRequests(r) PROVE IInv'
<1> USE DEF IInv, Goto, tables
<1>1. CASE GetPolicy(r)
  <2> USE <1>1 DEF GetPolicy
  <2>1. TypeOK'
    BY DEF TypeOK
  <2>2. ListsDistinct'
    BY DEF TypeOK, ListsDistinct
  <2>3. SlugsUnique' /\ ReferencesHold'
    BY DEF SlugsUnique, GetBySlug, ReferencesHold
  <2> QED
    BY <2>1, <2>2, <2>3
<1>2. ASSUME NEW d \in Devices, GetDevicePolicy(r, d)
      PROVE  IInv'
  <2> USE <1>2 DEF GetDevicePolicy
  <2>1. Effective(d) \in PolicyIds
    BY DEF Effective, TypeOK, PolicyIds
  <2>2. TypeOK'
    BY <2>1 DEF TypeOK
  <2>3. ListsDistinct' /\ SlugsUnique' /\ ReferencesHold'
    BY DEF ListsDistinct, SlugsUnique, GetBySlug, ReferencesHold
  <2> QED
    BY <2>2, <2>3
<1> QED
  BY <1>1, <1>2 DEF DeviceRequests

LEMMA NextPreserves == IInv /\ [Next]_vars => IInv'
<1> SUFFICES ASSUME IInv, [Next]_vars PROVE IInv'
  OBVIOUS
<1>1. ASSUME NEW r \in Requests, Refuse(r)
      PROVE  IInv'
  <2> USE <1>1 DEF IInv, Refuse, Goto, tables
  <2>1. TypeOK'
    BY DEF TypeOK
  <2>2. ListsDistinct' /\ SlugsUnique' /\ ReferencesHold'
    BY DEF ListsDistinct, SlugsUnique, GetBySlug, ReferencesHold
  <2> QED
    BY <2>1, <2>2
<1>2. CASE UNCHANGED vars
  BY <1>2 DEF vars, tables, requests, IInv, TypeOK, ListsDistinct, SlugsUnique, GetBySlug,
              ReferencesHold
<1> QED
  BY <1>1, <1>2, TenantStep, PolicyStep, AssignStep, WhitelistStep, DeviceStep DEF Next

LEMMA Invariance == Spec => []IInv
  BY InitEstablishes, NextPreserves, PTL DEF Spec

-----------------------------------------------------------------------------
(* Every variable stays of its type: copies that are written back are rows, *)
(* and lists, of the right form.                                            *)
THEOREM TypeCorrect == Spec => []TypeOK
<1>1. IInv => TypeOK
  BY DEF IInv
<1> QED
  BY <1>1, Invariance, PTL

(* However many requests create tenants and change whitelists at once, no   *)
(* slug names two tenants, and no package is twice in a list unless a       *)
(* request gave a list that names it twice (CreateTenant, AddApp, Update).  *)
THEOREM NothingIsTwice == Spec => []NothingTwice
<1>1. IInv => NothingTwice
  <2>1. IInv => policies \subseteq PolicyIds
    BY DEF IInv, TypeOK
  <2> QED
    BY <2>1 DEF IInv, NothingTwice, SlugsUnique, ListsDistinct
<1> QED
  BY <1>1, Invariance, PTL

(* Whatever is deleted and assigned, each device has a policy that exists   *)
(* (DeletePolicy, AssignToDevice, GetByDevice).                             *)
THEOREM DevicesHavePolicies == Spec => []EveryDeviceHasPolicy
<1>1. IInv => EveryDeviceHasPolicy
  BY DEF IInv, ReferencesHold, EveryDeviceHasPolicy, Effective
<1> QED
  BY <1>1, Invariance, PTL
=============================================================================
