---------------------------- MODULE TenantPolicy -----------------------------
(***************************************************************************)
(* Tenants (services/tenant_service.go) and security policies with their   *)
(* whitelists of apps (services/policy_service.go,                         *)
(* repositories/policy_repo.go).  Nearly every request reads a whole row,  *)
(* changes a field of the copy and writes the row back: two statements,    *)
(* with those of other requests between them.  Policies live in the        *)
(* schema of migrations/001_enterprise_schema.sql.                         *)
(*                                                                         *)
(* One action is one statement; any may fail.  The uuid of a new tenant or *)
(* policy is stood for by the request that drew it.  Which tenant a policy *)
(* belongs to only matters to lists and is left out, and so are names.     *)
(***************************************************************************)
EXTENDS Naturals, Sequences

CONSTANTS
    Requests,
    Slugs, Plans,
    DefaultPlan,        \* of a tenant created without a plan
    GivenStatuses,      \* statuses that requests name: any string but the empty one
    Quotas,             \* custom quotas
    Devices,
    DefaultPolicyID,
    Apps, Options,      \* packages, and what else an entry says
    GivenLists,         \* whitelists that come whole, in a request
    None

Entries == [app: Apps, option: Options]

\* Packages that a request may name twice in one list: nobody looks.
GivenTwice ==
    {a \in Apps : \E l \in GivenLists : \E i, j \in DOMAIN l : i # j /\ a = l[i].app /\ a = l[j].app}

\* The other packages of a list are different.
Distinct(list) ==
    \A i, j \in DOMAIN list : list[i].app = list[j].app => i = j \/ list[i].app \in GivenTwice

ASSUME DefaultsAssumption ==
    /\ DefaultPolicyID \notin Requests /\ DefaultPlan \in Plans
    /\ None \notin Requests \cup {DefaultPolicyID} \cup Slugs \cup Quotas
ASSUME ListsAssumption == \A l \in GivenLists : l \in Seq(Entries)

PolicyIds == Requests \cup {DefaultPolicyID}
Statuses == {"active", "deleted"} \cup GivenStatuses
TenantRows == [slug: Slugs \cup {None}, plan: Plans, status: Statuses, quota: Quotas \cup {None},
               used: Nat]

VARIABLES
    tenants,    \* rows of tenants; slug None: there is none
    policies,   \* ids of the rows of security_policies
    apps,       \* their app_whitelist column
    assigned,   \* devices.security_policy_id
    pc, row,    \* a request's next step, the id of the row it works on
    tenant,     \* its copy of a tenant, as it is to be stored
    list        \* its copy of a whitelist, as it is to be stored

tables == <<tenants, policies, apps, assigned>>
requests == <<pc, row, tenant, list>>
vars == <<tables, requests>>

NoTenant == [slug |-> None, plan |-> DefaultPlan, status |-> "active", quota |-> None, used |-> 0]

TypeOK ==
    /\ tenants \in [Requests -> TenantRows]
    /\ policies \subseteq PolicyIds
    /\ apps \in [PolicyIds -> Seq(Entries)]
    /\ assigned \in [Devices -> PolicyIds \cup {None}]
    /\ pc \in [Requests -> {"idle", "insert", "putTenant", "putPolicy", "resolve", "done"}]
    /\ row \in [Requests -> PolicyIds \cup {None}]
    /\ tenant \in [Requests -> TenantRows]
    /\ list \in [Requests -> Seq(Entries)]

Init ==
    /\ tenants = [r \in Requests |-> NoTenant]
    /\ policies = {DefaultPolicyID}
    /\ apps = [p \in PolicyIds |-> <<>>]
    /\ assigned = [d \in Devices |-> None]
    /\ pc = [r \in Requests |-> "idle"]
    /\ row = [r \in Requests |-> None]
    /\ tenant = [r \in Requests |-> NoTenant]
    /\ list = [r \in Requests |-> <<>>]

Goto(r, step) == pc' = [pc EXCEPT ![r] = step]

\* Bad input, a row that is not found, a statement that fails.
Refuse(r) ==
    /\ pc[r] # "done"
    /\ Goto(r, "done")
    /\ UNCHANGED <<tables, row, tenant, list>>

-----------------------------------------------------------------------------
(* Tenants *)

Exists(t) == tenants[t].slug # None

GetBySlug(s) == {t \in Requests : tenants[t].slug = s}

\* slug is UNIQUE.
InsertTenant(t, new) ==
    /\ ~Exists(t) /\ GetBySlug(new.slug) = {}
    /\ tenants' = [tenants EXCEPT ![t] = new]

\* A lookup that fails is taken for "not taken yet".
HandleCreateTenant(r, s, plan) ==
    /\ pc[r] = "idle"
    /\ Goto(r, "insert")
    /\ row' = [row EXCEPT ![r] = r]
    /\ tenant' = [tenant EXCEPT ![r] = [NoTenant EXCEPT !.slug = s, !.plan = plan]]
    /\ UNCHANGED <<tables, list>>

\* A failure after the insert answers an error for a tenant that exists.
CreateTenant(r) ==
    /\ pc[r] = "insert"
    /\ InsertTenant(r, tenant[r])
    /\ Goto(r, "done")
    /\ UNCHANGED <<policies, apps, assigned, row, tenant, list>>

\* The row, found by its id or its slug, and what is to become of it.
ReadTenant(r, t, changed) ==
    /\ pc[r] = "idle" /\ Exists(t)
    /\ Goto(r, "putTenant")
    /\ row' = [row EXCEPT ![r] = t]
    /\ tenant' = [tenant EXCEPT ![r] = changed]
    /\ UNCHANGED <<tables, list>>

\* Faulty variant: the plan is not validated.
UpdateAnyPlan(r, t, plan, status) ==
    ReadTenant(r, t, [tenants[t] EXCEPT !.plan = "gold", !.status = status])

\* The plan is one of the three; the status is stored as it comes.
HandleUpdateTenant(r, t, plan, status) ==
    ReadTenant(r, t, [tenants[t] EXCEPT !.plan = plan, !.status = status])

HandleDeleteTenant(r, t) == ReadTenant(r, t, [tenants[t] EXCEPT !.status = "deleted"])

HandleUpdateQuota(r, t, q) == ReadTenant(r, t, [tenants[t] EXCEPT !.quota = q])

\* The counter of devices is kept in the settings of the row.
IncrementDeviceCount(r, t) == ReadTenant(r, t, [tenants[t] EXCEPT !.used = @ + 1])

\* It does not go below zero.
DecrementDeviceCount(r, t) ==
    ReadTenant(r, t, [tenants[t] EXCEPT !.used = IF @ > 0 THEN @ - 1 ELSE @])

\* The whole row but its slug, whatever others have stored meanwhile.
UpdateTenant(r) ==
    /\ pc[r] = "putTenant"
    /\ tenants' = [tenants EXCEPT ![row[r]] = [tenant[r] EXCEPT !.slug = tenants[row[r]].slug]]
    /\ Goto(r, "done")
    /\ UNCHANGED <<policies, apps, assigned, row, tenant, list>>

TenantRequests(r) ==
    \/ \E s \in Slugs, plan \in Plans : HandleCreateTenant(r, s, plan)
    \/ CreateTenant(r)
    \/ \E t \in Requests :
          \/ \E plan \in Plans, status \in GivenStatuses \cup {tenants[t].status} :
                HandleUpdateTenant(r, t, plan, status)
          \/ HandleDeleteTenant(r, t)
          \/ \E q \in Quotas : HandleUpdateQuota(r, t, q)
          \/ IncrementDeviceCount(r, t) \/ DecrementDeviceCount(r, t)
    \/ UpdateTenant(r)

-----------------------------------------------------------------------------
(* Policies *)

InsertPolicy(p, l) ==
    /\ policies' = policies \cup {p}
    /\ apps' = [apps EXCEPT ![p] = l]

\* With settings given or the defaults; with a list given, stored as it comes, or
\* an empty one.
CreatePolicy(r, l) ==
    /\ pc[r] = "idle"
    /\ InsertPolicy(r, l)
    /\ Goto(r, "done")
    /\ UNCHANGED <<tenants, assigned, row, tenant, list>>

\* Faulty variant: the column has no foreign key.
DeleteKeepsReferences(p) ==
    /\ policies' = policies \ {p}
    /\ UNCHANGED assigned

\* Devices refer to policies ON DELETE SET NULL.
DeleteRow(p) ==
    /\ policies' = policies \ {p}
    /\ assigned' = [d \in Devices |-> IF assigned[d] = p THEN None ELSE assigned[d]]

DeletePolicy(r, p) ==
    /\ pc[r] = "idle"
    /\ p # DefaultPolicyID /\ p \in policies
    /\ DeleteRow(p)
    /\ Goto(r, "done")
    /\ UNCHANGED <<tenants, apps, row, tenant, list>>

\* The foreign key wants the policy.
AssignToDevice(p, d) == p \in policies /\ assigned' = [assigned EXCEPT ![d] = p]

RemoveFromDevice(d) == assigned' = [assigned EXCEPT ![d] = None]

\* Only the first device of the request.
AssignPolicy(r, p, d) ==
    /\ pc[r] = "idle"
    /\ AssignToDevice(p, d)
    /\ Goto(r, "done")
    /\ UNCHANGED <<tenants, policies, apps, row, tenant, list>>

RemovePolicy(r, d) ==
    /\ pc[r] = "idle"
    /\ RemoveFromDevice(d)
    /\ Goto(r, "done")
    /\ UNCHANGED <<tenants, policies, apps, row, tenant, list>>

ReadPolicy(r, p, changed) ==
    /\ pc[r] = "idle" /\ p \in policies
    /\ Goto(r, "putPolicy")
    /\ row' = [row EXCEPT ![r] = p]
    /\ list' = [list EXCEPT ![r] = changed]
    /\ UNCHANGED <<tables, tenant>>

\* With a list, taken as it comes, or without one (then the one read is kept).
UpdatePolicy(r, p) == \E l \in GivenLists \cup {apps[p]} : ReadPolicy(r, p, l)

Places(p, a) == {i \in DOMAIN apps[p] : apps[p][i].app = a}

\* Faulty variant: the package is not looked for.
AppendApp(r, p, e) == ReadPolicy(r, p, Append(apps[p], e))

AddApp(r, p, e) == Places(p, e.app) = {} /\ ReadPolicy(r, p, Append(apps[p], e))

\* The loops over a list end at the first entry of the package.
First(p, a) == {i \in Places(p, a) : \A j \in Places(p, a) : i <= j}

RemoveApp(r, p, a) ==
    \E i \in First(p, a) :
       ReadPolicy(r, p, SubSeq(apps[p], 1, i - 1) \o SubSeq(apps[p], i + 1, Len(apps[p])))

UpdateApp(r, p, e) == \E i \in First(p, e.app) : ReadPolicy(r, p, [apps[p] EXCEPT ![i] = e])

\* The whole list; a policy that was deleted meanwhile is not found.
StorePolicy(r) ==
    /\ pc[r] = "putPolicy" /\ row[r] \in policies
    /\ apps' = [apps EXCEPT ![row[r]] = list[r]]
    /\ Goto(r, "done")
    /\ UNCHANGED <<tenants, policies, assigned, row, tenant, list>>

\* The policy in force on a device.
Effective(d) == IF assigned[d] = None THEN DefaultPolicyID ELSE assigned[d]

\* First the id, then the policy (and its list).
GetDevicePolicy(r, d) ==
    /\ pc[r] = "idle"
    /\ row' = [row EXCEPT ![r] = Effective(d)]
    /\ Goto(r, "resolve")
    /\ UNCHANGED <<tables, tenant, list>>

\* A policy deleted since makes it fail (Refuse), although another is in force.
GetPolicy(r) ==
    /\ pc[r] = "resolve" /\ row[r] \in policies
    /\ list' = [list EXCEPT ![r] = apps[row[r]]]
    /\ Goto(r, "done")
    /\ UNCHANGED <<tables, row, tenant>>

PolicyRequests(r) ==
    \/ \E l \in GivenLists \cup {<<>>} : CreatePolicy(r, l)
    \/ \E p \in PolicyIds : DeletePolicy(r, p) \/ UpdatePolicy(r, p)
    \/ StorePolicy(r)

AssignRequests(r) ==
    \E d \in Devices : RemovePolicy(r, d) \/ \E p \in PolicyIds : AssignPolicy(r, p, d)

WhitelistRequests(r) ==
    \E p \in PolicyIds :
       \/ \E a \in Apps : RemoveApp(r, p, a)
       \/ \E e \in Entries : AddApp(r, p, e) \/ UpdateApp(r, p, e)

DeviceRequests(r) == GetPolicy(r) \/ \E d \in Devices : GetDevicePolicy(r, d)

-----------------------------------------------------------------------------
Next ==
    \E r \in Requests :
       \/ TenantRequests(r) \/ PolicyRequests(r) \/ AssignRequests(r)
       \/ WhitelistRequests(r) \/ DeviceRequests(r) \/ Refuse(r)

Spec == Init /\ [][Next]_vars

\* What concurrent requests create stays single: no slug names two tenants,
\* although CreateTenant checks before it inserts; and no package is twice in a
\* whitelist unless a request gave such a list whole: AddApp checks a copy, and
\* what it stores is that copy with one entry more.
NothingTwice ==
    /\ \A s \in Slugs, t, u \in Requests : {t, u} \subseteq GetBySlug(s) => t = u
    /\ \A p \in policies : Distinct(apps[p])

\* A device has a policy in force whatever is deleted and assigned: the one it
\* refers to exists, and the default stays (DeletePolicy against AssignPolicy
\* and GetByDevice).
EveryDeviceHasPolicy == \A d \in Devices : Effective(d) \in policies
=============================================================================
