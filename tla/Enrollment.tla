----------------------------- MODULE Enrollment -----------------------------
(***************************************************************************)
(* Enrolling and revoking devices: RegisterDevice, RefreshTokens and       *)
(* RevokeDevice run their statements one by one, without a transaction, on *)
(* the tables devices, device_certificates and refresh_tokens. A step is   *)
(* one statement.                                                          *)
(*                                                                         *)
(* The column device_info is a Go map that the repository hands to the     *)
(* driver and scans into as it is, which database/sql and both drivers     *)
(* refuse: no row of devices is ever written, and what comes after the     *)
(* first INSERT of a registration is modelled but never reached. MapColumns*)
(* says which program a behaviour is of.                                   *)
(*                                                                         *)
(* A uuid is stood for by the request that drew it: registration r names   *)
(* its device id, its certificate and its first refresh token r; refresh f *)
(* names the token it issues f.                                            *)
(***************************************************************************)
CONSTANTS
    Keys,           \* device keys, the identity of a piece of hardware
    Registrations,  \* POST /register requests
    Refreshes,      \* POST /refresh requests
    Revocations,    \* DELETE /device/:id requests
    MapColumns,     \* how a statement can fare that passes or scans device_info:
                    \* {FALSE} in this repository; BOOLEAN in one that converts
                    \* its maps, as repositories/tenant_repo.go does
    Outages,        \* whether statements may fail for other reasons (the
                    \* connection is lost, the client hangs up)
    None            \* no device, no token

VARIABLES
    tenant,     \* status of the tenant's row
    device,     \* devices: for each device_key its id and status
    cert,       \* device_certificates: state of the row of each device id
    token,      \* refresh_tokens: state of each row
    reg, key, found,        \* a registration's next step, its key, the row it read
    fresh, presented, owner,\* a refresh's next step, the token shown, device of the new one
    rev, target             \* a revocation's next step and device id

vars == <<tenant, device, cert, token, reg, key, found,
          fresh, presented, owner, rev, target>>

Ids == Registrations
Tokens == Registrations \cup Refreshes
Row == {"none", "live", "revoked"}
NoDevice == [id |-> None, status |-> "none"]

Owner(t) == IF t \in Registrations THEN t ELSE owner[t]

-----------------------------------------------------------------------------
(* The statements of the repositories *)

\* What devices(id), the foreign key of certificates and tokens, can refer to.
Known(id) == \E k \in Keys : device[k] # NoDevice /\ device[k].id = id

\* What the caller makes of the query: an error is taken for "no such device".
FindByKey(k) == {NoDevice} \cup IF TRUE \in MapColumns THEN {device[k]} ELSE {}

InsertDevice(k, id) ==
    /\ TRUE \in MapColumns
    /\ device[k] = NoDevice
    /\ device' = [device EXCEPT ![k] = [id |-> id, status |-> "active"]]

UpdateStatus(id, s) ==
    device' = [k \in Keys |-> IF device[k].id = id THEN [device[k] EXCEPT !.status = s]
                                                   ELSE device[k]]

\* The UPDATE of a re-registration; what matters of it here is the status.
UpdateDevice(id) == TRUE \in MapColumns /\ UpdateStatus(id, "active")

InsertCertificate(id) == Known(id) /\ cert' = [cert EXCEPT ![id] = "live"]

RevokeCertificate(id) == cert' = [cert EXCEPT ![id] = "revoked"]

InsertToken(t, id) == Known(id) /\ token' = [token EXCEPT ![t] = "live"]

\* A row that is not revoked, of any device.
FindToken(t) == token[t] = "live"

FindInForce(id) == cert[id] = "live"

\* WHERE id = ...: it changes one row, whether it is revoked already or not.
RevokeToken(t) == token' = [token EXCEPT ![t] = "revoked"]

RevokeAllForDevice(id) ==
    token' = [t \in Tokens |-> IF token[t] = "live" /\ Owner(t) = id THEN "revoked"
                                                                   ELSE token[t]]

-----------------------------------------------------------------------------
TypeOK ==
    /\ tenant \in {"active", "suspended"}
    /\ device \in [Keys -> [id: Ids \cup {None}, status: {"none", "active", "disabled"}]]
    /\ cert \in [Ids -> Row]
    /\ token \in [Tokens -> Row]
    /\ reg \in [Registrations -> {"idle", "refused", "find", "store", "sign",
                                "issue", "ok", "failed"}]
    /\ key \in [Registrations -> Keys]
    /\ found \in [Registrations -> Ids \cup {None}]
    /\ fresh \in [Refreshes -> {"idle", "revoke", "store", "ok", "failed"}]
    /\ presented \in [Refreshes -> Tokens \cup {None}]
    /\ owner \in [Refreshes -> Ids \cup {None}]
    /\ rev \in [Revocations -> {"idle", "find", "cert", "disable", "ok", "failed"}]
    /\ target \in [Revocations -> Ids \cup {None}]

Init ==
    /\ tenant = "active"
    /\ device = [k \in Keys |-> NoDevice]
    /\ cert = [r \in Ids |-> "none"]
    /\ token = [t \in Tokens |-> "none"]
    /\ reg = [r \in Registrations |-> "idle"]
    /\ key \in [Registrations -> Keys]
    /\ found = [r \in Registrations |-> None]
    /\ fresh = [f \in Refreshes |-> "idle"]
    /\ presented = [f \in Refreshes |-> None]
    /\ owner = [f \in Refreshes |-> None]
    /\ rev = [v \in Revocations |-> "idle"]
    /\ target = [v \in Revocations |-> None]

-----------------------------------------------------------------------------
(* Registration *)

RegGoes(r, step) == reg' = [reg EXCEPT ![r] = step]
RegEnds(r, at, how) ==
    reg[r] = at /\ RegGoes(r, how) /\ UNCHANGED <<device, cert, token, found>>

registering == <<tenant, key, fresh, presented, owner, rev, target>>

TenantAccepts == tenant = "active"

HandleRegister(r) ==
    /\ reg[r] = "idle"
    /\ \/ TenantAccepts /\ RegGoes(r, "find")
       \/ RegGoes(r, "refused")    \* a field is missing, no such tenant
    /\ UNCHANGED <<device, cert, token, found>>
    /\ UNCHANGED registering

\* The request ends when its signing request does not parse or is not signed.
ValidateCSR(r) == RegEnds(r, "find", "refused")

\* The verdict of Play Integrity is logged and changes nothing.
FindDevice(r) ==
    /\ \/ /\ reg[r] = "find"
          /\ \E row \in FindByKey(key[r]) :
                \/ /\ row.status = "active"
                   /\ RegGoes(r, "refused")
                   /\ UNCHANGED found
                \/ /\ row.status # "active"
                   /\ RegGoes(r, "store")
                   /\ found' = [found EXCEPT ![r] = row.id]
          /\ UNCHANGED <<device, cert, token>>
       \/ ValidateCSR(r)
    /\ UNCHANGED registering

\* An existing row keeps its id and becomes active; a new one is inserted under
\* the id of this request unless the key is taken (device_key is UNIQUE).
StoreDevice(r) ==
    /\ \/ /\ reg[r] = "store" /\ found[r] # None
          /\ UpdateDevice(found[r])
          /\ RegGoes(r, "sign")
          /\ UNCHANGED <<cert, token, found>>
       \/ /\ reg[r] = "store" /\ found[r] = None
          /\ InsertDevice(key[r], r)
          /\ RegGoes(r, "sign")
          /\ UNCHANGED <<cert, token, found>>
       \/ /\ \/ Outages \/ FALSE \in MapColumns
             \/ found[r] = None /\ device[key[r]] # NoDevice
          /\ RegEnds(r, "store", "failed")
    /\ UNCHANGED registering

\* The certificate is made out to the id of this request, not to the row's; the
\* foreign key refuses it when they differ.
SignCertificate(r) ==
    /\ \/ /\ reg[r] = "sign" /\ InsertCertificate(r)
          /\ RegGoes(r, "issue")
          /\ UNCHANGED <<device, token, found>>
       \/ /\ Outages \/ ~Known(r)
          /\ RegEnds(r, "sign", "failed")
    /\ UNCHANGED registering

\* The refresh token is stored and the credentials are returned.
IssueTokens(r) ==
    /\ \/ /\ reg[r] = "issue" /\ InsertToken(r, r)
          /\ RegGoes(r, "ok")
          /\ UNCHANGED <<device, cert, found>>
       \/ /\ Outages \/ ~Known(r)
          /\ RegEnds(r, "issue", "failed")
    /\ UNCHANGED registering

-----------------------------------------------------------------------------
(* Refresh *)

FreshGoes(f, step) == fresh' = [fresh EXCEPT ![f] = step]
refreshing == <<tenant, device, cert, reg, key, found, rev, target>>

\* Any token that was ever stored may be shown, also one that was used. One
\* that has expired is refused like one that is not found.
HandleRefreshToken(f, t) ==
    /\ fresh[f] = "idle"
    /\ token[t] # "none"
    /\ \/ FindToken(t) /\ FreshGoes(f, "revoke")
       \/ FreshGoes(f, "failed")
    /\ presented' = [presented EXCEPT ![f] = t]
    /\ UNCHANGED <<token, owner>>
    /\ UNCHANGED refreshing

\* It succeeds even if another request has used the token meanwhile.
RevokePresented(f) ==
    /\ fresh[f] = "revoke"
    /\ \/ RevokeToken(presented[f]) /\ FreshGoes(f, "store")
       \/ Outages /\ FreshGoes(f, "failed") /\ UNCHANGED token
    /\ UNCHANGED <<presented, owner>>
    /\ UNCHANGED refreshing

\* The device's status is not looked at.
StoreToken(f) ==
    /\ fresh[f] = "store"
    /\ \/ /\ InsertToken(f, Owner(presented[f]))
          /\ owner' = [owner EXCEPT ![f] = Owner(presented[f])]
          /\ FreshGoes(f, "ok")
       \/ /\ Outages \/ ~Known(Owner(presented[f]))
          /\ FreshGoes(f, "failed") /\ UNCHANGED <<token, owner>>
    /\ UNCHANGED presented
    /\ UNCHANGED refreshing

-----------------------------------------------------------------------------
(* Revocation *)

RevGoes(v, step) == rev' = [rev EXCEPT ![v] = step]
RevFails(v, at) ==
    Outages /\ rev[v] = at /\ RevGoes(v, "failed") /\ UNCHANGED <<device, cert, token, target>>

revoking == <<tenant, reg, key, found, fresh, presented, owner>>

\* A device that is not known has nothing to revoke.
HandleRevokeDevice(v, id) ==
    /\ rev[v] = "idle"
    /\ Known(id)
    /\ RevokeAllForDevice(id)
    /\ target' = [target EXCEPT ![v] = id]
    /\ RevGoes(v, "find")
    /\ UNCHANGED <<device, cert>>
    /\ UNCHANGED revoking

\* The certificate in force, if the query finds one; an error is taken for none.
FindCertificate(v) ==
    /\ rev[v] = "find"
    /\ \/ FindInForce(target[v]) /\ RevGoes(v, "cert")
       \/ (Outages \/ ~FindInForce(target[v])) /\ RevGoes(v, "disable")
    /\ UNCHANGED <<device, cert, token, target>>
    /\ UNCHANGED revoking

RevokeFound(v) ==
    /\ \/ /\ rev[v] = "cert"
          /\ RevokeCertificate(target[v])
          /\ RevGoes(v, "disable")
          /\ UNCHANGED <<device, token, target>>
       \/ RevFails(v, "cert")
    /\ UNCHANGED revoking

DisableDevice(v) ==
    /\ \/ /\ rev[v] = "disable"
          /\ UpdateStatus(target[v], "disabled")
          /\ RevGoes(v, "ok")
          /\ UNCHANGED <<cert, token, target>>
       \/ RevFails(v, "disable")
    /\ UNCHANGED revoking

\* The tenant's status changes through its own API (see TenantPolicy);
\* "suspended" stands for every status but "active", which is all that is asked.
SetTenantStatus ==
    /\ tenant' \in {"active", "suspended"}
    /\ UNCHANGED <<device, cert, token, reg, key, found, fresh, presented, owner,
                   rev, target>>

Register(r) == \/ HandleRegister(r) \/ FindDevice(r) \/ StoreDevice(r)
               \/ SignCertificate(r) \/ IssueTokens(r)
Refresh(f) == \/ \E t \in Tokens : HandleRefreshToken(f, t)
              \/ RevokePresented(f) \/ StoreToken(f)
Revoke(v) == \/ \E id \in Ids : HandleRevokeDevice(v, id)
             \/ FindCertificate(v) \/ RevokeFound(v) \/ DisableDevice(v)

Next ==
    \/ \E r \in Registrations : Register(r)
    \/ \E f \in Refreshes : Refresh(f)
    \/ \E v \in Revocations : Revoke(v)
    \/ SetTenantStatus

Spec == Init /\ [][Next]_vars

-----------------------------------------------------------------------------
\* What the hub answers when it is asked about a device or a certificate.
ValidateDevice(id) == \E k \in Keys : device[k] = [id |-> id, status |-> "active"]

IsCertificateValid(id) == cert[id] = "live"

\* What the API promises (POST /register: "register a device, get an access
\* token and a certificate"): a request that passed the checks of its tenant, its
\* signing request and its device fails only if another one took the key. The
\* code does not keep it: see MapColumns.
ChecksSuffice ==
    \A r \in Registrations : reg[r] = "failed" => device[key[r]] # NoDevice
=============================================================================
