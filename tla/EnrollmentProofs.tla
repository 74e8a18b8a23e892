-------------------------- MODULE EnrollmentProofs --------------------------
(***************************************************************************)
(* Proofs about Enrollment, for any number of keys and requests: the types *)
(* of its variables for every wiring, and what comes of registrations in   *)
(* this repository.                                                        *)
(***************************************************************************)
EXTENDS Enrollment, TLAPS

Devices == [id: Ids \cup {None}, status: {"none", "active", "disabled"}]

(* The UPDATE of a status touches no id.                                   *)
LEMMA StatusUpdate ==
  ASSUME device \in [Keys -> Devices], NEW id, NEW st \in {"active", "disabled"}, UpdateStatus(id, st)
  PROVE  /\ device' \in [Keys -> Devices]
         /\ \A k \in Keys : /\ device'[k].id = device[k].id
                            /\ device[k].id = id => device'[k].status = st
                            /\ device[k].id # id => device'[k] = device[k]
<1>1. \A k \in Keys : /\ device[k] \in Devices
                      /\ device'[k] = IF device[k].id = id THEN [device[k] EXCEPT !.status = st]
                                                            ELSE device[k]
  BY DEF UpdateStatus
<1>2. \A k \in Keys : /\ device'[k] \in Devices
                      /\ device'[k].id = device[k].id
                      /\ device[k].id = id => device'[k].status = st
                      /\ device[k].id # id => device'[k] = device[k]
  BY <1>1 DEF Devices
<1>3. device' = [k \in Keys |-> device'[k]]
  BY DEF UpdateStatus
<1>4. QED
  BY <1>2, <1>3

LEMMA InitTypeOK == Init => TypeOK
  BY DEF Init, TypeOK, NoDevice, Row, Ids, Tokens

LEMMA NextTypeOK == TypeOK /\ [Next]_vars => TypeOK'
<1> SUFFICES ASSUME TypeOK, [Next]_vars PROVE TypeOK'
  OBVIOUS
<1> USE DEF TypeOK, Row, Ids
<1>1. CASE \E r \in Registrations : Register(r)
  <2> PICK r \in Registrations : Register(r)
    BY <1>1
  <2> USE DEF registering, RegGoes, RegEnds, Tokens
  <2>1. CASE HandleRegister(r)
    BY <2>1 DEF HandleRegister
  <2>2. CASE FindDevice(r)
    <3>1. CASE ValidateCSR(r)
      BY <2>2, <3>1 DEF FindDevice, ValidateCSR
    <3>2. CASE ~ValidateCSR(r)
      <4>1. PICK row \in FindByKey(key[r]) :
                   /\ RegGoes(r, "refused") \/ RegGoes(r, "store")
                   /\ UNCHANGED found \/ found' = [found EXCEPT ![r] = row.id]
        BY <2>2, <3>2 DEF FindDevice
      <4>2. row.id \in Ids \cup {None}
        <5>1. row = NoDevice \/ row = device[key[r]]
          BY <4>1 DEF FindByKey
        <5>2. NoDevice.id = None /\ device[key[r]].id \in Ids \cup {None}
          BY DEF NoDevice
        <5>3. QED
          BY <5>1, <5>2
      <4>3. found' \in [Registrations -> Ids \cup {None}]
        BY <4>1, <4>2
      <4>4. UNCHANGED <<device, cert, token>> /\ UNCHANGED registering
        BY <2>2, <3>2 DEF FindDevice
      <4>5. QED
        BY <4>1, <4>3, <4>4
    <3>3. QED
      BY <3>1, <3>2
  <2>3. CASE StoreDevice(r)
    <3>1. ASSUME UpdateDevice(found[r]) PROVE device' \in [Keys -> Devices]
      BY <3>1, StatusUpdate DEF UpdateDevice, Devices
    <3>2. ASSUME InsertDevice(key[r], r) PROVE device' \in [Keys -> Devices]
      BY <3>2 DEF InsertDevice, Devices
    <3>3. device' \in [Keys -> Devices]
      BY <2>3, <3>1, <3>2 DEF StoreDevice, Devices
    <3>4. UNCHANGED <<cert, token, found>> /\ (RegGoes(r, "sign") \/ RegGoes(r, "failed"))
      BY <2>3 DEF StoreDevice
    <3>5. QED
      BY <2>3, <3>3, <3>4 DEF StoreDevice, Devices
  <2>4. CASE SignCertificate(r)
    BY <2>4 DEF SignCertificate, InsertCertificate
  <2>5. CASE IssueTokens(r)
    BY <2>5 DEF IssueTokens, InsertToken
  <2>6. QED
    BY <2>1, <2>2, <2>3, <2>4, <2>5 DEF Register
<1>2. CASE \E f \in Refreshes : Refresh(f)
  <2> PICK f \in Refreshes : Refresh(f)
    BY <1>2
  <2> USE DEF refreshing, FreshGoes, Tokens
  <2>1. CASE \E t \in Tokens : HandleRefreshToken(f, t)
    BY <2>1 DEF HandleRefreshToken
  <2>2. CASE RevokePresented(f)
    BY <2>2 DEF RevokePresented, RevokeToken
  <2>3. CASE StoreToken(f)
    <3>1. Known(Owner(presented[f])) => Owner(presented[f]) \in Ids \cup {None}
      BY DEF Known
    <3>2. QED
      BY <2>3, <3>1 DEF StoreToken, InsertToken
  <2>4. QED
    BY <2>1, <2>2, <2>3 DEF Refresh
<1>3. CASE \E v \in Revocations : Revoke(v)
  <2> PICK v \in Revocations : Revoke(v)
    BY <1>3
  <2> USE DEF revoking, RevGoes, RevFails
  <2>1. CASE \E id \in Ids : HandleRevokeDevice(v, id)
    BY <2>1 DEF HandleRevokeDevice, RevokeAllForDevice
  <2>2. CASE FindCertificate(v)
    BY <2>2 DEF FindCertificate
  <2>3. CASE RevokeFound(v)
    BY <2>3 DEF RevokeFound, RevokeCertificate
  <2>4. CASE DisableDevice(v)
    BY <2>4 DEF DisableDevice, UpdateStatus
  <2>5. QED
    BY <2>1, <2>2, <2>3, <2>4 DEF Revoke
<1>4. CASE SetTenantStatus
  BY <1>4 DEF SetTenantStatus
<1>5. CASE UNCHANGED vars
  BY <1>5 DEF vars
<1>6. QED
  BY <1>1, <1>2, <1>3, <1>4, <1>5 DEF Next

(* Every variable stays of its type, whichever statements fail and whether *)
(* maps are converted or not.                                              *)
THEOREM TypeCorrect == Spec => []TypeOK
  BY InitTypeOK, NextTypeOK, PTL DEF Spec
-----------------------------------------------------------------------------
(* Where the drivers refuse device_info, no row is ever written.           *)
NothingStored ==
    /\ \A k \in Keys : device[k] = NoDevice
    /\ \A id \in Ids : cert[id] = "none"
    /\ \A t \in Tokens : token[t] = "none"
    /\ \A r \in Registrations : /\ reg[r] \in {"idle", "refused", "find", "store", "failed"}
                               /\ found[r] = None
    /\ \A f \in Refreshes : fresh[f] = "idle"
    /\ \A v \in Revocations : rev[v] = "idle"

LEMMA InitNothingStored == Init => NothingStored
  BY DEF Init, NothingStored

LEMMA NextNothingStored ==
  ASSUME MapColumns = {FALSE}, TypeOK, NothingStored, [Next]_vars
  PROVE  NothingStored'
<1> USE DEF TypeOK, NothingStored
<1>1. CASE \E r \in Registrations : Register(r)
  <2> PICK r \in Registrations : Register(r)
    BY <1>1
  <2> USE DEF registering, RegGoes, RegEnds
  <2>1. CASE HandleRegister(r)
    BY <2>1 DEF HandleRegister
  <2>2. CASE FindDevice(r)
    <3>1. FindByKey(key[r]) = {NoDevice} /\ NoDevice.id = None
      BY DEF FindByKey, NoDevice
    <3>2. QED
      BY <2>2, <3>1 DEF FindDevice, ValidateCSR
  <2>3. CASE StoreDevice(r)
    <3>1. RegEnds(r, "store", "failed")
      BY <2>3 DEF StoreDevice, UpdateDevice, InsertDevice
    <3>2. QED
      BY <2>3, <3>1 DEF StoreDevice
  <2>4. CASE SignCertificate(r) \/ IssueTokens(r)
    BY <2>4 DEF SignCertificate, IssueTokens
  <2>5. QED
    BY <2>1, <2>2, <2>3, <2>4 DEF Register
<1>2. CASE \E f \in Refreshes : Refresh(f)
  BY <1>2 DEF Refresh, HandleRefreshToken, RevokePresented, StoreToken
<1>3. CASE \E v \in Revocations : Revoke(v)
  BY <1>3 DEF Revoke, HandleRevokeDevice, FindCertificate, RevokeFound, DisableDevice, RevFails,
              Known
<1>4. CASE SetTenantStatus
  BY <1>4 DEF SetTenantStatus
<1>5. CASE UNCHANGED vars
  BY <1>5 DEF vars
<1>6. QED
  BY <1>1, <1>2, <1>3, <1>4, <1>5 DEF Next

(* What the hub can answer for when nobody could enroll: no registration   *)
(* returns credentials, no device is valid, no certificate in force, and   *)
(* no refresh token is found.                                              *)
NobodyEnrolled ==
    /\ \A r \in Registrations : reg[r] # "ok"
    /\ \A id \in Ids : ~ValidateDevice(id) /\ ~IsCertificateValid(id)
    /\ \A t \in Tokens : ~FindToken(t)

(* What the code does with the drivers it is built with: POST /register    *)
(* enrolls nobody, whatever is asked for and in whichever order.           *)
THEOREM NobodyEnrolls ==
  ASSUME MapColumns = {FALSE}
  PROVE  Spec => []NobodyEnrolled
<1>1. TypeOK /\ NothingStored /\ [Next]_vars => NothingStored'
  BY NextNothingStored
<1>2. NothingStored => NobodyEnrolled
  <2>1. NothingStored => \A id \in Ids : ~ValidateDevice(id)
    BY DEF NothingStored, ValidateDevice, NoDevice
  <2>2. QED
    BY <2>1 DEF NothingStored, NobodyEnrolled, IsCertificateValid, FindToken
<1>3. QED
  BY InitNothingStored, <1>1, <1>2, TypeCorrect, PTL DEF Spec
=============================================================================
