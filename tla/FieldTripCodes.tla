---------------------------- MODULE FieldTripCodes ---------------------------
(***************************************************************************)
(* The QR codes that set tablets up (internal/api/export_handler.go,       *)
(* HandleGetDeviceQR in fieldtrip_handler.go), and the settings kept in a  *)
(* device's row, on top of the registry of FieldTripHub.  A code names the *)
(* device, its API key and the key of a group; a tablet binds with what is *)
(* on a code it scanned.  A code is rendered from several statements, with *)
(* those of other requests between them.  Codes whose API key was not      *)
(* found are left out: nobody can bind with them.                          *)
(***************************************************************************)
EXTENDS FieldTripHub

CONSTANTS Renders   (* requests that render codes *)

VARIABLES
    xpc,        (* xpc[x]: where the request stands                        *)
    xgroup,     (* xgroup[x]: the group it found                           *)
    xleft,      (* xleft[x]: the devices whose API keys it has yet to read *)
    pages,      (* pages[x]: the devices it has made a code for            *)
    codes,      (* codes[d]: the groups whose keys are on codes of d       *)
    settings    (* the devices whose rows hold a reported or set value     *)

renderVars == <<xpc, xgroup, xleft, pages, codes>>
hubVars == vars
codeVars == <<hubVars, renderVars, settings>>

CodesTypeOK ==
    /\ TypeOK
    /\ xpc \in [Renders -> {"idle", "list", "group", "keys", "done"}]
    /\ xgroup \in [Renders -> Groups \cup {All}]
    /\ xleft \in [Renders -> SUBSET Devices]
    /\ pages \in [Renders -> SUBSET Devices]
    /\ codes \in [Devices -> SUBSET (Groups \cup {All})]
    /\ settings \subseteq Rows

CodesInit ==
    /\ Init
    /\ xpc = [x \in Renders |-> "idle"]
    /\ xgroup = [x \in Renders |-> All]
    /\ xleft = [x \in Renders |-> {}]
    /\ pages = [x \in Renders |-> {}]
    /\ codes = [d \in Devices |-> {}]
    /\ settings = {}

-----------------------------------------------------------------------------
(* Rendering codes.                                                        *)

(* HandleExportPDF: the group by its id, then its devices.                 *)
ExportGroup(x, g) ==
    /\ xpc[x] = "idle" /\ g \in Live
    /\ xpc' = [xpc EXCEPT ![x] = "list"]
    /\ xgroup' = [xgroup EXCEPT ![x] = g]
    /\ UNCHANGED <<hubVars, xleft, pages, codes, settings>>

(* Faulty variant: the devices of all groups.                              *)
ListEverybody(x) == Rows

ListDevicesByGroup(x) == {d \in Rows : groupId[d] = xgroup[x]}

ExportList(x) ==
    /\ xpc[x] = "list"
    /\ xleft' = [xleft EXCEPT ![x] = ListDevicesByGroup(x)]
    /\ xpc' = [xpc EXCEPT ![x] = IF ListDevicesByGroup(x) = {} THEN "done" ELSE "keys"]
    /\ UNCHANGED <<hubVars, xgroup, pages, codes, settings>>

(* HandleGetDeviceQR: the device, then the group of its row.               *)
DeviceRow(x, d) ==
    /\ xpc[x] = "idle" /\ d \in Rows
    /\ xpc' = [xpc EXCEPT ![x] = "group"]
    /\ xgroup' = [xgroup EXCEPT ![x] = groupId[d]]
    /\ xleft' = [xleft EXCEPT ![x] = {d}]
    /\ UNCHANGED <<hubVars, pages, codes, settings>>

DeviceGroup(x) ==
    /\ xpc[x] = "group"
    /\ IF xgroup[x] \in Live
       THEN xpc' = [xpc EXCEPT ![x] = "keys"] /\ UNCHANGED xleft
       ELSE xpc' = [xpc EXCEPT ![x] = "done"] /\ xleft' = [xleft EXCEPT ![x] = {}]
    /\ UNCHANGED <<hubVars, xgroup, pages, codes, settings>>

(* The cached key; one that has expired or cannot be read is not found.    *)
GetCachedAPIKey(x, d) ==
    /\ xpc[x] = "keys" /\ d \in xleft[x]
    /\ xleft' = [xleft EXCEPT ![x] = @ \ {d}]
    /\ \/ d \in keys /\ pages' = [pages EXCEPT ![x] = @ \cup {d}]
       \/ UNCHANGED pages
    /\ UNCHANGED <<hubVars, xpc, xgroup, codes, settings>>

(* The document is answered, or the request fails.                         *)
Answer(x) ==
    /\ xpc[x] = "keys" /\ xleft[x] = {}
    /\ xpc' = [xpc EXCEPT ![x] = "done"]
    /\ pages' = [pages EXCEPT ![x] = {}]
    /\ codes' \in {codes, [d \in Devices |->
                     IF d \in pages[x] THEN codes[d] \cup {xgroup[x]} ELSE codes[d]]}
    /\ UNCHANGED <<hubVars, xgroup, xleft, settings>>

HandleExportPDF(x) == (\E g \in Groups : ExportGroup(x, g)) \/ ExportList(x)
HandleGetDeviceQR(x) == (\E d \in Devices : DeviceRow(x, d)) \/ DeviceGroup(x)
Render(x) ==
    \/ HandleExportPDF(x) \/ HandleGetDeviceQR(x)
    \/ (\E d \in Devices : GetCachedAPIKey(x, d)) \/ Answer(x)

-----------------------------------------------------------------------------
(* Settings: an UPDATE of columns that nothing else reads, which finds no  *)
(* row once the device is deleted and succeeds all the same.  UpdateDevice *)
(* looks the device up before.                                             *)

StoreColumns(d) ==
    /\ settings' = settings \cup ({d} \cap Rows)
    /\ UNCHANGED <<hubVars, renderVars>>

ReportDeviceInfo(d) == StoreColumns(d)
SetDeviceConfig(d) == StoreColumns(d)

-----------------------------------------------------------------------------
(* A tablet binds with what is on a code of its own.                       *)
ByCode ==
    \A d \in Devices :
        /\ bpc[d] = "idle" /\ bpc'[d] = "group" => codes[d] # {}
        /\ bpc[d] = "group" /\ bpc'[d] # "group" => bgroup'[d] \in codes[d]

(* Faulty variant: a deleted row is only marked and keeps its columns.     *)
KeepColumns == UNCHANGED settings

(* The columns of a row go with it.                                        *)
Columns == settings' = settings \cap Rows'

Registry == Next /\ ByCode /\ Columns /\ UNCHANGED renderVars

CodesNext ==
    \/ Registry
    \/ \E x \in Renders : Render(x)
    \/ \E d \in Devices : ReportDeviceInfo(d) \/ SetDeviceConfig(d)

CodesSpec == CodesInit /\ [][CodesNext]_codeVars
=============================================================================
