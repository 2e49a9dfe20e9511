------------------------------ MODULE LandbRun ------------------------------
(***************************************************************************)
(* AVTools.run_landb (core/av_tools.py) under the CLI command that starts  *)
(* it (main.py): the devices of the EAM cache are looked up in LanDB by    *)
(* serial and, failing that, by name; the addresses of the matched devices *)
(* are looked up by serial and, failing that, by name; the rows this gives *)
(* are reconciled with the landb table.  Each of the four lookups goes out *)
(* in chunks, a chunk may fail after any part of its answer, and a failed  *)
(* chunk is indistinguishable from "no such device" except for the flag    *)
(* _landb_fetch_degraded.  Runs follow one another; InventorySync models   *)
(* those that overlap, so here the table is read and written in one step.  *)
(***************************************************************************)
EXTENDS Integers, FiniteSets, FiniteSetsExt

CONSTANTS
    Ids,          \* EAM equipment numbers
    Serials,      \* serial numbers
    Names,        \* device names: EAM descriptions and LanDB names
    Addresses,    \* SNMP target addresses
    None,         \* a blank serial or name, an address record without an ip
    NoRow,        \* no row, no record, no device
    Inventories,  \* EAM snapshots considered
    Directories,  \* LanDB contents considered
    ChunkSize,    \* LANDB_IN_CHUNK_SIZE
    MaxFaults,    \* bound: failed chunks, failed runs and kills in a behaviour
    MaxChanges    \* bound: changes of EAM or LanDB in a behaviour

\* One LanDB address row, and the columns it is compared by.
Row(device, address) == [device |-> device, address |-> address]

RowColumns == {"device", "address"}

\* Every row a view has sets both columns.
INSTANCE Reconcile WITH
    Columns <- RowColumns, Compared <- RowColumns, Unset <- NoRow,
    Rows <- {Row(n, a) : n \in Names, a \in Addresses}

Equipment == [serial : Serials \cup {None}, description : Names \cup {None}]

\* A LanDB device; its name is its key in a directory.
Device == [serial : Serials \cup {None}, addresses : SUBSET (Addresses \cup {None})]

\* What a lookup keeps of a device.
Found == [name : Names, serial : Serials \cup {None}]

ASSUME WorldAssumption ==
    /\ Inventories \subseteq [Ids -> Equipment \cup {NoRow}]
    /\ Directories \subseteq [Names -> Device \cup {NoRow}]
ASSUME ValuesAssumption ==
    /\ None \notin Serials \cup Names
    /\ NoRow \notin Found \cup Names \cup Addresses \cup {None}
ASSUME BoundsAssumption ==
    /\ ChunkSize \in Nat \ {0}
    /\ MaxFaults \in Nat
    /\ MaxChanges \in Nat

VARIABLES
    eam,              \* the EAM cache table
    landb,            \* LanDB
    table,            \* the landb cache table
    pc,               \* where the run is
    records,          \* the EAM snapshot the run works on
    todo,             \* values of the current lookup not yet asked for
    devicesBySerial,  \* answers of the four lookups
    devicesByName,
    ipsByDevice,
    degraded,         \* _landb_fetch_degraded
    status,           \* how the last run ended
    beat,             \* whether that run published its heartbeat
    faults,           \* faults so far
    changes,          \* changes so far
    calm              \* history: EAM and LanDB unchanged since the run began

lookups == <<devicesBySerial, devicesByName, ipsByDevice>>
world == <<eam, landb, changes, calm>>
vars == <<world, table, pc, records, todo, lookups, degraded, status, beat, faults>>

Lookups == {"device_by_serial", "device_by_name", "ip_by_serial", "ip_by_name"}

Statuses == {"none", "ok", "skipped_no_eam_devices", "failed",
             "failed_sync_mass_delete_refused", "failed_landb_fetch_degraded"}

TypeOK ==
    /\ eam \in Inventories
    /\ landb \in Directories
    /\ table \in Tables
    /\ pc \in Lookups \cup {"idle", "sync"}
    /\ records \in [Ids -> Equipment \cup {NoRow}]
    /\ todo \subseteq Serials \cup Names
    /\ devicesBySerial \in [Serials -> Found \cup {NoRow}]
    /\ devicesByName \in [Names -> Found \cup {NoRow}]
    /\ ipsByDevice \in [Names -> Addresses \cup {None, NoRow}]
    /\ degraded \in BOOLEAN
    /\ status \in Statuses
    /\ beat \in BOOLEAN
    /\ faults \in 0..MaxFaults
    /\ changes \in 0..MaxChanges
    /\ calm \in BOOLEAN

Nothing(keys) == [k \in keys |-> NoRow]

Init ==
    /\ eam \in Inventories
    /\ landb \in Directories
    /\ table = EmptyTable
    /\ pc = "idle"
    /\ records = Nothing(Ids)
    /\ todo = {}
    /\ devicesBySerial = Nothing(Serials)
    /\ devicesByName = Nothing(Names)
    /\ ipsByDevice = Nothing(Names)
    /\ degraded = FALSE
    /\ status = "none"
    /\ beat = FALSE
    /\ faults = 0
    /\ changes = 0
    /\ calm = TRUE

Fault ==
    /\ faults < MaxFaults
    /\ faults' = faults + 1

-----------------------------------------------------------------------------
(* Matching: _get_landb_ipaddresses between its lookups, from the answers  *)
(* bySerial, byName and ips.                                               *)

Known(m) == {k \in DOMAIN m : m[k] # NoRow}

KnownIn(m, k) == k \in Known(m)

\* Mutant: blank serials are asked for too.
WantedSerialsAndBlanks(recs) == {recs[i].serial : i \in Known(recs)}

WantedSerials(recs) == {recs[i].serial : i \in Known(recs)} \ {None}

\* Mutant: a serial LanDB does not know is not retried by name.
NamesOfUnserialised(recs, bySerial) ==
    {recs[i].description : i \in {j \in Known(recs) : recs[j].serial = None}} \ {None}

\* need_name_lookup: no serial, or a serial the first lookup did not find.
WantedNames(recs, bySerial) ==
    {recs[i].description : i \in {j \in Known(recs) : ~KnownIn(bySerial, recs[j].serial)}}
        \ {None}

\* The LanDB device matched to an EAM record: by serial, else by name.
Match(rec, bySerial, byName) ==
    IF KnownIn(bySerial, rec.serial) THEN bySerial[rec.serial]
    ELSE IF KnownIn(byName, rec.description) THEN byName[rec.description]
    ELSE NoRow

Matched(recs, bySerial, byName) ==
    {Match(recs[i], bySerial, byName) : i \in Known(recs)} \ {NoRow}

\* Device.name = IPAddress.device; a device without an ip gives no row.
ViewRow(rec, bySerial, byName, ips) ==
    LET device == Match(rec, bySerial, byName)
    IN  IF device = NoRow \/ ips[device.name] \in {None, NoRow} THEN NoRow
        ELSE Row(device.name, ips[device.name])

View(recs, bySerial, byName, ips) ==
    [i \in Ids |-> IF i \in Known(recs) THEN ViewRow(recs[i], bySerial, byName, ips)
                   ELSE NoRow]

-----------------------------------------------------------------------------
(* LanDB's answers.  Its order is its own, so "first wins" is any of them. *)

Devices == {[name |-> n, serial |-> landb[n].serial] : n \in Known(landb)}

DevicesBySerial(s) == {d \in Devices : d.serial = s}
DevicesByName(n) == {d \in Devices : d.name = n}
AddressesOf(n) == IF n \in Known(landb) THEN landb[n].addresses ELSE {}

\* One result among the candidates; a failed chunk may not have got to it.
Pick(candidates, lost) ==
    IF candidates = {} THEN {NoRow}
    ELSE candidates \cup (IF lost THEN {NoRow} ELSE {})

\* results after a chunk whose keys are keys: a key already there is kept.
Merge(results, got) ==
    [k \in DOMAIN results |->
        IF results[k] = NoRow /\ k \in DOMAIN got THEN got[k] ELSE results[k]]

\* The chunks a request may hold: the list order decides which.
Chunks(values) ==
    kSubset(IF Cardinality(values) < ChunkSize THEN Cardinality(values) ELSE ChunkSize,
            values)

-----------------------------------------------------------------------------
(* EAM and LanDB.                                                          *)

Change ==
    /\ changes < MaxChanges
    /\ changes' = changes + 1
    /\ calm' = FALSE

EamChanges ==
    /\ Change
    /\ eam' \in Inventories \ {eam}
    /\ UNCHANGED <<landb, table, pc, records, todo, lookups, degraded, status, beat, faults>>

LandbChanges ==
    /\ Change
    /\ landb' \in Directories \ {landb}
    /\ UNCHANGED <<eam, table, pc, records, todo, lookups, degraded, status, beat, faults>>

-----------------------------------------------------------------------------
(* The end of a run: the status decides exit code and heartbeat.           *)

\* Mutant: only completed_with_errors and the unexpected count.
StatusIsBroken(s) == s = "failed"

\* _status_is_failure: failed_* (completed_with_errors is not reached here).
StatusIsFailure(s) ==
    s \in {"failed", "failed_sync_mass_delete_refused", "failed_landb_fetch_degraded"}

\* The run's local state goes with its process.
Forget ==
    /\ pc' = "idle"
    /\ records' = Nothing(Ids)
    /\ todo' = {}
    /\ devicesBySerial' = Nothing(Serials)
    /\ devicesByName' = Nothing(Names)
    /\ ipsByDevice' = Nothing(Names)
    /\ degraded' = FALSE

End(s) ==
    /\ Forget
    /\ status' = s
    /\ beat' = ~StatusIsFailure(s)

-----------------------------------------------------------------------------
(* The run.                                                                *)

\* The EAM snapshot is loaded and is not empty.
Start ==
    /\ pc = "idle"
    /\ Known(eam) # {}
    /\ records' = eam
    /\ pc' = "device_by_serial"
    /\ todo' = WantedSerials(eam)
    /\ degraded' = FALSE
    /\ calm' = TRUE
    /\ UNCHANGED <<eam, landb, changes, table, lookups, status, beat, faults>>

\* No EAM devices: nothing to look up, and nothing is touched.
Skip ==
    /\ pc = "idle"
    /\ Known(eam) = {}
    /\ End("skipped_no_eam_devices")
    /\ UNCHANGED <<world, table, faults>>

\* Mutant: each lookup overwrites the flag.
DegradedNow(flag, lost) == lost

\* Every lookup ORs its own failure into the flag.
Degraded(flag, lost) == flag \/ lost

\* A chunk is asked for; lost says that it failed.
Asks(chunk, lost) ==
    /\ todo' = todo \ chunk
    /\ degraded' = Degraded(degraded, lost)
    /\ IF lost THEN Fault ELSE UNCHANGED faults
    /\ UNCHANGED <<world, table, pc, records, status, beat>>

FetchDevicesBySerial(lost) ==
    /\ pc = "device_by_serial"
    /\ todo # {}
    /\ \E chunk \in Chunks(todo) :
          /\ Asks(chunk, lost)
          /\ \E got \in [chunk -> Found \cup {NoRow}] :
                /\ \A s \in chunk : got[s] \in Pick(DevicesBySerial(s), lost)
                /\ devicesBySerial' = Merge(devicesBySerial, got)
    /\ UNCHANGED <<devicesByName, ipsByDevice>>

FetchDevicesByName(lost) ==
    /\ pc = "device_by_name"
    /\ todo # {}
    /\ \E chunk \in Chunks(todo) :
          /\ Asks(chunk, lost)
          /\ \E got \in [chunk -> Found \cup {NoRow}] :
                /\ \A n \in chunk : got[n] \in Pick(DevicesByName(n), lost)
                /\ devicesByName' = Merge(devicesByName, got)
    /\ UNCHANGED <<devicesBySerial, ipsByDevice>>

\* The addresses of the devices in names, by IPAddress.device.
FetchIps(names, chunk, lost) ==
    /\ Asks(chunk, lost)
    /\ \E got \in [names -> Addresses \cup {None, NoRow}] :
          /\ \A n \in names : got[n] \in Pick(AddressesOf(n), lost)
          /\ ipsByDevice' = Merge(ipsByDevice, got)
    /\ UNCHANGED <<devicesBySerial, devicesByName>>

FetchIpsBySerial(lost) ==
    /\ pc = "ip_by_serial"
    /\ todo # {}
    /\ \E chunk \in Chunks(todo) :
          FetchIps({n \in Known(landb) : landb[n].serial \in chunk}, chunk, lost)

FetchIpsByName(lost) ==
    /\ pc = "ip_by_name"
    /\ todo # {}
    /\ \E chunk \in Chunks(todo) : FetchIps(chunk, chunk, lost)

MatchedNow == Matched(records, devicesBySerial, devicesByName)

\* Every chunk of a lookup has been asked for: on to the next.
NextLookup ==
    /\ pc \in Lookups
    /\ todo = {}
    /\ \/ /\ pc = "device_by_serial"
          /\ pc' = "device_by_name"
          /\ todo' = WantedNames(records, devicesBySerial)
       \/ /\ pc = "device_by_name"
          /\ pc' = "ip_by_serial"
          /\ todo' = {d.serial : d \in MatchedNow} \ {None}
       \/ /\ pc = "ip_by_serial"
          /\ pc' = "ip_by_name"
          /\ todo' = {d.name : d \in MatchedNow} \ Known(ipsByDevice)
       \/ /\ pc = "ip_by_name"
          /\ pc' = "sync"
          /\ todo' = {}
    /\ UNCHANGED <<world, table, records, lookups, degraded, status, beat, faults>>

ViewNow == View(records, devicesBySerial, devicesByName, ipsByDevice)

\* Read the table, reconcile, commit, and report.
Sync ==
    /\ pc = "sync"
    /\ table' = CommitAlone(table, ViewNow, ~degraded)
    /\ End(IF Refused(table, ViewNow, ~degraded) THEN "failed_sync_mass_delete_refused"
           ELSE IF degraded THEN "failed_landb_fetch_degraded"
           ELSE "ok")
    /\ UNCHANGED <<world, faults>>

\* The EAM snapshot, the LanDB client, or Postgres at the end: an exception
\* run_landb turns into a failed_* status.
RunFails ==
    /\ Fault
    /\ pc \in {"idle", "sync"}
    /\ End("failed")
    /\ UNCHANGED <<world, table>>

\* The process is killed: no status, no heartbeat.
Crash ==
    /\ Fault
    /\ pc # "idle"
    /\ Forget
    /\ status' = "none"
    /\ beat' = FALSE
    /\ UNCHANGED <<world, table>>

-----------------------------------------------------------------------------

Fetch(lost) ==
    \/ FetchDevicesBySerial(lost)
    \/ FetchDevicesByName(lost)
    \/ FetchIpsBySerial(lost)
    \/ FetchIpsByName(lost)

Work == Start \/ Skip \/ Fetch(FALSE) \/ NextLookup \/ Sync

Next == Work \/ Fetch(TRUE) \/ RunFails \/ Crash \/ EamChanges \/ LandbChanges

Spec == Init /\ [][Next]_vars

(* The timer starts the job again and again, and a run left alone proceeds *)
(* to its end; nothing makes EAM or LanDB change, or anything fail.        *)
FairSpec == Spec /\ WF_vars(Work)

-----------------------------------------------------------------------------
(* Properties.                                                             *)

(* Reference: what LanDB says of an EAM record, device by device and       *)
(* without lookups, chunks or intermediate maps.                           *)
CanMatch(rec) ==
    LET bySerial == {d \in Devices : rec.serial # None /\ d.serial = rec.serial}
        byName == {d \in Devices : d.name = rec.description}
    IN  IF bySerial # {} THEN bySerial ELSE byName

RowsOf(device) ==
    IF AddressesOf(device.name) = {} THEN {NoRow}
    ELSE {IF a = None THEN NoRow ELSE Row(device.name, a) : a \in AddressesOf(device.name)}

Expected(i) ==
    IF i \notin Known(eam) \/ CanMatch(eam[i]) = {} THEN {NoRow}
    ELSE UNION {RowsOf(d) : d \in CanMatch(eam[i])}

(* When no chunk was lost and nothing changed meanwhile, the four chunked  *)
(* lookups and the two correlations produce for every EAM device exactly   *)
(* a row LanDB has for it, or no row when LanDB has none.                  *)
CompleteViewIsExact ==
    pc = "sync" /\ ~degraded /\ calm => \A i \in Ids : ViewNow[i] \in Expected(i)

(* A cached device is deleted only when LanDB really has no address for    *)
(* it: no lost chunk, whichever lookup lost it, makes a live device's row  *)
(* disappear ("deletes NOTHING ... on a partial view").                    *)
OnlyAbsentDevicesAreDeleted ==
    [][calm => \A i \in Ids : table[i] # NoRow /\ table'[i] = NoRow
                                => NoRow \in Expected(i)]_vars

(* The heartbeat means what its alert takes it to mean: the run that beats *)
(* has just made the whole table agree with LanDB, or EAM was empty.       *)
HeartbeatMeansMirrored ==
    [][pc = "sync" /\ pc' = "idle" /\ beat' /\ calm =>
            \A i \in Ids : table'[i] \in Expected(i)]_vars

Mirrored == \A i \in Ids : table[i] \in Expected(i)

(* Over half of the table is gone from LanDB, or EAM is empty: the code    *)
(* refuses to follow.                                                      *)
Stuck ==
    \/ Known(eam) = {}
    \/ 2 * Cardinality({i \in Present(table) : NoRow \in Expected(i)})
          > Cardinality(Present(table))

(* Once LanDB, EAM and the faults settle, later runs repair whatever       *)
(* degraded, killed or outdated runs left in the table.                    *)
Heals == <>[](Mirrored \/ Stuck)

(* "A degraded lookup is NOT the same as 'no rows for those values': ...   *)
(* callers must not treat it as authoritative": a run on a partial view    *)
(* never writes a row that a complete lookup would not write.              *)
DegradedIsNotNotFound ==
    changes = 0 => \A i \in Ids : table[i] # NoRow => table[i] \in Expected(i)
=============================================================================
