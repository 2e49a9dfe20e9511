--------------------------- MODULE LandbRunProofs ---------------------------
(* Proofs about LandbRun for any records, directories, chunk size and      *)
(* bounds: types; that a view no chunk is missing from is exactly what     *)
(* LanDB says; that no device is deleted but for its absence; and that a   *)
(* heartbeat means the table mirrors LanDB.                                *)
EXTENDS LandbRun, FiniteSetTheorems, TLAPS

-----------------------------------------------------------------------------
(* What the run has been told.                                             *)

\* An idle process keeps nothing of the run before.
Clean ==
    pc = "idle" =>
        /\ devicesBySerial = Nothing(Serials)
        /\ devicesByName = Nothing(Names)
        /\ ipsByDevice = Nothing(Names)

\* Whatever was lost, what the run has is LanDB's.
Genuine ==
    /\ pc # "idle" => records = eam
    /\ \A s \in Serials : devicesBySerial[s] \in {NoRow} \cup DevicesBySerial(s)
    /\ \A n \in Names : devicesByName[n] \in {NoRow} \cup DevicesByName(n)
    /\ \A n \in Names : ipsByDevice[n] \in {NoRow} \cup AddressesOf(n)

(* When nothing was lost, no answer means that there is none: of a serial  *)
(* or a name once it has been asked for, and of an address when all the    *)
(* matched devices have been.                                              *)
SerialsAnswered ==
    pc # "idle" =>
        \A s \in WantedSerials(records) :
            \/ pc = "device_by_serial" /\ s \in todo
            \/ devicesBySerial[s] = NoRow => DevicesBySerial(s) = {}

NamesAnswered ==
    pc \notin {"idle", "device_by_serial"} =>
        \A n \in WantedNames(records, devicesBySerial) :
            \/ pc = "device_by_name" /\ n \in todo
            \/ devicesByName[n] = NoRow => DevicesByName(n) = {}

AddressesAnswered ==
    pc \in {"ip_by_name", "sync"} =>
        \A d \in MatchedNow :
            \/ pc = "ip_by_name" /\ d.name \in todo
            \/ ipsByDevice[d.name] = NoRow => AddressesOf(d.name) = {}

Answered == SerialsAnswered /\ NamesAnswered /\ AddressesAnswered

LandbInv ==
    /\ TypeOK
    /\ Clean
    /\ calm => Genuine
    /\ calm /\ ~degraded => Answered

-----------------------------------------------------------------------------
(* The operators.                                                          *)

\* Records, devices and addresses have their types.
LEMMA WorldTypes ==
    ASSUME TypeOK
    PROVE  /\ \A i \in Known(records) : i \in Ids /\ records[i] \in Equipment
           /\ \A n \in Known(landb) : n \in Names /\ landb[n] \in Device
           /\ Devices \subseteq Found
           /\ \A n : AddressesOf(n) \subseteq Addresses \cup {None}
           /\ \A s : NoRow \notin DevicesBySerial(s)
           /\ \A n : NoRow \notin DevicesByName(n)
           /\ \A n : NoRow \notin AddressesOf(n)
<1>1. \A i \in Known(records) : i \in Ids /\ records[i] \in Equipment
    BY DEF TypeOK, Known
<1>2. \A n \in Known(landb) : n \in Names /\ landb[n] \in Device
    BY WorldAssumption DEF TypeOK, Known
<1>3. Devices \subseteq Found
    BY <1>2 DEF Devices, Device, Found
<1>4. \A n : AddressesOf(n) \subseteq Addresses \cup {None}
    BY <1>2 DEF AddressesOf, Device
<1>. QED BY <1>1, <1>2, <1>3, <1>4, ValuesAssumption DEF DevicesBySerial, DevicesByName

\* A match is the first answer there is; all that is wanted has a type.
LEMMA MatchTypes ==
    ASSUME TypeOK
    PROVE  /\ WantedSerials(records) \subseteq Serials
           /\ WantedNames(records, devicesBySerial) \subseteq Names
           /\ MatchedNow \subseteq Found
           /\ \A i \in Known(records) :
                  Match(records[i], devicesBySerial, devicesByName) \in Found \cup {NoRow}
<1>1. \A i \in Known(records) : records[i] \in Equipment
    BY WorldTypes
<1>2. \A s \in Known(devicesBySerial) : devicesBySerial[s] \in Found
    BY DEF TypeOK, Known
<1>3. \A n \in Known(devicesByName) : devicesByName[n] \in Found
    BY DEF TypeOK, Known
<1>4. \A i \in Known(records) :
          Match(records[i], devicesBySerial, devicesByName) \in Found \cup {NoRow}
    BY <1>2, <1>3 DEF Match, KnownIn
<1>5. MatchedNow \subseteq Found
    BY <1>4 DEF MatchedNow, Matched
<1>6. WantedSerials(records) \subseteq Serials
    BY <1>1 DEF WantedSerials, Equipment
<1>7. WantedNames(records, devicesBySerial) \subseteq Names
    BY <1>1 DEF WantedNames, Equipment
<1>. QED BY <1>4, <1>5, <1>6, <1>7

\* The view has the type of a table.
LEMMA ViewIsTable == TypeOK => ViewNow \in Tables
<1>. SUFFICES ASSUME TypeOK, NEW i \in Ids
              PROVE  ViewNow[i] \in {Row(n, a) : n \in Names, a \in Addresses} \cup {NoRow}
    BY DEF ViewNow, View, Tables
<1>. DEFINE device == Match(records[i], devicesBySerial, devicesByName)
<1>1. CASE i \notin Known(records)
    BY <1>1 DEF ViewNow, View
<1>2. CASE i \in Known(records)
  <2>1. device \in Found \cup {NoRow}
      BY <1>2, MatchTypes
  <2>2. ViewNow[i] = IF device = NoRow \/ ipsByDevice[device.name] \in {None, NoRow} THEN NoRow
                     ELSE Row(device.name, ipsByDevice[device.name])
      BY <1>2 DEF ViewNow, View, ViewRow
  <2>3. device # NoRow => device.name \in Names
                          /\ ipsByDevice[device.name] \in Addresses \cup {None, NoRow}
      BY <2>1 DEF Found, TypeOK
  <2>. HIDE DEF device
  <2>. QED BY <2>2, <2>3
<1>. QED BY <1>1, <1>2

LEMMA CommitIsTable ==
    ASSUME NEW t \in Tables, NEW api \in Tables, NEW allow
    PROVE  CommitAlone(t, api, allow) \in Tables
BY DEF CommitAlone, Tables

-----------------------------------------------------------------------------
(* The view.                                                               *)

\* With every question answered, a record's match is one LanDB has, and
\* there is one if LanDB has one.
LEMMA MatchIsExact ==
    ASSUME LandbInv, pc = "sync", ~degraded, calm, NEW i \in Known(records)
    PROVE  LET device == Match(records[i], devicesBySerial, devicesByName)
           IN  /\ device # NoRow => device \in CanMatch(records[i])
               /\ device = NoRow => CanMatch(records[i]) = {}
<1>. DEFINE rec == records[i]
            bySerial == {d \in Devices : rec.serial # None /\ d.serial = rec.serial}
            byName == {d \in Devices : d.name = rec.description}
<1>1. /\ rec \in Equipment
      /\ DOMAIN devicesBySerial = Serials /\ DOMAIN devicesByName = Names
      /\ Devices \subseteq Found
    BY WorldTypes DEF LandbInv, TypeOK
<1>2. Genuine /\ SerialsAnswered /\ NamesAnswered
    BY DEF LandbInv, Answered
<1>3. \/ /\ KnownIn(devicesBySerial, rec.serial)
         /\ devicesBySerial[rec.serial] # NoRow /\ devicesBySerial[rec.serial] \in bySerial
      \/ ~KnownIn(devicesBySerial, rec.serial) /\ bySerial = {}
  <2>1. CASE rec.serial # None
    <3>1. rec.serial \in Serials /\ rec.serial \in WantedSerials(records)
        BY <1>1, <2>1 DEF Equipment, WantedSerials
    <3>2. bySerial = DevicesBySerial(rec.serial)
        BY <2>1 DEF DevicesBySerial
    <3>3. devicesBySerial[rec.serial] \in {NoRow} \cup bySerial
        BY <1>2, <3>1, <3>2 DEF Genuine
    <3>4. devicesBySerial[rec.serial] = NoRow => bySerial = {}
        BY <1>2, <3>1, <3>2 DEF SerialsAnswered
    <3>5. KnownIn(devicesBySerial, rec.serial) <=> devicesBySerial[rec.serial] # NoRow
        BY <1>1, <3>1 DEF KnownIn, Known
    <3>. QED BY <3>3, <3>4, <3>5
  <2>2. CASE rec.serial = None
      BY <1>1, <2>2, ValuesAssumption DEF KnownIn, Known
  <2>. QED BY <2>1, <2>2
<1>4. CASE KnownIn(devicesBySerial, rec.serial)
    BY <1>3, <1>4 DEF Match, CanMatch
<1>5. CASE ~KnownIn(devicesBySerial, rec.serial)
  <2>1. \/ /\ KnownIn(devicesByName, rec.description)
           /\ devicesByName[rec.description] # NoRow
           /\ devicesByName[rec.description] \in byName
        \/ ~KnownIn(devicesByName, rec.description) /\ byName = {}
    <3>1. CASE rec.description # None
      <4>1. rec.description \in Names /\ rec.description \in WantedNames(records, devicesBySerial)
          BY <1>1, <1>5, <3>1 DEF Equipment, WantedNames
      <4>2. byName = DevicesByName(rec.description)
          BY DEF DevicesByName
      <4>3. devicesByName[rec.description] \in {NoRow} \cup byName
          BY <1>2, <4>1, <4>2 DEF Genuine
      <4>4. devicesByName[rec.description] = NoRow => byName = {}
          BY <1>2, <4>1, <4>2 DEF NamesAnswered
      <4>5. KnownIn(devicesByName, rec.description)
                <=> devicesByName[rec.description] # NoRow
          BY <1>1, <4>1 DEF KnownIn, Known
      <4>. QED BY <4>3, <4>4, <4>5
    <3>2. CASE rec.description = None
        BY <1>1, <3>2, ValuesAssumption DEF KnownIn, Known, Found
    <3>. QED BY <3>1, <3>2
  <2>. QED BY <1>3, <1>5, <2>1 DEF Match, CanMatch
<1>. QED BY <1>4, <1>5

LEMMA ViewIsExact ==
    ASSUME LandbInv, pc = "sync", ~degraded, calm, NEW i \in Ids
    PROVE  ViewNow[i] \in Expected(i)
<1>. DEFINE device == Match(records[i], devicesBySerial, devicesByName)
<1>1. Genuine /\ AddressesAnswered /\ records = eam /\ TypeOK
    BY DEF LandbInv, Answered, Genuine
<1>2. CASE i \notin Known(records)
    BY <1>1, <1>2 DEF ViewNow, View, Expected
<1>3. CASE i \in Known(records)
  <2>1. ViewNow[i] = IF device = NoRow \/ ipsByDevice[device.name] \in {None, NoRow} THEN NoRow
                     ELSE Row(device.name, ipsByDevice[device.name])
      BY <1>3 DEF ViewNow, View, ViewRow
  <2>2. /\ device # NoRow => device \in CanMatch(records[i])
        /\ device = NoRow => CanMatch(records[i]) = {}
      BY <1>3, MatchIsExact
  <2>3. device # NoRow => device \in Found /\ device \in MatchedNow
      BY <1>1, <1>3, MatchTypes DEF MatchedNow, Matched
  <2>. HIDE DEF device
  <2>4. CASE device = NoRow
      BY <1>1, <1>3, <2>1, <2>2, <2>4 DEF Expected
  <2>5. CASE device # NoRow
    <3>. DEFINE ip == ipsByDevice[device.name]
    <3>1. device.name \in Names
        BY <2>3, <2>5 DEF Found
    <3>2. ip \in {NoRow} \cup AddressesOf(device.name)
        BY <1>1, <3>1 DEF Genuine
    <3>3. ip = NoRow => AddressesOf(device.name) = {}
        BY <1>1, <2>3, <2>5 DEF AddressesAnswered
    <3>4. ViewNow[i] = IF ip \in {None, NoRow} THEN NoRow ELSE Row(device.name, ip)
        BY <2>1, <2>5
    <3>5. ViewNow[i] \in RowsOf(device)
      <4>1. CASE ip = NoRow
          BY <3>3, <3>4, <4>1 DEF RowsOf
      <4>2. CASE ip # NoRow
        <5>1. ip \in AddressesOf(device.name)
            BY <3>2, <4>2
        <5>2. ViewNow[i] = IF ip = None THEN NoRow ELSE Row(device.name, ip)
            BY <3>4, <4>2
        <5>. HIDE DEF ip
        <5>. QED BY <5>1, <5>2 DEF RowsOf
      <4>. QED BY <4>1, <4>2
    <3>6. Expected(i) = UNION {RowsOf(d) : d \in CanMatch(records[i])}
        BY <1>1, <1>3, <2>2, <2>5 DEF Expected
    <3>. QED BY <2>2, <2>5, <3>5, <3>6
  <2>. QED BY <2>4, <2>5
<1>. QED BY <1>2, <1>3

-----------------------------------------------------------------------------
(* Every step keeps LandbInv.                                              *)

LEMMA NothingType ==
    /\ Nothing(Ids) \in [Ids -> Equipment \cup {NoRow}]
    /\ Nothing(Serials) \in [Serials -> Found \cup {NoRow}]
    /\ Nothing(Names) \in [Names -> Found \cup {NoRow}]
    /\ Nothing(Names) \in [Names -> Addresses \cup {None, NoRow}]
BY DEF Nothing

LEMMA LandbInvInit == Init => LandbInv
<1>. SUFFICES ASSUME Init PROVE LandbInv
    OBVIOUS
<1>1. EmptyTable \in Tables
    BY DEF EmptyTable, Tables
<1>2. TypeOK
  <2>1. 0 \in 0..MaxFaults /\ 0 \in 0..MaxChanges
      BY BoundsAssumption
  <2>. QED BY <1>1, <2>1, NothingType DEF Init, TypeOK, Statuses
<1>3. Clean /\ Genuine /\ Answered
    BY DEF Init, Clean, Genuine, Nothing, Answered, SerialsAnswered, NamesAnswered,
           AddressesAnswered
<1>. QED BY <1>2, <1>3 DEF LandbInv

LEMMA FaultCounted == TypeOK /\ Fault => (faults \in 0..MaxFaults)'
BY BoundsAssumption DEF TypeOK, Fault

\* A run that ends, however it does.
LEMMA ForgetKeepsInv ==
    ASSUME LandbInv, Forget, UNCHANGED world,
           table' \in Tables, status' \in Statuses, beat' \in BOOLEAN, (faults \in 0..MaxFaults)'
    PROVE  LandbInv'
<1>1. TypeOK'
    BY NothingType DEF LandbInv, TypeOK, Forget, world
<1>2. Clean' /\ Genuine' /\ Answered'
    BY DEF Forget, Clean, Genuine, Nothing, Answered, SerialsAnswered, NamesAnswered,
           AddressesAnswered
<1>. QED BY <1>1, <1>2 DEF LandbInv

LEMMA EndsKeepInv ==
    ASSUME LandbInv, Skip \/ Sync \/ RunFails \/ Crash
    PROVE  LandbInv'
<1>1. TypeOK
    BY DEF LandbInv
<1>2. table \in Tables /\ faults \in 0..MaxFaults
    BY <1>1 DEF TypeOK
<1>3. ASSUME NEW s \in Statuses, End(s) PROVE Forget /\ status' \in Statuses /\ beat' \in BOOLEAN
    BY <1>3 DEF End, StatusIsFailure
<1>4. CASE Skip
    BY <1>2, <1>3, <1>4, ForgetKeepsInv DEF Skip, Statuses
<1>5. CASE Sync
  <2>1. PICK s \in Statuses : End(s)
      BY <1>5 DEF Sync, Statuses
  <2>2. table' \in Tables /\ UNCHANGED <<world, faults>>
      BY <1>1, <1>2, <1>5, ViewIsTable, CommitIsTable DEF Sync
  <2>. QED BY <1>2, <1>3, <2>1, <2>2, ForgetKeepsInv
<1>6. CASE RunFails
    BY <1>1, <1>2, <1>3, <1>6, FaultCounted, ForgetKeepsInv DEF RunFails, Statuses
<1>7. CASE Crash
    BY <1>1, <1>2, <1>7, FaultCounted, ForgetKeepsInv DEF Crash, Statuses
<1>. QED BY <1>4, <1>5, <1>6, <1>7

LEMMA ChangeKeepsInv ==
    ASSUME LandbInv, EamChanges \/ LandbChanges
    PROVE  LandbInv'
<1>1. TypeOK'
  <2>1. eam' \in Inventories /\ landb' \in Directories /\ calm' \in BOOLEAN
      BY DEF LandbInv, TypeOK, EamChanges, LandbChanges, Change
  <2>2. changes' \in 0..MaxChanges
      BY BoundsAssumption DEF LandbInv, TypeOK, EamChanges, LandbChanges, Change
  <2>3. UNCHANGED <<table, pc, records, todo, lookups, degraded, status, beat, faults>>
      BY DEF EamChanges, LandbChanges
  <2>. QED BY <2>1, <2>2, <2>3 DEF LandbInv, TypeOK, lookups
<1>2. Clean' /\ ~calm'
    BY DEF LandbInv, Clean, EamChanges, LandbChanges, Change, lookups
<1>. QED BY <1>1, <1>2 DEF LandbInv

LEMMA StartKeepsInv ==
    ASSUME LandbInv, Start
    PROVE  LandbInv'
<1>1. TypeOK /\ Clean
    BY DEF LandbInv
<1>2. eam \in [Ids -> Equipment \cup {NoRow}]
    BY <1>1, WorldAssumption DEF TypeOK
<1>3. WantedSerials(eam) \subseteq Serials
    BY <1>2 DEF WantedSerials, Known, Equipment
<1>4. TypeOK'
    BY <1>1, <1>2, <1>3 DEF TypeOK, Start, lookups, Lookups
<1>5. Genuine'
    BY <1>1 DEF Start, Clean, Genuine, Nothing, lookups
<1>6. Clean' /\ Answered'
    BY DEF Start, Clean, Answered, SerialsAnswered, NamesAnswered, AddressesAnswered
<1>. QED BY <1>4, <1>5, <1>6 DEF LandbInv

\* The next lookup starts with all it has to ask for.
LEMMA NextLookupKeepsInv ==
    ASSUME LandbInv, NextLookup
    PROVE  LandbInv'
<1>1. TypeOK /\ Clean
    BY DEF LandbInv
<1>2. /\ UNCHANGED <<world, table, records, lookups, degraded, status, beat, faults>>
      /\ pc \in Lookups /\ todo = {}
    BY DEF NextLookup
<1>3. UNCHANGED <<eam, landb, changes, calm, devicesBySerial, devicesByName, ipsByDevice>>
    BY <1>2 DEF world, lookups
<1>4. /\ pc' \in {"device_by_name", "ip_by_serial", "ip_by_name", "sync"}
      /\ todo' \subseteq Serials \cup Names
    BY <1>1, MatchTypes DEF NextLookup, Found
<1>5. TypeOK'
    BY <1>1, <1>2, <1>3, <1>4 DEF TypeOK, Lookups
<1>6. Clean'
    BY <1>4 DEF Clean
<1>7. calm => Genuine'
    BY <1>2, <1>3, <1>4
       DEF LandbInv, Genuine, Lookups, DevicesBySerial, DevicesByName, AddressesOf, Devices
<1>8. ASSUME calm, ~degraded PROVE Answered'
  <2>1. Answered
      BY <1>8 DEF LandbInv
  <2>2. /\ WantedSerials(records)' = WantedSerials(records)
        /\ WantedNames(records, devicesBySerial)' = WantedNames(records, devicesBySerial)
        /\ MatchedNow' = MatchedNow
        /\ \A s : DevicesBySerial(s)' = DevicesBySerial(s)
        /\ \A n : DevicesByName(n)' = DevicesByName(n)
        /\ \A n : AddressesOf(n)' = AddressesOf(n)
      BY <1>2, <1>3 DEF MatchedNow, DevicesBySerial, DevicesByName, AddressesOf, Devices
  <2>3. SerialsAnswered'
      BY <1>2, <1>3, <1>4, <2>1, <2>2 DEF Answered, SerialsAnswered, Lookups
  <2>4. NamesAnswered'
      BY <1>2, <1>3, <1>4, <2>1, <2>2 DEF Answered, NamesAnswered, NextLookup, Lookups
  <2>5. AddressesAnswered'
    <3>1. CASE pc = "ip_by_serial"
      <4>1. pc' = "ip_by_name" /\ todo' = {d.name : d \in MatchedNow} \ Known(ipsByDevice)
          BY <3>1 DEF NextLookup
      <4>2. \A n \in Known(ipsByDevice) : ipsByDevice[n] # NoRow
          BY DEF Known
      <4>. QED BY <1>3, <2>2, <4>1, <4>2 DEF AddressesAnswered
    <3>2. CASE pc # "ip_by_serial"
        BY <1>2, <1>3, <2>1, <2>2, <3>2 DEF Answered, AddressesAnswered, NextLookup, Lookups
    <3>. QED BY <3>1, <3>2
  <2>. QED BY <2>3, <2>4, <2>5 DEF Answered
<1>. QED BY <1>2, <1>3, <1>5, <1>6, <1>7, <1>8 DEF LandbInv

\* What asking for a chunk changes, whichever lookup does.
LEMMA AsksIs ==
    ASSUME TypeOK, NEW chunk, NEW lost \in BOOLEAN, Asks(chunk, lost)
    PROVE  /\ UNCHANGED <<eam, landb, changes, calm, table, pc, records, status, beat>>
           /\ todo' = todo \ chunk
           /\ degraded' \in BOOLEAN
           /\ ~degraded' => ~degraded /\ ~lost
           /\ (faults \in 0..MaxFaults)'
           /\ \A s : DevicesBySerial(s)' = DevicesBySerial(s)
           /\ \A n : DevicesByName(n)' = DevicesByName(n)
           /\ \A n : AddressesOf(n)' = AddressesOf(n)
<1>1. UNCHANGED <<eam, landb, changes, calm, table, pc, records, status, beat>>
    BY DEF Asks, world
<1>2. degraded' \in BOOLEAN /\ (~degraded' => ~degraded /\ ~lost)
    BY DEF Asks, Degraded, TypeOK
<1>3. (faults \in 0..MaxFaults)'
    BY FaultCounted DEF Asks, TypeOK
<1>. QED
    BY <1>1, <1>2, <1>3 DEF Asks, DevicesBySerial, DevicesByName, AddressesOf, Devices

\* A chunk's answer is one of the candidates; without a loss it is missing
\* only if there is none.
LEMMA PickIs ==
    ASSUME NEW candidates, NEW lost \in BOOLEAN, NEW x \in Pick(candidates, lost)
    PROVE  /\ x \in {NoRow} \cup candidates
           /\ ~lost /\ NoRow \notin candidates => (x = NoRow => candidates = {})
BY DEF Pick

LEMMA SerialLookupKeepsInv ==
    ASSUME LandbInv, NEW lost \in BOOLEAN, FetchDevicesBySerial(lost)
    PROVE  LandbInv'
<1>1. TypeOK /\ Clean
    BY DEF LandbInv
<1>2. PICK chunk \in Chunks(todo) :
          /\ Asks(chunk, lost)
          /\ \E got \in [chunk -> Found \cup {NoRow}] :
                /\ \A s \in chunk : got[s] \in Pick(DevicesBySerial(s), lost)
                /\ devicesBySerial' = Merge(devicesBySerial, got)
    BY DEF FetchDevicesBySerial
<1>3. PICK got \in [chunk -> Found \cup {NoRow}] :
          /\ \A s \in chunk : got[s] \in Pick(DevicesBySerial(s), lost)
          /\ devicesBySerial' = Merge(devicesBySerial, got)
    BY <1>2
<1>4. pc = "device_by_serial" /\ UNCHANGED <<devicesByName, ipsByDevice>>
    BY DEF FetchDevicesBySerial
<1>5. /\ devicesBySerial' \in [Serials -> Found \cup {NoRow}]
      /\ \A s \in Serials : devicesBySerial'[s] =
            IF devicesBySerial[s] = NoRow /\ s \in chunk THEN got[s] ELSE devicesBySerial[s]
  <2>1. devicesBySerial \in [Serials -> Found \cup {NoRow}] /\ got \in [chunk -> Found \cup {NoRow}]
      BY <1>1 DEF TypeOK
  <2>. QED BY <1>3, <2>1 DEF Merge
<1>6. TypeOK'
    BY <1>1, <1>2, <1>4, <1>5, AsksIs DEF TypeOK
<1>7. Clean'
    BY <1>1, <1>2, <1>4, AsksIs DEF Clean
<1>8. calm => Genuine'
  <2>1. \A k \in chunk : got[k] \in {NoRow} \cup DevicesBySerial(k)
      BY <1>3, PickIs
  <2>2. UNCHANGED <<pc, records, eam>>
      BY <1>1, <1>2, AsksIs
  <2>3. \A k : DevicesBySerial(k)' = DevicesBySerial(k)
      BY <1>1, <1>2, AsksIs
  <2>4. \A k \in Serials : devicesBySerial[k] \in {NoRow} \cup DevicesBySerial(k)
                          => devicesBySerial'[k] \in {NoRow} \cup DevicesBySerial(k)
      BY <1>5, <2>1
  <2>. QED BY <1>1, <1>2, <1>4, <2>2, <2>3, <2>4, AsksIs DEF LandbInv, Genuine
<1>9. ASSUME calm, ~degraded' PROVE Answered'
  <2>1. ~lost /\ SerialsAnswered
      BY <1>1, <1>2, <1>9, AsksIs DEF LandbInv, Answered
  <2>2. \A s \in chunk : got[s] = NoRow => DevicesBySerial(s) = {}
      BY <1>1, <1>3, <2>1, PickIs, WorldTypes
  <2>3. WantedSerials(records) \subseteq Serials
      BY <1>1, MatchTypes
  <2>4. SerialsAnswered'
      BY <1>1, <1>2, <1>4, <1>5, <2>1, <2>2, <2>3, AsksIs DEF SerialsAnswered
  <2>. QED BY <1>1, <1>2, <1>4, <2>4, AsksIs DEF Answered, NamesAnswered, AddressesAnswered
<1>. QED BY <1>1, <1>2, <1>6, <1>7, <1>8, <1>9, AsksIs DEF LandbInv

LEMMA NameLookupKeepsInv ==
    ASSUME LandbInv, NEW lost \in BOOLEAN, FetchDevicesByName(lost)
    PROVE  LandbInv'
<1>1. TypeOK /\ Clean
    BY DEF LandbInv
<1>2. PICK chunk \in Chunks(todo) :
          /\ Asks(chunk, lost)
          /\ \E got \in [chunk -> Found \cup {NoRow}] :
                /\ \A n \in chunk : got[n] \in Pick(DevicesByName(n), lost)
                /\ devicesByName' = Merge(devicesByName, got)
    BY DEF FetchDevicesByName
<1>3. PICK got \in [chunk -> Found \cup {NoRow}] :
          /\ \A n \in chunk : got[n] \in Pick(DevicesByName(n), lost)
          /\ devicesByName' = Merge(devicesByName, got)
    BY <1>2
<1>4. pc = "device_by_name" /\ UNCHANGED <<devicesBySerial, ipsByDevice>>
    BY DEF FetchDevicesByName
<1>5. /\ devicesByName' \in [Names -> Found \cup {NoRow}]
      /\ \A n \in Names : devicesByName'[n] =
            IF devicesByName[n] = NoRow /\ n \in chunk THEN got[n] ELSE devicesByName[n]
  <2>1. devicesByName \in [Names -> Found \cup {NoRow}] /\ got \in [chunk -> Found \cup {NoRow}]
      BY <1>1 DEF TypeOK
  <2>. QED BY <1>3, <2>1 DEF Merge
<1>6. TypeOK'
    BY <1>1, <1>2, <1>4, <1>5, AsksIs DEF TypeOK
<1>7. Clean'
    BY <1>1, <1>2, <1>4, AsksIs DEF Clean
<1>8. calm => Genuine'
  <2>1. \A k \in chunk : got[k] \in {NoRow} \cup DevicesByName(k)
      BY <1>3, PickIs
  <2>2. UNCHANGED <<pc, records, eam>>
      BY <1>1, <1>2, AsksIs
  <2>3. \A k : DevicesByName(k)' = DevicesByName(k)
      BY <1>1, <1>2, AsksIs
  <2>4. \A k \in Names : devicesByName[k] \in {NoRow} \cup DevicesByName(k)
                          => devicesByName'[k] \in {NoRow} \cup DevicesByName(k)
      BY <1>5, <2>1
  <2>. QED BY <1>1, <1>2, <1>4, <2>2, <2>3, <2>4, AsksIs DEF LandbInv, Genuine
<1>9. ASSUME calm, ~degraded' PROVE Answered'
  <2>1. ~lost /\ SerialsAnswered /\ NamesAnswered
      BY <1>1, <1>2, <1>9, AsksIs DEF LandbInv, Answered
  <2>2. \A n \in chunk : got[n] = NoRow => DevicesByName(n) = {}
      BY <1>1, <1>3, <2>1, PickIs, WorldTypes
  <2>3. WantedNames(records, devicesBySerial) \subseteq Names
      BY <1>1, MatchTypes
  <2>4. NamesAnswered'
      BY <1>1, <1>2, <1>4, <1>5, <2>1, <2>2, <2>3, AsksIs DEF NamesAnswered
  <2>5. SerialsAnswered'
      BY <1>1, <1>2, <1>4, <2>1, AsksIs DEF SerialsAnswered
  <2>. QED BY <1>1, <1>2, <1>4, <2>4, <2>5, AsksIs DEF Answered, AddressesAnswered
<1>. QED BY <1>1, <1>2, <1>6, <1>7, <1>8, <1>9, AsksIs DEF LandbInv

\* Both address lookups; only after the second must all be answered.
LEMMA AddressLookupKeepsInv ==
    ASSUME LandbInv, NEW lost \in BOOLEAN, NEW chunk, NEW names,
           pc \in {"ip_by_serial", "ip_by_name"}, pc = "ip_by_name" => names = chunk,
           FetchIps(names, chunk, lost)
    PROVE  LandbInv'
<1>1. TypeOK /\ Clean
    BY DEF LandbInv
<1>2. Asks(chunk, lost) /\ UNCHANGED <<devicesBySerial, devicesByName>>
    BY DEF FetchIps
<1>3. PICK got \in [names -> Addresses \cup {None, NoRow}] :
          /\ \A n \in names : got[n] \in Pick(AddressesOf(n), lost)
          /\ ipsByDevice' = Merge(ipsByDevice, got)
    BY DEF FetchIps
<1>4. /\ ipsByDevice' \in [Names -> Addresses \cup {None, NoRow}]
      /\ \A n \in Names : ipsByDevice'[n] =
            IF ipsByDevice[n] = NoRow /\ n \in names THEN got[n] ELSE ipsByDevice[n]
  <2>1. /\ ipsByDevice \in [Names -> Addresses \cup {None, NoRow}]
        /\ got \in [names -> Addresses \cup {None, NoRow}]
      BY <1>1 DEF TypeOK
  <2>. QED BY <1>3, <2>1 DEF Merge
<1>5. TypeOK'
    BY <1>1, <1>2, <1>4, AsksIs DEF TypeOK
<1>6. Clean'
    BY <1>1, <1>2, AsksIs DEF Clean
<1>7. calm => Genuine'
  <2>1. \A k \in names : got[k] \in {NoRow} \cup AddressesOf(k)
      BY <1>3, PickIs
  <2>2. UNCHANGED <<pc, records, eam>>
      BY <1>1, <1>2, AsksIs
  <2>3. \A k : AddressesOf(k)' = AddressesOf(k)
      BY <1>1, <1>2, AsksIs
  <2>4. \A k \in Names : ipsByDevice[k] \in {NoRow} \cup AddressesOf(k)
                          => ipsByDevice'[k] \in {NoRow} \cup AddressesOf(k)
      BY <1>4, <2>1
  <2>. QED BY <1>1, <1>2, <1>2, <2>2, <2>3, <2>4, AsksIs DEF LandbInv, Genuine
<1>8. ASSUME calm, ~degraded' PROVE Answered'
  <2>1. ~lost /\ Answered
      BY <1>1, <1>2, <1>8, AsksIs DEF LandbInv
  <2>2. \A n \in names : got[n] = NoRow => AddressesOf(n) = {}
      BY <1>1, <1>3, <2>1, PickIs, WorldTypes
  <2>3. MatchedNow' = MatchedNow /\ MatchedNow \subseteq Found
      BY <1>1, <1>2, AsksIs, MatchTypes DEF MatchedNow
  <2>4. \A d \in MatchedNow : d.name \in Names
      BY <2>3 DEF Found
  <2>5. AddressesAnswered'
      BY <1>1, <1>2, <1>4, <2>1, <2>2, <2>3, <2>4, AsksIs DEF Answered, AddressesAnswered
  <2>6. SerialsAnswered' /\ NamesAnswered'
      BY <1>1, <1>2, <2>1, AsksIs DEF Answered, SerialsAnswered, NamesAnswered
  <2>. QED BY <2>5, <2>6 DEF Answered
<1>. QED BY <1>1, <1>2, <1>5, <1>6, <1>7, <1>8, AsksIs DEF LandbInv

LEMMA FetchKeepsInv ==
    ASSUME LandbInv, NEW lost \in BOOLEAN, Fetch(lost)
    PROVE  LandbInv'
<1>1. CASE FetchIpsBySerial(lost)
    BY <1>1, AddressLookupKeepsInv DEF FetchIpsBySerial
<1>2. CASE FetchIpsByName(lost)
    BY <1>2, AddressLookupKeepsInv DEF FetchIpsByName
<1>. QED BY <1>1, <1>2, SerialLookupKeepsInv, NameLookupKeepsInv DEF Fetch

LEMMA LandbInvStep == LandbInv /\ [Next]_vars => LandbInv'
<1>. SUFFICES ASSUME LandbInv, [Next]_vars PROVE LandbInv'
    OBVIOUS
<1>1. CASE Next
    BY <1>1, StartKeepsInv, EndsKeepInv, FetchKeepsInv, NextLookupKeepsInv, ChangeKeepsInv
       DEF Next, Work
<1>2. CASE UNCHANGED vars
  <2>1. UNCHANGED <<eam, landb, changes, calm, table, pc, records, todo, devicesBySerial,
                    devicesByName, ipsByDevice, degraded, status, beat, faults>>
      BY <1>2 DEF vars, world, lookups
  <2>2. TypeOK' /\ Clean'
      BY <2>1 DEF LandbInv, TypeOK, Clean
  <2>3. /\ \A k : DevicesBySerial(k)' = DevicesBySerial(k)
        /\ \A k : DevicesByName(k)' = DevicesByName(k)
        /\ \A k : AddressesOf(k)' = AddressesOf(k)
      BY <2>1 DEF DevicesBySerial, DevicesByName, AddressesOf, Devices
  <2>4. Genuine' <=> Genuine
      BY <2>1, <2>3 DEF Genuine
  <2>5. SerialsAnswered' <=> SerialsAnswered
      BY <2>1, <2>3 DEF SerialsAnswered
  <2>6. NamesAnswered' <=> NamesAnswered
      BY <2>1, <2>3 DEF NamesAnswered
  <2>7. AddressesAnswered' <=> AddressesAnswered
      BY <2>1, <2>3 DEF AddressesAnswered, MatchedNow
  <2>. QED BY <2>1, <2>2, <2>4, <2>5, <2>6, <2>7 DEF LandbInv, Answered
<1>. QED BY <1>1, <1>2

(* The state keeps its type: every value asked for is a serial or a name,  *)
(* and the table only ever holds rows or none.                             *)
THEOREM LandbTypeCorrect == Spec => []TypeOK
<1>1. LandbInv => TypeOK
    BY DEF LandbInv
<1>. QED BY LandbInvInit, LandbInvStep, <1>1, PTL DEF Spec

-----------------------------------------------------------------------------
(* What follows.                                                           *)

(* The view of an undisturbed run that lost nothing has for every EAM      *)
(* device a row LanDB has for it, or none when LanDB has none: for any     *)
(* chunks, shared serials, devices without one, blank addresses.           *)
THEOREM CompleteViewsAreExact == Spec => []CompleteViewIsExact
<1>1. LandbInv => CompleteViewIsExact
    BY ViewIsExact DEF CompleteViewIsExact
<1>. QED BY LandbInvInit, LandbInvStep, <1>1, PTL DEF Spec

\* Only the reconciliation writes the table.
LEMMA OnlySyncWrites == [Next]_vars /\ ~Sync => UNCHANGED table
BY DEF Next, Work, Start, Skip, Fetch, FetchDevicesBySerial, FetchDevicesByName,
       FetchIpsBySerial, FetchIpsByName, FetchIps, Asks, NextLookup, RunFails, Crash,
       EamChanges, LandbChanges, vars

\* The reference is about the world only, which Sync leaves as it is.
LEMMA NothingVanishesUnlessAbsent ==
    ASSUME LandbInv, Sync, calm, NEW i \in Ids, table[i] # NoRow, table'[i] = NoRow
    PROVE  NoRow \in Expected(i)
<1>1. table' = CommitAlone(table, ViewNow, ~degraded) /\ pc = "sync"
    BY DEF Sync
<1>2. i \in Deletes(table, ViewNow, ~degraded) \/ ViewNow[i] = NoRow
    BY <1>1 DEF CommitAlone
<1>3. i \in Deletes(table, ViewNow, ~degraded)
    BY <1>1 DEF CommitAlone, ToInsert, ToUpdate, Present
<1>4. ~degraded /\ ViewNow[i] = NoRow
    BY <1>3 DEF Deletes, ToDelete, Present
<1>. QED BY <1>1, <1>4, ViewIsExact

(* Nothing a lost chunk does deletes a device that LanDB has.              *)
THEOREM DeletedMeansAbsent == Spec => OnlyAbsentDevicesAreDeleted
<1>1. LandbInv /\ [Next]_vars =>
          [calm => \A i \in Ids : table[i] # NoRow /\ table'[i] = NoRow
                                    => NoRow \in Expected(i)]_vars
    BY OnlySyncWrites, NothingVanishesUnlessAbsent
<1>. QED BY LandbInvInit, LandbInvStep, <1>1, PTL DEF Spec, OnlyAbsentDevicesAreDeleted

\* A commit that nothing was withheld from leaves the view in the table.
LEMMA UnguardedCommitIsView ==
    ASSUME TypeOK, NEW i \in Ids, ~MassDelete(table, ViewNow)
    PROVE  CommitAlone(table, ViewNow, TRUE)[i] = ViewNow[i]
<1>1. /\ table[i] \in {Row(n, a) : n \in Names, a \in Addresses} \cup {NoRow}
      /\ ViewNow[i] \in {Row(n, a) : n \in Names, a \in Addresses} \cup {NoRow}
    BY ViewIsTable DEF TypeOK, Tables
<1>2. Deletes(table, ViewNow, TRUE) = ToDelete(table, ViewNow)
    BY DEF Deletes
<1>3. CASE table[i] # NoRow /\ ViewNow[i] # NoRow /\ ~Differs(table[i], ViewNow[i])
  <2>1. PICK n \in Names, a \in Addresses : ViewNow[i] = Row(n, a)
      BY <1>1, <1>3
  <2>2. ViewNow[i]["device"] # NoRow /\ ViewNow[i]["address"] # NoRow
      BY <2>1, ValuesAssumption DEF Row
  <2>3. \A c \in RowColumns : table[i][c] = ViewNow[i][c]
      BY <1>3, <2>2 DEF Differs, RowColumns
  <2>4. table[i] = ViewNow[i]
      BY <1>1, <1>3, <2>3 DEF Row, RowColumns
  <2>. QED BY <1>3, <2>4 DEF CommitAlone, ToInsert, ToUpdate, ToDelete, Present, Deletes
<1>4. CASE ~(table[i] # NoRow /\ ViewNow[i] # NoRow /\ ~Differs(table[i], ViewNow[i]))
    BY <1>2, <1>4 DEF CommitAlone, ToInsert, ToUpdate, ToDelete, Present
<1>. QED BY <1>3, <1>4

(* A run that beats has just made the table say what LanDB says.           *)
THEOREM HeartbeatIsHonest == Spec => HeartbeatMeansMirrored
<1>1. ASSUME LandbInv, [Next]_vars, pc = "sync", pc' = "idle", beat', calm, NEW i \in Ids
      PROVE  table'[i] \in Expected(i)
  <2>1. Sync
    <3>1. ~RunFails
        BY <1>1 DEF RunFails, End, StatusIsFailure
    <3>2. ~Crash
        BY <1>1 DEF Crash
    <3>. QED BY <1>1, <3>1, <3>2
             DEF Next, Work, Start, Skip, Fetch, FetchDevicesBySerial, FetchDevicesByName,
                 FetchIpsBySerial, FetchIpsByName, NextLookup, Lookups, EamChanges,
                 LandbChanges, vars
  <2>2. ~degraded /\ ~MassDelete(table, ViewNow)
      BY <1>1, <2>1 DEF Sync, End, StatusIsFailure, Refused, LandbInv, TypeOK
  <2>3. table'[i] = ViewNow[i]
      BY <1>1, <2>1, <2>2, UnguardedCommitIsView DEF Sync, LandbInv
  <2>. QED BY <1>1, <2>2, <2>3, ViewIsExact
<1>2. LandbInv /\ [Next]_vars =>
          [pc = "sync" /\ pc' = "idle" /\ beat' /\ calm =>
              \A i \in Ids : table'[i] \in Expected(i)]_vars
    BY <1>1
<1>. QED BY LandbInvInit, LandbInvStep, <1>2, PTL DEF Spec, HeartbeatMeansMirrored

-----------------------------------------------------------------------------
(* What Heals rests on: right rows stay right.                             *)

\* The rows that are not what LanDB says.
Inexact == {i \in Ids : table[i] \notin Expected(i)}

ExactRowsStay ==
    UNCHANGED <<eam, landb>> /\ calm /\ ~degraded => calm' /\ Inexact' \subseteq Inexact

LEMMA SyncKeepsExactRows ==
    ASSUME LandbInv, calm, ~degraded, Sync, NEW i \in Ids, table[i] \in Expected(i)
    PROVE  table'[i] \in Expected(i)
<1>1. table' = CommitAlone(table, ViewNow, TRUE) /\ pc = "sync"
    BY DEF Sync
<1>2. ViewNow[i] \in Expected(i)
    BY <1>1, ViewIsExact
<1>3. table'[i] \in {table[i], NoRow, ViewNow[i]}
    BY <1>1 DEF CommitAlone
<1>4. table'[i] = NoRow => ViewNow[i] = NoRow \/ table[i] = NoRow
    BY <1>1 DEF CommitAlone, ToInsert, ToUpdate, Deletes, ToDelete, Present
<1>. QED BY <1>2, <1>3, <1>4

(* While EAM and LanDB stand still since a run began, a run that has lost  *)
(* no chunk makes no row wrong, and failed or killed runs write nothing:   *)
(* the rows that are not what LanDB says only become fewer.  (One that has *)
(* lost a chunk may rematch a device: DegradedIsNotNotFound.)              *)
THEOREM ExactRowsAreKept == Spec => [][ExactRowsStay]_vars
<1>1. ASSUME LandbInv, Next, UNCHANGED <<eam, landb>>, calm, ~degraded
      PROVE  calm' /\ Inexact' \subseteq Inexact
  <2>1. ~EamChanges /\ ~LandbChanges
      BY <1>1 DEF EamChanges, LandbChanges
  <2>2. calm'
      BY <1>1, <2>1 DEF Next, Work, Start, Skip, Fetch, FetchDevicesBySerial,
             FetchDevicesByName, FetchIpsBySerial, FetchIpsByName, FetchIps, Asks,
             NextLookup, Sync, RunFails, Crash, world
  <2>3. \A i \in Ids : Expected(i)' = Expected(i)
      BY <1>1 DEF Expected, CanMatch, RowsOf, AddressesOf, Devices
  <2>4. ASSUME NEW i \in Ids, table[i] \in Expected(i)
        PROVE  table'[i] \in Expected(i)
    <3>1. CASE Sync
        BY <1>1, <2>4, <3>1, SyncKeepsExactRows
    <3>2. CASE ~Sync
        BY <1>1, <2>4, <3>2, OnlySyncWrites
    <3>. QED BY <3>1, <3>2
  <2>. QED BY <2>2, <2>3, <2>4 DEF Inexact
<1>2. LandbInv /\ [Next]_vars => [ExactRowsStay]_vars
    BY <1>1 DEF ExactRowsStay
<1>. QED BY LandbInvInit, LandbInvStep, <1>2, PTL DEF Spec
=============================================================================
