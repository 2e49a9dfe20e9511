------------------------ MODULE InventoryJobsProofs ------------------------
(* Proofs about InventoryJobs for any devices, positions, rooms and        *)
(* bounds: types, that ok means both EAM tables agree with EAM, that the   *)
(* rooms of an undisturbed run follow the cached tables, and that right    *)
(* rows stay right.                                                        *)
EXTENDS InventoryJobs, TLAPS

(* What an undisturbed run-eam without errors has done by its second flow. *)
EamSoFar ==
    eam.pc = "positions" /\ eam.calm /\ ~eam.hadErrors => D!Agree(devices, Filtered(assets))

(* What an undisturbed sync-rooms has read is what the tables hold.        *)
SyncSoFar ==
    /\ sync.pc # "idle" /\ sync.calm => sync.deviceRows = devices
    /\ sync.pc = "sync" /\ sync.calm => sync.positionRows = positions

JobsInv == TypeOK /\ EamSoFar /\ SyncSoFar

-----------------------------------------------------------------------------
(* Commits, planned from the table they are made on.                       *)

LEMMA CommitsAreTables ==
    /\ \A t, view \in D!Tables : D!CommitAlone(t, view, TRUE) \in D!Tables
    /\ \A t, view \in P!Tables : P!CommitAlone(t, view, TRUE) \in P!Tables
    /\ \A t, view \in R!Tables : R!CommitAlone(t, view, TRUE) \in R!Tables
BY DEF D!CommitAlone, D!Tables, P!CommitAlone, P!Tables, R!CommitAlone, R!Tables

\* Unless the breaker holds the deletes back, the table agrees with the view.
LEMMA DevicesMirrored ==
    ASSUME NEW t, NEW view, ~D!Refused(t, view, TRUE)
    PROVE  D!Agree(D!CommitAlone(t, view, TRUE), view)
BY DEF D!Agree, D!SameRow, D!CommitAlone, D!ToInsert, D!ToUpdate, D!Deletes, D!ToDelete,
       D!Present, D!Differs, D!Refused

LEMMA PositionsMirrored ==
    ASSUME NEW t, NEW view, ~P!Refused(t, view, TRUE)
    PROVE  P!Agree(P!CommitAlone(t, view, TRUE), view)
BY DEF P!Agree, P!SameRow, P!CommitAlone, P!ToInsert, P!ToUpdate, P!Deletes, P!ToDelete,
       P!Present, P!Differs, P!Refused

LEMMA RoomsMirrored ==
    ASSUME NEW t, NEW view, ~R!Refused(t, view, TRUE)
    PROVE  R!Agree(R!CommitAlone(t, view, TRUE), view)
BY DEF R!Agree, R!SameRow, R!CommitAlone, R!ToInsert, R!ToUpdate, R!Deletes, R!ToDelete,
       R!Present, R!Differs, R!Refused

\* The views are tables too.
LEMMA ViewsAreTables ==
    ASSUME TypeOK
    PROVE  /\ Filtered(assets) \in D!Tables
           /\ FilteredPlaces(places) \in P!Tables
           /\ ResolveRooms(sync.deviceRows, sync.positionRows) \in R!Tables
<1>1. Filtered(assets) \in D!Tables
    BY DEF TypeOK, Filtered, D!Tables
<1>2. sync.deviceRows \in D!Tables /\ sync.positionRows \in P!Tables
    BY DEF TypeOK, SyncStates
<1>3. ASSUME NEW i \in Devices, sync.deviceRows[i] # NoRow
      PROVE  RoomRow(sync.deviceRows[i].position, sync.positionRows) \in RoomRows
  <2>1. sync.deviceRows[i] \in DeviceRows
      BY <1>2, <1>3 DEF D!Tables
  <2>2. sync.deviceRows[i].position \in Positions
      BY <2>1 DEF DeviceRows
  <2>3. sync.positionRows[sync.deviceRows[i].position] \in PositionRows \cup {NoRow}
      BY <1>2, <2>2 DEF P!Tables
  <2>. QED BY <2>2, <2>3 DEF RoomRow, RoomRows, PositionRows
<1>4. ResolveRooms(sync.deviceRows, sync.positionRows) \in R!Tables
    BY <1>3 DEF ResolveRooms, R!Tables
<1>5. FilteredPlaces(places) \in P!Tables
    BY DEF TypeOK, FilteredPlaces, P!Tables
<1>. QED BY <1>1, <1>4, <1>5

-----------------------------------------------------------------------------
(* Every step keeps JobsInv.                                               *)

LEMMA IdleStates ==
    /\ \A status \in {"none", "ok", "failed", "completed_with_errors"}, beat \in BOOLEAN :
          IdleEam(status, beat) \in EamStates /\ IdleEam(status, beat).pc = "idle"
    /\ \A status \in {"none", "ok", "failed", "skipped_no_devices"}, beat \in BOOLEAN :
          IdleSync(status, beat) \in SyncStates /\ IdleSync(status, beat).pc = "idle"
BY DEF IdleEam, EamStates, IdleSync, SyncStates, D!EmptyTable, D!Tables, P!EmptyTable, P!Tables

LEMMA JobsInvInit == Init => JobsInv
<1>. SUFFICES ASSUME Init PROVE JobsInv
    OBVIOUS
<1>1. 0 \in 0..MaxChanges /\ 0 \in 0..MaxFaults
    BY BoundsAssumption
<1>2. D!EmptyTable \in D!Tables /\ P!EmptyTable \in P!Tables /\ R!EmptyTable \in R!Tables
    BY DEF D!EmptyTable, D!Tables, P!EmptyTable, P!Tables, R!EmptyTable, R!Tables
<1>3. eam \in EamStates /\ sync \in SyncStates /\ eam.pc = "idle" /\ sync.pc = "idle"
    BY IdleStates DEF Init
<1>4. TypeOK
    BY <1>1, <1>2, <1>3, GridsAssumption DEF Init, TypeOK
<1>. QED BY <1>3, <1>4 DEF JobsInv, EamSoFar, SyncSoFar

LEMMA FaultCounted == TypeOK /\ Fault => (faults \in 0..MaxFaults)'
BY BoundsAssumption DEF TypeOK, Fault

LEMMA ChangeKeepsInv ==
    ASSUME JobsInv,
           \/ \E i \in Devices, row \in DeviceRows \cup {NoRow} : AssetChanges(i, row)
           \/ \E p \in Positions, row \in PositionRows \cup {NoRow} : PlaceChanges(p, row)
    PROVE  JobsInv'
<1>1. Change
    BY DEF AssetChanges, PlaceChanges
<1>2. changes' \in 0..MaxChanges
    BY <1>1, BoundsAssumption DEF Change, JobsInv, TypeOK
<1>3. assets' \in D!Tables /\ places' \in P!Tables
    BY DEF AssetChanges, PlaceChanges, JobsInv, TypeOK, D!Tables, P!Tables
<1>4. UNCHANGED <<devices, positions, rooms, sync, faults>>
    BY <1>1 DEF Change, tables
<1>5. /\ eam' \in EamStates
      /\ eam'.calm => eam'.pc = "idle"
  <2>1. eam \in EamStates /\ eam' = [eam EXCEPT !.calm = (eam.calm /\ eam.pc = "idle")]
      BY <1>1 DEF Change, JobsInv, TypeOK
  <2>2. (eam.calm /\ eam.pc = "idle") \in BOOLEAN
      OBVIOUS
  <2>. QED BY <2>1, <2>2 DEF EamStates
<1>6. TypeOK'
    BY <1>2, <1>3, <1>4, <1>5 DEF JobsInv, TypeOK
<1>7. EamSoFar'
    BY <1>5 DEF EamSoFar
<1>8. SyncSoFar'
    BY <1>4 DEF JobsInv, SyncSoFar
<1>. QED BY <1>6, <1>7, <1>8 DEF JobsInv

\* run-eam commits: sync-rooms, if it runs, is disturbed.
LEMMA DisturbedSync ==
    ASSUME TypeOK, sync' = [sync EXCEPT !.calm = (sync.pc = "idle")]
    PROVE  sync' \in SyncStates /\ SyncSoFar'
<1>1. sync \in SyncStates /\ (sync.pc = "idle") \in BOOLEAN
    BY DEF TypeOK
<1>2. sync' \in SyncStates /\ (sync'.calm => sync'.pc = "idle")
    BY <1>1 DEF SyncStates
<1>. QED BY <1>2 DEF SyncSoFar

\* The first flow ends, whatever came of it.
LEMMA DevicesFlowKeepsInv ==
    ASSUME JobsInv, SyncEamDevices \/ SyncEamDevicesUnfiltered \/ EamDevicesFail
    PROVE  JobsInv'
<1>1. TypeOK /\ eam \in EamStates /\ eam.pc = "devices"
    BY DEF JobsInv, TypeOK, SyncEamDevices, SyncEamDevicesUnfiltered, SyncDevices,
           EamDevicesFail
<1>2. /\ UNCHANGED <<assets, places, changes, positions, rooms>>
      /\ (faults \in 0..MaxFaults)'
    BY <1>1, FaultCounted
       DEF TypeOK, SyncEamDevices, SyncEamDevicesUnfiltered, SyncDevices, EamDevicesFail,
           upstream, tables
<1>3. ASSUME NEW failed \in BOOLEAN, NEW filtered \in BOOLEAN, DevicesDone(failed, filtered)
      PROVE  /\ eam' \in EamStates
             /\ eam'.calm /\ ~eam'.hadErrors => filtered /\ ~failed
  <2>1. eam' = [eam EXCEPT !.pc = "positions",
                           !.hadErrors = eam.hadErrors \/ failed,
                           !.calm = eam.calm /\ filtered]
      BY <1>3 DEF DevicesDone, ErrorsSoFar
  <2>2. (eam.hadErrors \/ failed) \in BOOLEAN /\ (eam.calm /\ filtered) \in BOOLEAN
      OBVIOUS
  <2>. QED BY <1>1, <2>1, <2>2 DEF EamStates
<1>4. ASSUME NEW view \in D!Tables, NEW filtered \in BOOLEAN, SyncDevices(view, filtered),
             filtered => view = Filtered(assets)
      PROVE  JobsInv'
  <2>1. D!Refused(devices, view, TRUE) \in BOOLEAN
      BY DEF D!Refused, D!MassDelete
  <2>2. /\ eam' \in EamStates
        /\ eam'.calm /\ ~eam'.hadErrors => filtered /\ ~D!Refused(devices, view, TRUE)
      BY <1>3, <1>4, <2>1 DEF SyncDevices
  <2>3. devices' = D!CommitAlone(devices, view, TRUE) /\ devices' \in D!Tables
      BY <1>1, <1>4, CommitsAreTables DEF SyncDevices, TypeOK
  <2>4. sync' \in SyncStates /\ SyncSoFar'
      BY <1>1, <1>4, DisturbedSync DEF SyncDevices
  <2>5. TypeOK'
      BY <1>1, <1>2, <2>2, <2>3, <2>4 DEF TypeOK
  <2>6. Filtered(assets)' = Filtered(assets)
      BY <1>2 DEF Filtered
  <2>7. ASSUME eam'.calm, ~eam'.hadErrors
        PROVE  D!Agree(devices', Filtered(assets))
      BY <1>4, <2>2, <2>3, <2>7, DevicesMirrored
  <2>8. EamSoFar'
      BY <2>6, <2>7 DEF EamSoFar, D!Agree
  <2>. QED BY <2>4, <2>5, <2>8 DEF JobsInv
<1>5. CASE SyncEamDevices
    BY <1>1, <1>4, <1>5, ViewsAreTables DEF SyncEamDevices
<1>6. CASE SyncEamDevicesUnfiltered
    BY <1>1, <1>4, <1>6 DEF SyncEamDevicesUnfiltered, TypeOK
<1>7. CASE EamDevicesFail
  <2>1. eam' \in EamStates /\ ~(eam'.calm /\ ~eam'.hadErrors)
      BY <1>3, <1>7 DEF EamDevicesFail
  <2>2. UNCHANGED <<devices, sync>>
      BY <1>7 DEF EamDevicesFail, tables
  <2>3. TypeOK'
      BY <1>1, <1>2, <2>1, <2>2 DEF TypeOK
  <2>. QED BY <1>2, <2>1, <2>2, <2>3 DEF JobsInv, EamSoFar, SyncSoFar
<1>. QED BY <1>5, <1>6, <1>7

\* What the end of run_eam reports.
LEMMA EndedStates ==
    ASSUME TypeOK, NEW failed \in BOOLEAN, NEW filtered \in BOOLEAN, EndEam(failed, filtered)
    PROVE  /\ eam' \in EamStates /\ eam'.pc = "idle"
           /\ eam'.calm <=> eam.calm /\ filtered
           /\ eam'.status = "ok" <=> ~eam.hadErrors /\ ~failed
<1>. DEFINE status == IF eam.hadErrors \/ failed THEN "completed_with_errors" ELSE "ok"
<1>1. eam.calm \in BOOLEAN /\ (eam.calm /\ filtered) \in BOOLEAN
    BY DEF TypeOK, EamStates
<1>2. eam' = [IdleEam(status, TRUE) EXCEPT !.calm = (eam.calm /\ filtered)]
    BY DEF EndEam, ErrorsSoFar
<1>3. IdleEam(status, TRUE) \in EamStates /\ IdleEam(status, TRUE).pc = "idle"
    BY IdleStates
<1>4. IdleEam(status, TRUE).status = status
    BY DEF IdleEam
<1>. HIDE DEF status
<1>5. /\ eam' \in EamStates /\ eam'.pc = "idle"
      /\ eam'.calm = (eam.calm /\ filtered) /\ eam'.status = status
    BY <1>1, <1>2, <1>3, <1>4 DEF EamStates
<1>6. status = "ok" <=> ~eam.hadErrors /\ ~failed
    BY DEF status
<1>. QED BY <1>5, <1>6

\* A run-eam that starts or ends.
LEMMA OtherEamStepsKeepInv ==
    ASSUME JobsInv,
           \/ StartEam \/ LoginFails \/ EamPositionsFail \/ CrashEam
           \/ SyncEamPositions \/ SyncEamPositionsUnfiltered
    PROVE  JobsInv'
<1>1. TypeOK /\ SyncSoFar
    BY DEF JobsInv
<1>2. CASE StartEam
  <2>1. UNCHANGED <<assets, places, changes, devices, positions, rooms, sync, faults>>
      BY <1>2 DEF StartEam, upstream, tables
  <2>2. IdleEam("none", FALSE) \in EamStates
      BY IdleStates
  <2>3. eam' \in EamStates /\ eam'.pc = "devices"
      BY <1>2, <2>2 DEF StartEam, EamStates
  <2>4. TypeOK'
      BY <1>1, <2>1, <2>3 DEF TypeOK
  <2>. QED BY <1>1, <2>1, <2>3, <2>4 DEF JobsInv, EamSoFar, SyncSoFar
<1>3. ASSUME eam' \in EamStates, eam'.pc = "idle", (faults \in 0..MaxFaults)',
             UNCHANGED <<assets, places, changes, devices, rooms>>,
             positions' \in P!Tables, sync' \in SyncStates, SyncSoFar'
      PROVE  JobsInv'
  <2>1. TypeOK'
      BY <1>1, <1>3 DEF TypeOK
  <2>. QED BY <1>3, <2>1 DEF JobsInv, EamSoFar
<1>4. ASSUME LoginFails \/ EamPositionsFail \/ CrashEam
      PROVE  /\ UNCHANGED <<assets, places, changes, devices, positions, rooms, sync>>
             /\ (faults \in 0..MaxFaults)' /\ SyncSoFar'
             /\ positions' \in P!Tables /\ sync' \in SyncStates
  <2>1. UNCHANGED <<assets, places, changes, devices, positions, rooms, sync>> /\ Fault
      BY <1>4 DEF LoginFails, EamPositionsFail, CrashEam, upstream, tables
  <2>. QED BY <1>1, <2>1, FaultCounted DEF TypeOK, SyncSoFar
<1>5. CASE LoginFails
  <2>1. eam' \in EamStates /\ eam'.pc = "idle"
      BY <1>5, IdleStates DEF LoginFails
  <2>. QED BY <1>3, <1>4, <1>5, <2>1
<1>6. CASE EamPositionsFail
  <2>1. eam' \in EamStates /\ eam'.pc = "idle"
      BY <1>1, <1>6, EndedStates DEF EamPositionsFail
  <2>. QED BY <1>3, <1>4, <1>6, <2>1
<1>7. CASE CrashEam
  <2>1. eam' \in EamStates /\ eam'.pc = "idle"
      BY <1>7, IdleStates DEF CrashEam
  <2>. QED BY <1>3, <1>4, <1>7, <2>1
<1>8. ASSUME NEW view \in P!Tables, NEW filtered \in BOOLEAN, SyncPositions(view, filtered),
             (faults \in 0..MaxFaults)'
      PROVE  JobsInv'
  <2>1. UNCHANGED <<assets, places, changes, devices, rooms>>
      BY <1>8 DEF SyncPositions, upstream
  <2>2. positions' \in P!Tables
      BY <1>1, <1>8, CommitsAreTables DEF SyncPositions, TypeOK
  <2>3. sync' \in SyncStates /\ SyncSoFar'
      BY <1>1, <1>8, DisturbedSync DEF SyncPositions
  <2>4. P!Refused(positions, view, TRUE) \in BOOLEAN
      BY DEF P!Refused, P!MassDelete
  <2>5. eam' \in EamStates /\ eam'.pc = "idle"
      BY <1>1, <1>8, <2>4, EndedStates DEF SyncPositions
  <2>. QED BY <1>3, <1>8, <2>1, <2>2, <2>3, <2>5
<1>9. CASE SyncEamPositions
  <2>1. (faults \in 0..MaxFaults)'
      BY <1>1, <1>9 DEF SyncEamPositions, TypeOK
  <2>. QED BY <1>1, <1>8, <1>9, <2>1, ViewsAreTables DEF SyncEamPositions
<1>10. CASE SyncEamPositionsUnfiltered
    BY <1>1, <1>8, <1>10, FaultCounted DEF SyncEamPositionsUnfiltered, TypeOK
<1>. QED BY <1>2, <1>5, <1>6, <1>7, <1>9, <1>10

LEMMA SyncKeepsInv ==
    ASSUME JobsInv, RunSync \/ SyncRoomsFails \/ CrashSync
    PROVE  JobsInv'
<1>1. TypeOK /\ SyncSoFar /\ EamSoFar /\ sync \in SyncStates
    BY DEF JobsInv, TypeOK
<1>2. /\ UNCHANGED <<assets, places, changes, devices, positions, eam>>
      /\ (faults \in 0..MaxFaults)'
    BY <1>1, FaultCounted
       DEF TypeOK, RunSync, ReadDevices, ReadPositions, SyncRooms, SyncRoomsFails, CrashSync,
           upstream, tables
<1>3. EamSoFar'
    BY <1>1, <1>2 DEF EamSoFar, Filtered, D!Agree, D!SameRow
<1>4. ASSUME sync' \in SyncStates, rooms' \in R!Tables, SyncSoFar'
      PROVE  JobsInv'
    BY <1>1, <1>2, <1>3, <1>4 DEF JobsInv, TypeOK
<1>5. ASSUME NEW status \in {"none", "ok", "failed", "skipped_no_devices"}, NEW beat \in BOOLEAN,
             sync' = IdleSync(status, beat), rooms' \in R!Tables
      PROVE  JobsInv'
  <2>1. sync' \in SyncStates /\ sync'.pc = "idle"
      BY <1>5, IdleStates
  <2>. QED BY <1>4, <1>5, <2>1 DEF SyncSoFar
<1>6. CASE ReadDevices
  <2>1. IdleSync("none", FALSE) \in SyncStates
      BY IdleStates
  <2>2. sync' \in SyncStates /\ sync'.pc = "positions" /\ sync'.deviceRows = devices
      BY <1>1, <1>6, <2>1 DEF ReadDevices, SyncStates, TypeOK
  <2>3. rooms' \in R!Tables
      BY <1>1, <1>6 DEF ReadDevices, tables, TypeOK
  <2>4. SyncSoFar'
      BY <1>2, <2>2 DEF SyncSoFar
  <2>. QED BY <1>4, <2>2, <2>3, <2>4
<1>7. CASE ReadPositions
  <2>1. rooms' \in R!Tables
      BY <1>1, <1>7 DEF ReadPositions, tables, TypeOK
  <2>2. CASE sync' = IdleSync("skipped_no_devices", TRUE)
      BY <1>5, <2>1, <2>2
  <2>3. CASE sync' = [sync EXCEPT !.pc = "sync", !.positionRows = positions]
    <3>1. /\ sync' \in SyncStates /\ sync'.positionRows = positions
          /\ sync'.deviceRows = sync.deviceRows /\ sync'.calm = sync.calm /\ sync.pc # "idle"
        BY <1>1, <1>7, <2>3 DEF ReadPositions, SyncStates, TypeOK
    <3>2. SyncSoFar'
        BY <1>1, <1>2, <3>1 DEF SyncSoFar
    <3>. QED BY <1>4, <2>1, <3>1, <3>2
  <2>. QED BY <1>7, <2>2, <2>3 DEF ReadPositions
<1>8. CASE SyncRooms
  <2>1. rooms' \in R!Tables
      BY <1>1, <1>8, CommitsAreTables, ViewsAreTables DEF SyncRooms, TypeOK
  <2>2. PICK status \in {"failed", "ok"} : sync' = IdleSync(status, TRUE)
      BY <1>8 DEF SyncRooms
  <2>. QED BY <1>5, <2>1, <2>2
<1>9. CASE SyncRoomsFails
    BY <1>1, <1>5, <1>9 DEF SyncRoomsFails, tables, TypeOK
<1>10. CASE CrashSync
    BY <1>1, <1>5, <1>10 DEF CrashSync, tables, TypeOK
<1>. QED BY <1>6, <1>7, <1>8, <1>9, <1>10 DEF RunSync

LEMMA JobsInvStep == JobsInv /\ [Next]_vars => JobsInv'
<1>. SUFFICES ASSUME JobsInv, [Next]_vars PROVE JobsInv'
    OBVIOUS
<1>1. CASE Next
    BY <1>1, ChangeKeepsInv, DevicesFlowKeepsInv, OtherEamStepsKeepInv, SyncKeepsInv
       DEF Next, RunEam, Fail
<1>2. CASE UNCHANGED vars
  <2>1. UNCHANGED <<assets, places, changes, devices, positions, rooms, eam, sync, faults>>
      BY <1>2 DEF vars, upstream, tables
  <2>. QED BY <2>1 DEF JobsInv, TypeOK, EamSoFar, SyncSoFar, Filtered, D!Agree, D!SameRow
<1>. QED BY <1>1, <1>2

-----------------------------------------------------------------------------
(* What follows.                                                           *)

(* The state keeps its type: whatever fails, each table holds rows of its  *)
(* own kind and every device's room is a room or a sentinel.               *)
THEOREM JobsTypeCorrect == Spec => []TypeOK
<1>1. JobsInv => TypeOK
    BY DEF JobsInv
<1>. QED BY JobsInvInit, JobsInvStep, <1>1, PTL DEF Spec

(* A run of run_eam that ends ok, EAM unchanged and both queries filtered, *)
(* leaves both tables as the department is in EAM.                         *)
THEOREM OkIsBoth == Spec => OkMeansBothSynced
<1>1. ASSUME JobsInv, [Next]_vars, EamEnds, eam'.status = "ok", eam'.calm
      PROVE  /\ D!Agree(devices', Filtered(assets))
             /\ P!Agree(positions', FilteredPlaces(places))
  <2>1. TypeOK /\ eam \in EamStates /\ eam.pc = "positions" /\ eam'.pc = "idle"
      BY <1>1 DEF EamEnds, JobsInv, TypeOK
  <2>2. SyncEamPositions \/ SyncEamPositionsUnfiltered
    <3>1. ~Change
        BY <2>1 DEF Change, EamStates
    <3>2. ~EamPositionsFail
        BY <1>1, <2>1, EndedStates DEF EamPositionsFail
    <3>3. ~CrashEam
        BY <1>1 DEF IdleEam, CrashEam
    <3>. QED BY <1>1, <2>1, <3>1, <3>2, <3>3
             DEF Next, RunEam, RunSync, Fail, StartEam, SyncEamDevices,
                 SyncEamDevicesUnfiltered, SyncDevices, EamDevicesFail, LoginFails,
                 ReadDevices, ReadPositions, SyncRooms, SyncRoomsFails, CrashSync,
                 AssetChanges, PlaceChanges, vars
  <2>3. ASSUME NEW view, NEW filtered \in BOOLEAN, SyncPositions(view, filtered)
        PROVE  /\ filtered /\ eam.calm /\ ~eam.hadErrors
               /\ ~P!Refused(positions, view, TRUE)
    <3>1. P!Refused(positions, view, TRUE) \in BOOLEAN
        BY DEF P!Refused, P!MassDelete
    <3>. QED BY <1>1, <2>1, <2>3, <3>1, EndedStates DEF SyncPositions
  <2>4. SyncEamPositions
    <3>1. ~SyncEamPositionsUnfiltered
        BY <2>3 DEF SyncEamPositionsUnfiltered
    <3>. QED BY <2>2, <3>1
  <2>5. /\ eam.calm /\ ~eam.hadErrors
        /\ ~P!Refused(positions, FilteredPlaces(places), TRUE)
      BY <2>3, <2>4 DEF SyncEamPositions
  <2>6. devices' = devices /\ D!Agree(devices, Filtered(assets))
      BY <1>1, <2>1, <2>4, <2>5 DEF JobsInv, EamSoFar, SyncEamPositions, SyncPositions
  <2>7. P!Agree(positions', FilteredPlaces(places))
      BY <2>4, <2>5, PositionsMirrored DEF SyncEamPositions, SyncPositions
  <2>. QED BY <2>6, <2>7
<1>2. JobsInv /\ [Next]_vars =>
          [EamEnds /\ eam'.status = "ok" /\ eam'.calm
             => /\ D!Agree(devices', Filtered(assets))
                /\ P!Agree(positions', FilteredPlaces(places))]_vars
    BY <1>1
<1>. QED BY JobsInvInit, JobsInvStep, <1>2, PTL DEF Spec, OkMeansBothSynced

\* A row that agrees with the resolved one is resolved.
LEMMA AgreeingRowIsResolved ==
    ASSUME TypeOK, NEW i \in Devices, NEW row,
           R!SameRow(row, ResolveRooms(devices, positions)[i])
    PROVE  IsResolved(row, i)
<1>1. CASE devices[i] = NoRow
    BY <1>1 DEF R!SameRow, ResolveRooms, IsResolved
<1>2. CASE devices[i] # NoRow
  <2>. DEFINE p == devices[i].position
              fresh == RoomRow(p, positions)
  <2>1. p \in Positions
      BY <1>2 DEF TypeOK, D!Tables, DeviceRows
  <2>2. positions[p] \in PositionRows \cup {NoRow}
      BY <2>1 DEF TypeOK, P!Tables
  <2>3. fresh \in RoomRows
      BY <2>1, <2>2 DEF RoomRow, RoomRows, PositionRows
  <2>4. fresh # NoRow
      BY <2>3, NoRowAssumption
  <2>5. ResolveRooms(devices, positions)[i] = fresh
      BY <1>2 DEF ResolveRooms
  <2>6. fresh.position # NoRow /\ fresh.room # NoRow
      BY <2>3, NoRowAssumption DEF RoomRows
  <2>7. /\ fresh.position = p
        /\ fresh.room = IF positions[p] = NoRow THEN NO_ROOM_NO_POSITION
                        ELSE positions[p].room
      BY DEF RoomRow
  <2>. HIDE DEF fresh
  <2>8. row # NoRow /\ row.position = fresh.position /\ row.room = fresh.room
      BY <2>4, <2>5, <2>6 DEF R!SameRow, R!Differs
  <2>. QED BY <1>2, <2>7, <2>8 DEF IsResolved
<1>. QED BY <1>1, <1>2

(* An undisturbed sync-rooms that ends ok leaves every cached device with  *)
(* the room the cached positions give it, and no other row.                *)
THEOREM RoomsAreCurrent == Spec => RoomsFollowTheCache
<1>1. ASSUME JobsInv, [Next]_vars, SyncEnds, sync'.status = "ok", sync.calm, NEW i \in Devices
      PROVE  IsResolved(rooms'[i], i)
  <2>1. TypeOK /\ sync \in SyncStates /\ sync.pc # "idle" /\ sync'.pc = "idle"
      BY <1>1 DEF SyncEnds, JobsInv, TypeOK
  <2>2. SyncRooms
    <3>1. ~ReadPositions
      <4>1. sync' # IdleSync("skipped_no_devices", TRUE)
          BY <1>1 DEF IdleSync
      <4>2. sync' # [sync EXCEPT !.pc = "sync", !.positionRows = positions]
          BY <2>1 DEF SyncStates
      <4>. QED BY <4>1, <4>2 DEF ReadPositions
    <3>2. ~SyncRoomsFails
        BY <1>1 DEF IdleSync, SyncRoomsFails
    <3>3. ~CrashSync
        BY <1>1 DEF IdleSync, CrashSync
    <3>4. sync' # sync /\ sync' # [sync EXCEPT !.calm = (sync.pc = "idle")]
        BY <2>1 DEF SyncStates
    <3>. QED BY <1>1, <2>1, <3>1, <3>2, <3>3, <3>4
             DEF Next, RunEam, RunSync, Fail, StartEam, SyncEamDevices, SyncEamPositions,
                 SyncPositions, SyncEamPositionsUnfiltered, SyncEamDevicesUnfiltered,
                 SyncDevices, EamDevicesFail, EamPositionsFail, LoginFails, CrashEam,
                 ReadDevices, AssetChanges, PlaceChanges, Change, vars
  <2>3. /\ rooms' = R!CommitAlone(rooms, ResolveRooms(devices, positions), TRUE)
        /\ ~R!Refused(rooms, ResolveRooms(devices, positions), TRUE)
    <3>1. sync.deviceRows = devices /\ sync.positionRows = positions
        BY <1>1, <2>1, <2>2 DEF JobsInv, SyncSoFar, SyncRooms
    <3>. QED BY <1>1, <2>2, <3>1 DEF IdleSync, SyncRooms
  <2>4. R!SameRow(rooms'[i], ResolveRooms(devices, positions)[i])
      BY <2>3, RoomsMirrored DEF R!Agree
  <2>. QED BY <2>1, <2>4, AgreeingRowIsResolved
<1>2. JobsInv /\ [Next]_vars =>
          [SyncEnds /\ sync'.status = "ok" /\ sync.calm
             => \A i \in Devices : IsResolved(rooms'[i], i)]_vars
    BY <1>1
<1>. QED BY JobsInvInit, JobsInvStep, <1>2, PTL DEF Spec, RoomsFollowTheCache

-----------------------------------------------------------------------------
(* What PipelineConverges rests on: right rows stay right, table after     *)
(* table.                                                                  *)

WrongDevices == {i \in Devices : ~D!SameRow(devices[i], Filtered(assets)[i])}
WrongPlaces == {p \in Positions : ~P!SameRow(positions[p], FilteredPlaces(places)[p])}
WrongRooms == {i \in Devices : ~IsResolved(rooms[i], i)}

\* What sync-rooms has read is what the tables hold now.
ReadsAreCurrent ==
    /\ sync.pc # "idle" => sync.deviceRows = devices
    /\ sync.pc = "sync" => sync.positionRows = positions

EamStandsStill ==
    /\ UNCHANGED <<assets, places>>
    /\ ~SyncEamDevicesUnfiltered
    /\ ~SyncEamPositionsUnfiltered

PipelineHeals ==
    EamStandsStill =>
        /\ WrongDevices' \subseteq WrongDevices
        /\ WrongPlaces' \subseteq WrongPlaces
        /\ WrongDevices = {} /\ WrongPlaces = {} => UNCHANGED <<devices, positions>>
        /\ UNCHANGED <<devices, positions>> /\ ReadsAreCurrent =>
              ReadsAreCurrent' /\ WrongRooms' \subseteq WrongRooms

\* A commit on the table it was planned from leaves alone what the view agrees
\* with, whether it may delete or not.
LEMMA DevicesKept ==
    ASSUME NEW t \in D!Tables, NEW view
    PROVE  /\ \A i \in Devices : D!SameRow(t[i], view[i]) => D!CommitAlone(t, view, TRUE)[i] = t[i]
           /\ D!Agree(t, view) => D!CommitAlone(t, view, TRUE) = t
<1>1. ASSUME NEW i \in Devices, D!SameRow(t[i], view[i])
      PROVE  D!CommitAlone(t, view, TRUE)[i] = t[i]
    BY <1>1 DEF D!SameRow, D!CommitAlone, D!ToInsert, D!ToUpdate, D!Deletes, D!ToDelete,
           D!Present, D!Differs
<1>2. D!CommitAlone(t, view, TRUE) = [i \in Devices |-> D!CommitAlone(t, view, TRUE)[i]]
    BY DEF D!CommitAlone
<1>3. t = [i \in Devices |-> t[i]]
    BY DEF D!Tables
<1>. QED BY <1>1, <1>2, <1>3 DEF D!Agree

LEMMA PositionsKept ==
    ASSUME NEW t \in P!Tables, NEW view
    PROVE  /\ \A p \in Positions :
                 P!SameRow(t[p], view[p]) => P!CommitAlone(t, view, TRUE)[p] = t[p]
           /\ P!Agree(t, view) => P!CommitAlone(t, view, TRUE) = t
<1>1. ASSUME NEW p \in Positions, P!SameRow(t[p], view[p])
      PROVE  P!CommitAlone(t, view, TRUE)[p] = t[p]
    BY <1>1 DEF P!SameRow, P!CommitAlone, P!ToInsert, P!ToUpdate, P!Deletes, P!ToDelete,
           P!Present, P!Differs
<1>2. P!CommitAlone(t, view, TRUE) = [p \in Positions |-> P!CommitAlone(t, view, TRUE)[p]]
    BY DEF P!CommitAlone
<1>3. t = [p \in Positions |-> t[p]]
    BY DEF P!Tables
<1>. QED BY <1>1, <1>2, <1>3 DEF P!Agree

LEMMA RoomsKept ==
    ASSUME NEW t, NEW view, NEW i \in Devices, R!SameRow(t[i], view[i])
    PROVE  R!CommitAlone(t, view, TRUE)[i] = t[i]
BY DEF R!SameRow, R!CommitAlone, R!ToInsert, R!ToUpdate, R!Deletes, R!ToDelete, R!Present, R!Differs

\* The other way round of AgreeingRowIsResolved.
LEMMA ResolvedRowAgrees ==
    ASSUME TypeOK, NEW i \in Devices, IsResolved(rooms[i], i)
    PROVE  R!SameRow(rooms[i], ResolveRooms(devices, positions)[i])
<1>1. CASE devices[i] = NoRow
    BY <1>1 DEF R!SameRow, ResolveRooms, IsResolved
<1>2. CASE devices[i] # NoRow
  <2>. DEFINE p == devices[i].position
              fresh == RoomRow(p, positions)
  <2>1. p \in Positions
      BY <1>2 DEF TypeOK, D!Tables, DeviceRows
  <2>2. positions[p] \in PositionRows \cup {NoRow}
      BY <2>1 DEF TypeOK, P!Tables
  <2>3. fresh \in RoomRows
      BY <2>1, <2>2 DEF RoomRow, RoomRows, PositionRows
  <2>4. rooms[i] \in RoomRows
      BY <1>2 DEF IsResolved, TypeOK, R!Tables
  <2>5. /\ fresh.position = p
        /\ fresh.room = IF positions[p] = NoRow THEN NO_ROOM_NO_POSITION
                        ELSE positions[p].room
      BY DEF RoomRow
  <2>6. rooms[i].position = fresh.position /\ rooms[i].room = fresh.room
      BY <1>2, <2>5 DEF IsResolved
  <2>7. ResolveRooms(devices, positions)[i] = fresh
      BY <1>2 DEF ResolveRooms
  <2>. HIDE DEF fresh
  <2>8. ~R!Differs(rooms[i], fresh)
      BY <2>6 DEF R!Differs
  <2>9. rooms[i] # NoRow /\ fresh # NoRow
      BY <2>3, <2>4, NoRowAssumption
  <2>. QED BY <2>7, <2>8, <2>9 DEF R!SameRow
<1>. QED BY <1>1, <1>2

\* A step that writes no table, and after which sync-rooms knows no more.
LEMMA QuietHeals ==
    ASSUME UNCHANGED <<assets, places, devices, positions, rooms>>,
           ReadsAreCurrent => ReadsAreCurrent'
    PROVE  PipelineHeals
BY DEF PipelineHeals, WrongDevices, WrongPlaces, WrongRooms, IsResolved, Filtered,
       FilteredPlaces

LEMMA EamHeals ==
    ASSUME TypeOK, SyncEamDevices \/ SyncEamPositions
    PROVE  PipelineHeals
<1>1. sync' = [sync EXCEPT !.calm = (sync.pc = "idle")] /\ sync \in SyncStates
    BY DEF SyncEamDevices, SyncDevices, SyncEamPositions, SyncPositions, TypeOK
<1>2. /\ sync'.pc = sync.pc /\ sync'.deviceRows = sync.deviceRows
      /\ sync'.positionRows = sync.positionRows
    BY <1>1 DEF SyncStates
<1>3. /\ UNCHANGED <<assets, places, rooms>> /\ Filtered(assets)' = Filtered(assets)
      /\ FilteredPlaces(places)' = FilteredPlaces(places)
      /\ devices \in D!Tables /\ positions \in P!Tables
    BY DEF SyncEamDevices, SyncDevices, SyncEamPositions, SyncPositions, upstream, Filtered,
           FilteredPlaces, TypeOK
<1>4. /\ \A i \in Devices : D!SameRow(devices[i], Filtered(assets)[i]) => devices'[i] = devices[i]
      /\ D!Agree(devices, Filtered(assets)) => devices' = devices
  <2>1. CASE SyncEamDevices
      BY <1>3, <2>1, DevicesKept DEF SyncEamDevices, SyncDevices
  <2>2. CASE SyncEamPositions
      BY <2>2 DEF SyncEamPositions, SyncPositions
  <2>. QED BY <2>1, <2>2
<1>5. /\ \A p \in Positions :
            P!SameRow(positions[p], FilteredPlaces(places)[p]) => positions'[p] = positions[p]
      /\ P!Agree(positions, FilteredPlaces(places)) => positions' = positions
  <2>1. CASE SyncEamDevices
      BY <2>1 DEF SyncEamDevices, SyncDevices
  <2>2. CASE SyncEamPositions
      BY <1>3, <2>2, PositionsKept DEF SyncEamPositions, SyncPositions
  <2>. QED BY <2>1, <2>2
<1>6. WrongDevices' \subseteq WrongDevices
    BY <1>3, <1>4 DEF WrongDevices
<1>7. WrongPlaces' \subseteq WrongPlaces
    BY <1>3, <1>5 DEF WrongPlaces
<1>8. WrongDevices = {} /\ WrongPlaces = {} => UNCHANGED <<devices, positions>>
    BY <1>4, <1>5 DEF WrongDevices, WrongPlaces, D!Agree, P!Agree
<1>9. UNCHANGED <<devices, positions>> => WrongRooms' = WrongRooms
    BY <1>3 DEF WrongRooms, IsResolved
<1>10. UNCHANGED <<devices, positions>> /\ ReadsAreCurrent => ReadsAreCurrent'
    BY <1>2 DEF ReadsAreCurrent
<1>. QED BY <1>6, <1>7, <1>8, <1>9, <1>10 DEF PipelineHeals

LEMMA SyncHeals ==
    ASSUME TypeOK, RunSync \/ SyncRoomsFails \/ CrashSync
    PROVE  PipelineHeals
<1>1. sync \in SyncStates
    BY DEF TypeOK
<1>2. UNCHANGED <<assets, places, devices, positions>>
    BY DEF RunSync, ReadDevices, ReadPositions, SyncRooms, SyncRoomsFails, CrashSync,
           upstream, tables
<1>3. \A status, beat : IdleSync(status, beat).pc = "idle"
    BY DEF IdleSync
<1>4. ReadsAreCurrent => ReadsAreCurrent'
  <2>1. CASE ReadDevices
    <3>1. sync' = [IdleSync("none", FALSE) EXCEPT !.pc = "positions", !.deviceRows = devices]
        BY <2>1 DEF ReadDevices
    <3>2. sync'.pc = "positions" /\ sync'.deviceRows = devices
        BY <3>1 DEF IdleSync
    <3>. QED BY <1>2, <3>2 DEF ReadsAreCurrent
  <2>2. CASE ReadPositions
    <3>1. CASE sync' = [sync EXCEPT !.pc = "sync", !.positionRows = positions]
      <4>1. /\ sync'.positionRows = positions /\ sync'.deviceRows = sync.deviceRows
            /\ sync.pc # "idle"
          BY <1>1, <2>2, <3>1 DEF ReadPositions, SyncStates
      <4>. QED BY <1>2, <4>1 DEF ReadsAreCurrent
    <3>. QED BY <1>3, <2>2, <3>1 DEF ReadPositions, ReadsAreCurrent
  <2>3. CASE SyncRooms \/ SyncRoomsFails \/ CrashSync
    <3>1. sync'.pc = "idle"
        BY <1>3, <2>3 DEF SyncRooms, SyncRoomsFails, CrashSync
    <3>. QED BY <3>1 DEF ReadsAreCurrent
  <2>. QED BY <2>1, <2>2, <2>3 DEF RunSync
<1>5. CASE SyncRooms /\ ReadsAreCurrent
  <2>1. rooms' = R!CommitAlone(rooms, ResolveRooms(devices, positions), TRUE)
      BY <1>5 DEF SyncRooms, ReadsAreCurrent
  <2>2. ASSUME NEW i \in Devices, IsResolved(rooms[i], i)
        PROVE  rooms'[i] = rooms[i]
      BY <2>1, <2>2, ResolvedRowAgrees, RoomsKept
  <2>3. WrongRooms' \subseteq WrongRooms
      BY <1>2, <2>2 DEF WrongRooms, IsResolved
  <2>. QED BY <1>2, <1>4, <2>3 DEF PipelineHeals, WrongDevices, WrongPlaces, Filtered,
           FilteredPlaces
<1>6. CASE SyncRooms /\ ~ReadsAreCurrent
    BY <1>2, <1>6 DEF PipelineHeals, WrongDevices, WrongPlaces, Filtered,
           FilteredPlaces
<1>7. CASE ~SyncRooms
  <2>1. UNCHANGED rooms
      BY <1>7 DEF RunSync, ReadDevices, ReadPositions, SyncRoomsFails, CrashSync, tables
  <2>. QED BY <1>2, <1>4, <2>1, QuietHeals
<1>. QED BY <1>5, <1>6, <1>7

(* While EAM stands still and both of its queries are filtered, no run     *)
(* makes a row of eam_devices or eam_positions wrong; when they are right  *)
(* they are left alone; and a sync-rooms that has read what the tables     *)
(* hold makes no room wrong, whatever overlaps, fails or is killed.  So    *)
(* the pipeline (run_eam, sync_rooms) settles from its source downwards,   *)
(* and what agrees stays as it is.                                         *)
THEOREM PipelineSettles == Spec => [][PipelineHeals]_vars
<1>1. ASSUME TypeOK, Next PROVE PipelineHeals
  <2>1. ASSUME \/ \E i \in Devices, row \in DeviceRows \cup {NoRow} : AssetChanges(i, row)
               \/ \E p \in Positions, row \in PositionRows \cup {NoRow} : PlaceChanges(p, row)
        PROVE  ~EamStandsStill
      BY <1>1, <2>1 DEF AssetChanges, PlaceChanges, EamStandsStill, TypeOK, D!Tables, P!Tables
  <2>2. CASE StartEam \/ LoginFails \/ EamDevicesFail \/ EamPositionsFail \/ CrashEam
    <3>1. UNCHANGED <<assets, places, devices, positions, rooms, sync>>
        BY <2>2 DEF StartEam, LoginFails, EamDevicesFail, EamPositionsFail, CrashEam,
               upstream, tables
    <3>. QED BY <3>1, QuietHeals DEF ReadsAreCurrent
  <2>3. SyncEamDevicesUnfiltered \/ SyncEamPositionsUnfiltered => PipelineHeals
      BY DEF PipelineHeals, EamStandsStill
  <2>4. ~EamStandsStill => PipelineHeals
      BY DEF PipelineHeals
  <2>. QED BY <1>1, <2>1, <2>2, <2>3, <2>4, EamHeals, SyncHeals DEF Next, RunEam, Fail
<1>2. TypeOK /\ [Next]_vars => [PipelineHeals]_vars
    BY <1>1
<1>. QED BY <1>2, JobsTypeCorrect, PTL DEF Spec
=============================================================================
