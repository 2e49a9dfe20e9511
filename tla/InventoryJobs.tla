--------------------------- MODULE InventoryJobs ---------------------------
(***************************************************************************)
(* The EAM job and the rooms job over the tables they share                *)
(* (AVTools.run_eam and sync_rooms, core/av_tools.py, and the commands of  *)
(* main.py that start them).  run-eam refreshes eam_devices and then       *)
(* eam_positions, two transactions that succeed or fail independently.     *)
(* sync-rooms reads eam_devices, then eam_positions, in one session but    *)
(* two statements, resolves a room for every device and refreshes          *)
(* eam_rooms.  The jobs run on their own timers and overlap; each table is *)
(* written by one job, whose runs follow one another here (InventorySync   *)
(* has the runs that overlap).  How a position leads to a room is          *)
(* RoomResolver's subject: here a position row names its room.             *)
(***************************************************************************)
EXTENDS Integers, FiniteSets

CONSTANTS
    Devices,     \* equipment numbers of assets
    Foreign,     \* the assets of other departments among them
    Positions,   \* equipment numbers of positions
    ForeignPlaces, \* the positions of other departments among them
    Rooms,       \* what a known position can resolve to, a sentinel included
    NO_ROOM_NO_POSITION,
    NoRow,
    Grids,       \* asset grids a behaviour may start with
    MaxChanges,  \* bound: changes of EAM in a behaviour
    MaxFaults    \* bound: failures and kills in a behaviour

ASSUME ForeignAssumption == Foreign \subseteq Devices /\ ForeignPlaces \subseteq Positions
ASSUME BoundsAssumption == MaxChanges \in Nat /\ MaxFaults \in Nat

DeviceRows == [position : Positions]
PositionRows == [room : Rooms]
RoomRows == [position : Positions, room : Rooms \cup {NO_ROOM_NO_POSITION}]

D == INSTANCE Reconcile WITH Ids <- Devices, Rows <- DeviceRows, Unset <- NoRow,
                             Columns <- {"position"}, Compared <- {"position"}
P == INSTANCE Reconcile WITH Ids <- Positions, Rows <- PositionRows, Unset <- NoRow,
                             Columns <- {"room"}, Compared <- {"room"}
R == INSTANCE Reconcile WITH Ids <- Devices, Rows <- RoomRows, Unset <- NoRow,
                             Columns <- {"position", "room"},
                             Compared <- {"position", "room"}

ASSUME NoRowAssumption ==
    /\ NoRow \notin DeviceRows \cup PositionRows \cup RoomRows
    /\ NoRow \notin Positions \cup Rooms \cup {NO_ROOM_NO_POSITION}
ASSUME GridsAssumption == Grids \subseteq D!Tables

VARIABLES
    assets, places,           \* EAM: the asset grid and the position grid
    devices, positions,       \* eam_devices and eam_positions
    rooms,                    \* eam_rooms
    eam,                      \* the run-eam process
    sync,                     \* the sync-rooms process
    changes, faults

upstream == <<assets, places, changes>>
tables == <<devices, positions, rooms>>
vars == <<upstream, tables, eam, sync, faults>>

(* hadErrors: had_errors; calm, history: during the run, or the last one,  *)
(* EAM has not changed and no query went out unfiltered; status: how the   *)
(* last run ended; beat: whether its command published the heartbeat.      *)
EamStates == [pc : {"idle", "devices", "positions"}, hadErrors : BOOLEAN,
              calm : BOOLEAN, status : {"none", "ok", "failed", "completed_with_errors"},
              beat : BOOLEAN]

(* deviceRows, positionRows: the two SELECTs; calm, history: run-eam has   *)
(* committed nothing since the first.                                      *)
SyncStates == [pc : {"idle", "positions", "sync"}, deviceRows : D!Tables,
               positionRows : P!Tables, calm : BOOLEAN,
               status : {"none", "ok", "failed", "skipped_no_devices"}, beat : BOOLEAN]

IdleEam(status, beat) ==
    [pc |-> "idle", hadErrors |-> FALSE, calm |-> TRUE, status |-> status, beat |-> beat]

IdleSync(status, beat) ==
    [pc |-> "idle", deviceRows |-> D!EmptyTable, positionRows |-> P!EmptyTable,
     calm |-> TRUE, status |-> status, beat |-> beat]

TypeOK ==
    /\ assets \in D!Tables
    /\ places \in P!Tables
    /\ devices \in D!Tables
    /\ positions \in P!Tables
    /\ rooms \in R!Tables
    /\ eam \in EamStates
    /\ sync \in SyncStates
    /\ changes \in 0..MaxChanges
    /\ faults \in 0..MaxFaults

Init ==
    /\ assets \in Grids
    /\ places \in P!Tables
    /\ devices = D!EmptyTable
    /\ positions = P!EmptyTable
    /\ rooms = R!EmptyTable
    /\ eam = IdleEam("none", FALSE)
    /\ sync = IdleSync("none", FALSE)
    /\ changes = 0
    /\ faults = 0

Fault ==
    /\ faults < MaxFaults
    /\ faults' = faults + 1

-----------------------------------------------------------------------------
(* EAM changes.                                                            *)

Change ==
    /\ changes < MaxChanges
    /\ changes' = changes + 1
    /\ eam' = [eam EXCEPT !.calm = @ /\ eam.pc = "idle"]
    /\ UNCHANGED <<tables, sync, faults>>

AssetChanges(i, row) ==
    /\ Change
    /\ assets[i] # row
    /\ assets' = [assets EXCEPT ![i] = row]
    /\ UNCHANGED places

PlaceChanges(p, row) ==
    /\ Change
    /\ places[p] # row
    /\ places' = [places EXCEPT ![p] = row]
    /\ UNCHANGED assets

-----------------------------------------------------------------------------
(* run-eam.                                                                *)

\* Mutant: a flow that succeeds clears the flag.
ErrorsForgotten(hadErrors, failed) == failed

ErrorsSoFar(hadErrors, failed) == hadErrors \/ failed

\* register_credentials; the heartbeat follows whatever run_eam returns.
StartEam ==
    /\ eam.pc = "idle"
    /\ eam' = [IdleEam("none", FALSE) EXCEPT !.pc = "devices"]
    /\ UNCHANGED <<upstream, tables, sync, faults>>

LoginFails ==
    /\ Fault
    /\ eam.pc = "idle"
    /\ eam' = IdleEam("failed", TRUE)
    /\ UNCHANGED <<upstream, tables, sync>>

\* sync_eam_devices has ended: on to the positions.
DevicesDone(failed, filtered) ==
    eam' = [eam EXCEPT !.pc = "positions",
                       !.hadErrors = ErrorsSoFar(@, failed),
                       !.calm = @ /\ filtered]

\* The department's assets: department_code__startswith.
Filtered(view) == [i \in Devices |-> IF i \in Foreign THEN NoRow ELSE view[i]]

\* Fetch, reconcile, commit; MassDeleteRefused, raised after the commit, is
\* one more error of the flow.
SyncDevices(view, filtered) ==
    /\ eam.pc = "devices"
    /\ devices' = D!CommitAlone(devices, view, TRUE)
    /\ DevicesDone(D!Refused(devices, view, TRUE), filtered)
    /\ sync' = [sync EXCEPT !.calm = (sync.pc = "idle")]
    /\ UNCHANGED <<upstream, positions, rooms>>

SyncEamDevices == SyncDevices(Filtered(assets), TRUE) /\ UNCHANGED faults

\* The filter could not be built: a warning, and the query goes unfiltered.
SyncEamDevicesUnfiltered == Fault /\ SyncDevices(assets, FALSE)

\* The fetch or the database raises.
EamDevicesFail ==
    /\ Fault
    /\ eam.pc = "devices"
    /\ DevicesDone(TRUE, TRUE)
    /\ UNCHANGED <<upstream, tables, sync>>

\* The end of run_eam: it returns None whatever happened, and run-eam beats.
EndEam(failed, filtered) ==
    eam' = [IdleEam(IF ErrorsSoFar(eam.hadErrors, failed) THEN "completed_with_errors"
                    ELSE "ok", TRUE)
            EXCEPT !.calm = eam.calm /\ filtered]

\* The department's positions.
FilteredPlaces(view) == [p \in Positions |-> IF p \in ForeignPlaces THEN NoRow ELSE view[p]]

SyncPositions(view, filtered) ==
    /\ eam.pc = "positions"
    /\ positions' = P!CommitAlone(positions, view, TRUE)
    /\ EndEam(P!Refused(positions, view, TRUE), filtered)
    /\ sync' = [sync EXCEPT !.calm = (sync.pc = "idle")]
    /\ UNCHANGED <<upstream, devices, rooms>>

SyncEamPositions == SyncPositions(FilteredPlaces(places), TRUE) /\ UNCHANGED faults

\* Their filter could not be built either: a warning, and the run may end ok.
SyncEamPositionsUnfiltered == Fault /\ SyncPositions(places, FALSE)

EamPositionsFail ==
    /\ Fault
    /\ eam.pc = "positions"
    /\ EndEam(TRUE, TRUE)
    /\ UNCHANGED <<upstream, tables, sync>>

CrashEam ==
    /\ Fault
    /\ eam.pc # "idle"
    /\ eam' = IdleEam("none", FALSE)
    /\ UNCHANGED <<upstream, tables, sync>>

-----------------------------------------------------------------------------
(* sync-rooms.                                                             *)

\* get_eam_room_inputs, first statement.
ReadDevices ==
    /\ sync.pc = "idle"
    /\ sync' = [IdleSync("none", FALSE) EXCEPT !.pc = "positions", !.deviceRows = devices]
    /\ UNCHANGED <<upstream, tables, eam, faults>>

\* Its second statement sees what was committed since (READ COMMITTED).
ReadPositions ==
    /\ sync.pc = "positions"
    /\ sync' = IF D!Present(sync.deviceRows) = {}
               THEN IdleSync("skipped_no_devices", TRUE)
               ELSE [sync EXCEPT !.pc = "sync", !.positionRows = positions]
    /\ UNCHANGED <<upstream, tables, eam, faults>>

\* Mutant: an unknown position gives no room at all.
RoomRowWithoutSentinel(p, known) ==
    [position |-> p, room |-> IF known[p] = NoRow THEN NoRow ELSE known[p].room]

RoomRow(p, known) ==
    [position |-> p,
     room |-> IF known[p] = NoRow THEN NO_ROOM_NO_POSITION ELSE known[p].room]

\* Mutant: a device whose position is unknown gets no row.
ResolveKnownOnly(deviceTable, known) ==
    [i \in Devices |->
        IF deviceTable[i] = NoRow \/ known[deviceTable[i].position] = NoRow THEN NoRow
        ELSE RoomRow(deviceTable[i].position, known)]

\* _resolve_rooms: one row for every device.
ResolveRooms(deviceTable, known) ==
    [i \in Devices |-> IF deviceTable[i] = NoRow THEN NoRow
                       ELSE RoomRow(deviceTable[i].position, known)]

\* sync_rooms reads eam_rooms, reconciles and commits; it returns None.
SyncRooms ==
    /\ sync.pc = "sync"
    /\ LET view == ResolveRooms(sync.deviceRows, sync.positionRows)
       IN  /\ rooms' = R!CommitAlone(rooms, view, TRUE)
           /\ sync' = IdleSync(IF R!Refused(rooms, view, TRUE) THEN "failed" ELSE "ok", TRUE)
    /\ UNCHANGED <<upstream, devices, positions, eam, faults>>

SyncRoomsFails ==
    /\ Fault
    /\ sync.pc # "idle"
    /\ sync' = IdleSync("failed", TRUE)
    /\ UNCHANGED <<upstream, tables, eam>>

CrashSync ==
    /\ Fault
    /\ sync.pc # "idle"
    /\ sync' = IdleSync("none", FALSE)
    /\ UNCHANGED <<upstream, tables, eam>>

-----------------------------------------------------------------------------

RunEam == StartEam \/ SyncEamDevices \/ SyncEamPositions
RunSync == ReadDevices \/ ReadPositions \/ SyncRooms

Fail ==
    \/ LoginFails
    \/ SyncEamDevicesUnfiltered
    \/ SyncEamPositionsUnfiltered
    \/ EamDevicesFail
    \/ EamPositionsFail
    \/ CrashEam
    \/ SyncRoomsFails
    \/ CrashSync

Next ==
    \/ RunEam
    \/ RunSync
    \/ Fail
    \/ \E i \in Devices, row \in DeviceRows \cup {NoRow} : AssetChanges(i, row)
    \/ \E p \in Positions, row \in PositionRows \cup {NoRow} : PlaceChanges(p, row)

Spec == Init /\ [][Next]_vars

(* Each job is started again by its own timer, and a run that nothing      *)
(* kills proceeds.                                                         *)
FairSpec == Spec /\ WF_vars(RunEam) /\ WF_vars(RunSync)

-----------------------------------------------------------------------------
(* Properties.                                                             *)

EamEnds == eam.pc = "positions" /\ eam'.pc = "idle"
SyncEnds == sync.pc # "idle" /\ sync'.pc = "idle"

(* "ok" covers both flows: a run of run_eam that ends ok, EAM unchanged    *)
(* and neither query gone out unfiltered, has made eam_positions agree     *)
(* with the department's positions, and before that eam_devices, which     *)
(* nobody else writes, with its assets.                                    *)
OkMeansBothSynced ==
    [][EamEnds /\ eam'.status = "ok" /\ eam'.calm
         => /\ D!Agree(devices', Filtered(assets))
            /\ P!Agree(positions', FilteredPlaces(places))]_vars

(* The row is what the cached device and position say of device i.         *)
IsResolved(row, i) ==
    IF devices[i] = NoRow THEN row = NoRow
    ELSE /\ row # NoRow
         /\ row.position = devices[i].position
         /\ row.room = IF positions[devices[i].position] = NoRow THEN NO_ROOM_NO_POSITION
                       ELSE positions[devices[i].position].room

(* When run-eam committed nothing between its two reads and its end, a     *)
(* sync-rooms that ends ok leaves exactly one row for every cached device, *)
(* with the room the cached positions give it.                             *)
RoomsFollowTheCache ==
    [][SyncEnds /\ sync'.status = "ok" /\ sync.calm
         => \A i \in Devices : IsResolved(rooms'[i], i)]_vars

PipelineCurrent ==
    /\ D!Agree(devices, Filtered(assets))
    /\ P!Agree(positions, FilteredPlaces(places))
    /\ \A i \in Devices : IsResolved(rooms[i], i)

\* A breaker holds back a table, or sync-rooms skips an empty eam_devices.
Stuck ==
    \/ D!MassDelete(devices, Filtered(assets))
    \/ P!MassDelete(positions, FilteredPlaces(places))
    \/ R!MassDelete(rooms, devices)
    \/ D!Present(devices) = {}

(* Once EAM and the faults settle, all three tables come to agree with EAM *)
(* and stay so, rooms written from a torn pair of reads and foreign rows   *)
(* from unfiltered queries included, unless a breaker holds a table back.  *)
PipelineConverges == <>[](PipelineCurrent \/ Stuck)

(* "Heartbeat only after a successful sync": a command publishes its       *)
(* heartbeat only when the run did what it is for.                         *)
HeartbeatOnlyAfterSuccess ==
    /\ eam.beat => eam.status = "ok"
    /\ sync.beat => sync.status \in {"ok", "skipped_no_devices"}
=============================================================================
