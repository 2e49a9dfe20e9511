---------------------------- MODULE InventorySync ----------------------------
(***************************************************************************)
(* One inventory cache table and the runs of the job that refreshes it     *)
(* (sync_eam_devices, sync_eam_positions, run_landb, sync_rooms all have   *)
(* this shape): fetch the upstream view, only then read the whole table,   *)
(* reconcile the two, and commit inserts, updates and deletes in one       *)
(* READ COMMITTED transaction of several statements.  The program takes no *)
(* lock and starts a run whenever it is told to, so two runs of a job may  *)
(* overlap, each with a snapshot, and in its transaction with rows, that   *)
(* the other has outdated.  Upstream changes meanwhile, fetches fail or    *)
(* come back partial, the database fails, a run is killed.                 *)
(***************************************************************************)
EXTENDS Reconcile

CONSTANTS
    Runs,        \* the runs that may be in progress at once
    Grids,       \* what upstream may hold when a behaviour starts
    MaxEvents    \* bound: upstream changes, failed, partial or duplicated
                 \* fetches, database errors and kills in a behaviour

ASSUME GridsAssumption == Grids \subseteq Tables
ASSUME BoundsAssumption == MaxEvents \in Nat

VARIABLES
    upstream,  \* what the upstream system holds now
    table,     \* the cache table in Postgres
    run,       \* run[r]: the local state of run r
    served,    \* history: served[i], the rows upstream has held for key i
    peak,      \* history: the most rows the table has held at once
    events     \* upstream changes and faults so far

vars == <<upstream, table, run, served, peak, events>>

Outcomes == {"none", "ok", "refused", "failed"}

(* view: the upstream items by key; allow: the allow_deletes argument;     *)
(* twice: the item list names some key twice; snap: the rows read back     *)
(* from the table; doomed: the keys whose rows the DELETE has met; todo:   *)
(* the keys to update whose rows are not loaded yet; loaded: the rows that *)
(* are; outcome: how the last finished run of r ended.                     *)
RunStates ==
    [pc : {"idle", "fetched", "read", "open"}, view : Tables, allow : BOOLEAN,
     twice : BOOLEAN, snap : MixedTables, doomed : SUBSET Ids, todo : SUBSET Ids,
     loaded : MixedTables, outcome : Outcomes]

IdleRun(outcome) ==
    [pc |-> "idle", view |-> EmptyTable, allow |-> TRUE, twice |-> FALSE,
     snap |-> EmptyTable, doomed |-> {}, todo |-> {}, loaded |-> EmptyTable,
     outcome |-> outcome]

TypeOK ==
    /\ upstream \in Tables
    /\ table \in MixedTables
    /\ run \in [Runs -> RunStates]
    /\ served \in [Ids -> SUBSET Rows]
    /\ peak \in Nat
    /\ events \in 0..MaxEvents

Init ==
    /\ upstream \in Grids
    /\ table = EmptyTable
    /\ run = [r \in Runs |-> IdleRun("none")]
    /\ served = [i \in Ids |-> {upstream[i]} \ {NoRow}]
    /\ peak = 0
    /\ events = 0

Event ==
    /\ events < MaxEvents
    /\ events' = events + 1

-----------------------------------------------------------------------------
(* Upstream.                                                               *)

UpstreamChange(i, row) ==
    /\ Event
    /\ upstream[i] # row
    /\ upstream' = [upstream EXCEPT ![i] = row]
    /\ served' = [served EXCEPT ![i] = @ \cup ({row} \ {NoRow})]
    /\ UNCHANGED <<table, run, peak>>

-----------------------------------------------------------------------------
(* A run.                                                                  *)

Fetched(r, view, allow, twice) ==
    /\ run[r].pc = "idle"
    /\ run' = [run EXCEPT ![r] = [IdleRun("none") EXCEPT
                  !.pc = "fetched", !.view = view, !.allow = allow, !.twice = twice]]
    /\ UNCHANGED <<upstream, table, served, peak>>

\* query.all() answers with everything upstream holds.
FetchComplete(r) ==
    /\ Fetched(r, upstream, TRUE, FALSE)
    /\ UNCHANGED events

\* Mutant: the missing keys are not even absent.
PartialDomain(part) == [i \in part |-> upstream[i]]

\* The upstream items of the keys in part, the others missing.
Partial(part) == [i \in Ids |-> IF i \in part THEN upstream[i] ELSE NoRow]

\* A LanDB chunk failed and run_landb knows it: deletes are not allowed.
\* (That the rows left may be wrongly matched ones is LandbRun's subject.)
FetchDegraded(r) ==
    /\ Event
    /\ \E part \in SUBSET Present(upstream) : Fetched(r, Partial(part), FALSE, FALSE)

\* The answer is short and nothing says so: a row limit, or an upstream that
\* returns an empty or truncated list without an error.
FetchTruncated(r) ==
    /\ Event
    /\ \E part \in (SUBSET Present(upstream)) \ {Present(upstream)} :
          Fetched(r, Partial(part), TRUE, FALSE)

\* The item list is complete and names some key twice.
FetchTwice(r) ==
    /\ Event
    /\ Present(upstream) # {}
    /\ Fetched(r, upstream, TRUE, TRUE)

\* The fetch raises: the run ends without having touched the table.
FetchFails(r) ==
    /\ Event
    /\ run[r].pc = "idle"
    /\ run' = [run EXCEPT ![r] = IdleRun("failed")]
    /\ UNCHANGED <<upstream, table, served, peak>>

\* _get_all: the whole table, in one SELECT.
ReadCache(r) ==
    /\ run[r].pc = "fetched"
    /\ run' = [run EXCEPT ![r].pc = "read", ![r].snap = table]
    /\ UNCHANGED <<upstream, table, served, peak, events>>

\* _sync_entities plans and _sync_devices begins: the DELETE meets the rows it
\* finds now.
Open(r) ==
    /\ run[r].pc = "read"
    /\ run' = [run EXCEPT ![r].pc = "open",
                          ![r].doomed = Deletes(run[r].snap, run[r].view, run[r].allow)
                                           \cap Present(table),
                          ![r].todo = ToUpdate(run[r].snap, run[r].view)]
    /\ UNCHANGED <<upstream, table, served, peak, events>>

\* session.get of one row to update, in any order, without a lock.  A row that
\* is gone is skipped.
LoadRow(r) ==
    /\ run[r].pc = "open"
    /\ \E i \in run[r].todo :
          run' = [run EXCEPT ![r].todo = @ \ {i}, ![r].loaded[i] = table[i]]
    /\ UNCHANGED <<upstream, table, served, peak, events>>

\* add_all of the raw item list on a first run does not remove duplicates;
\* every other plan is built from maps by key.
FlushFails(r) ==
    \/ Present(run[r].snap) = {} /\ run[r].twice
    \/ KeyConflict(table, run[r].snap, run[r].view)
    \/ RowGone(table, run[r].loaded, run[r].view)

\* The flush and the commit: all of it or nothing.  Row locks only decide which
\* of two transactions that write one row commits first.
Apply(r) ==
    /\ run[r].pc = "open"
    /\ run[r].todo = {}
    /\ IF FlushFails(r)
       THEN /\ run' = [run EXCEPT ![r] = IdleRun("failed")]
            /\ UNCHANGED <<table, peak>>
       ELSE /\ table' = Commit(table, ToInsert(run[r].snap, run[r].view), run[r].doomed,
                              run[r].loaded, run[r].view)
            /\ peak' = IF Cardinality(Present(table')) > peak
                       THEN Cardinality(Present(table')) ELSE peak
            /\ run' = [run EXCEPT ![r] = IdleRun(
                          IF Refused(run[r].snap, run[r].view, run[r].allow)
                          THEN "refused" ELSE "ok")]
    /\ UNCHANGED <<upstream, served, events>>

\* The SELECT or the transaction raises SQLAlchemyError: rolled back.
DatabaseFails(r) ==
    /\ Event
    /\ run[r].pc \in {"fetched", "open"}
    /\ run' = [run EXCEPT ![r] = IdleRun("failed")]
    /\ UNCHANGED <<upstream, table, served, peak>>

\* The process is killed: what it had read is gone, what it had not committed
\* never happened.
Crash(r) ==
    /\ Event
    /\ run[r].pc # "idle"
    /\ run' = [run EXCEPT ![r] = IdleRun("none")]
    /\ UNCHANGED <<upstream, table, served, peak>>

-----------------------------------------------------------------------------

RunStep(r) ==
    \/ FetchComplete(r)
    \/ ReadCache(r)
    \/ Open(r)
    \/ LoadRow(r)
    \/ Apply(r)

RunFault(r) ==
    \/ FetchDegraded(r)
    \/ FetchTruncated(r)
    \/ FetchTwice(r)
    \/ FetchFails(r)
    \/ DatabaseFails(r)
    \/ Crash(r)

Next ==
    \/ \E i \in Ids, row \in Rows \cup {NoRow} : UpstreamChange(i, row)
    \/ \E r \in Runs : RunStep(r) \/ RunFault(r)

Spec == Init /\ [][Next]_vars

(* The job is started again and again by a timer, and a run that is not    *)
(* killed proceeds.  Faults and upstream changes are never required.       *)
FairSpec == Spec /\ \A r \in Runs : WF_vars(RunStep(r))

-----------------------------------------------------------------------------
(* Properties.                                                             *)

\* Each column of the row has the value it has in some row of seen.
ServedInParts(row, seen) == \A c \in Columns : \E old \in seen : row[c] = old[c]

(* Overlapping runs may leave a row that mixes versions upstream served at *)
(* different times (a row is loaded without a lock and only the columns    *)
(* that differ from it are written), but whatever they read, skip, write   *)
(* or overwrite, every value in the cache is one upstream served for that  *)
(* key in that column.                                                     *)
MixturesAreServed ==
    \A i \in Ids : table[i] # NoRow => ServedInParts(table[i], served[i])

\* Run r ends and may have committed.
Ends(r) == run[r].pc = "open" /\ run'[r].pc = "idle"

(* A mixture takes another run's commit between the SELECT and the UPDATE  *)
(* of one row: where the row is still the one the run has loaded, it keeps *)
(* it or leaves the fresh row whole, the columns included that no diff     *)
(* looks at (every mapped column is copied).                               *)
MixingTakesAnOverlap ==
    [][\A r \in Runs, i \in Ids :
          Ends(r) /\ table'[i] \notin {table[i], NoRow, run[r].view[i]}
             => run[r].loaded[i] # table[i]]_vars

(* A run whose fetch was known to be partial may end any way it likes, but *)
(* the table keeps every key it had (allow_deletes in _sync_entities).     *)
DegradedKeepsEveryKey ==
    [][\A r \in Runs :
          Ends(r) /\ ~run[r].allow => Present(table) \subseteq Present(table')]_vars

(* No single commit removes more than half of the rows its run had read,   *)
(* whatever the upstream view looked like: the mass-delete breaker, which  *)
(* must hold even when the table has changed since it was read.            *)
BoundedErasure ==
    [][\A r \in Runs :
          Ends(r) => 2 * Cardinality(Present(table) \ Present(table'))
                        <= Cardinality(Present(run[r].snap))]_vars

\* The run has found the table, at each of its statements, as it had read it.
Unmoved(r) ==
    /\ table = run[r].snap
    /\ run[r].doomed = Deletes(run[r].snap, run[r].view, run[r].allow)
    /\ \A i \in ToUpdate(run[r].snap, run[r].view) : run[r].loaded[i] = run[r].snap[i]

(* A run that ends ok on a table nobody else changed since it read it,     *)
(* with a view it believes complete, leaves the table agreeing with that   *)
(* view: nothing is reported as synchronised that was not.                 *)
OkMeansMirrored ==
    [][\A r \in Runs :
          Ends(r) /\ run'[r].outcome = "ok" /\ run[r].allow /\ Unmoved(r)
             => Agree(table', run[r].view)]_vars

(* A refused mass delete still applies the inserts and updates: every key  *)
(* of the view that is in the table afterwards is fresh                    *)
(* ("Inserts/updates are still applied first").                            *)
RefusedStillRefreshes ==
    [][\A r \in Runs :
          Ends(r) /\ run'[r].outcome = "refused" /\ Unmoved(r)
             => \A i \in Present(run[r].view) :
                   SameRow(table'[i], run[r].view[i])]_vars

Mirrored == Agree(table, upstream)

\* Upstream lost more than half of what the table holds: every complete run
\* refuses the deletes.
MassDeletePending == MassDelete(table, upstream)

(* Once upstream and the faults settle, the overlapping runs bring the     *)
(* table to agree with upstream and keep it there, or the table is stuck   *)
(* behind the circuit breaker: a stale run's resurrected or overwritten    *)
(* rows never survive for good.                                            *)
Converges == <>[](Mirrored \/ MassDeletePending)

(* "Devices no longer present ... are deleted" (sync_rooms) and "a genuine *)
(* mass decommission is re-run deliberately": once upstream settles the    *)
(* table agrees with it.  It does not: no command passes                   *)
(* allow_mass_delete, so a refused delete is refused by every later run.   *)
DecommissionedRowsGo == <>[]Mirrored

Cache == INSTANCE InventoryCache

(* The runs implement what the cache promises to its readers.              *)
ImplementsCache == Cache!Spec
=============================================================================
