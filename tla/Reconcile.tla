------------------------------ MODULE Reconcile ------------------------------
(***************************************************************************)
(* The reconciliation every inventory job runs: AVTools._sync_entities     *)
(* (core/av_tools.py) turns a fresh upstream view and a snapshot of a      *)
(* cache table into inserts, updates and deletes, and                      *)
(* PostgresInventoryClient._sync_devices (postgres/inventory/client.py)    *)
(* applies them in one transaction.  Pure operators: no state is kept.     *)
(*                                                                         *)
(* A table, a snapshot of one and an upstream view are all functions from  *)
(* primary keys to a row or NoRow.  A row gives each column a value; Unset *)
(* is that of a column the fresh payload leaves out, and of the NULL it is *)
(* stored as.  Only the columns of the compare-field whitelist that the    *)
(* payload sets decide whether a row is rewritten; a rewrite copies all.   *)
(***************************************************************************)
EXTENDS Integers, FiniteSets

CONSTANTS
    Ids,       \* primary keys (EAM equipment numbers)
    Columns,   \* the columns of a row but its key
    Compared,  \* those on the compare-field whitelist
    Unset,     \* what a payload does not say
    Rows,      \* rows an upstream system can serve
    NoRow      \* the key is not there

\* What a table may hold in some column.
Values == {row[c] : row \in Rows, c \in Columns}

ASSUME IdsAssumption == IsFiniteSet(Ids)
ASSUME ColumnsAssumption ==
    /\ Compared \subseteq Columns
    /\ \A row \in Rows : row = [c \in Columns |-> row[c]]
ASSUME NoRowAssumption == NoRow \notin [Columns -> Values]

Tables == [Ids -> Rows \cup {NoRow}]

\* Overlapping runs may leave rows of which each column is from another version.
MixedTables == [Ids -> [Columns -> Values] \cup {NoRow}]

EmptyTable == [i \in Ids |-> NoRow]

Present(t) == {i \in Ids : t[i] # NoRow}

-----------------------------------------------------------------------------
(* _sync_entities: what a run decides to write, from what it has read.     *)

\* _diff_models(old, new) is not empty.
Differs(old, new) == \E c \in Compared : new[c] # Unset /\ old[c] # new[c]

\* Neither a plan nor a diff finds anything to do for this key.
SameRow(old, new) ==
    \/ old = NoRow /\ new = NoRow
    \/ old # NoRow /\ new # NoRow /\ ~Differs(old, new)

Agree(t, u) == \A i \in Ids : SameRow(t[i], u[i])

ToInsert(cache, api) == Present(api) \ Present(cache)
ToDelete(cache, api) == Present(cache) \ Present(api)

\* Mutant: floor division, so that only a total wipe exceeds one half.
MassDeleteFloored(cache, api) ==
    /\ Present(cache) # {}
    /\ Cardinality(ToDelete(cache, api)) \div Cardinality(Present(cache)) >= 1

\* delete_fraction > SYNC_MAX_DELETE_FRACTION (0.5), strictly.
MassDelete(cache, api) ==
    2 * Cardinality(ToDelete(cache, api)) > Cardinality(Present(cache))

\* Mutant: the degraded-fetch guard is forgotten.
DeletesUnguarded(cache, api, allowDeletes) ==
    IF MassDelete(cache, api) THEN {} ELSE ToDelete(cache, api)

\* Mutant: the circuit breaker is forgotten.
DeletesUnbroken(cache, api, allowDeletes) ==
    IF allowDeletes THEN ToDelete(cache, api) ELSE {}

\* The deletes that survive both guards.
Deletes(cache, api, allowDeletes) ==
    IF ~allowDeletes \/ MassDelete(cache, api) THEN {} ELSE ToDelete(cache, api)

\* Mutant: the deletes are dropped, and nobody is told.
RefusedSilently(cache, api, allowDeletes) == FALSE

\* MassDeleteRefused is raised: the first guard empties to_delete, so a
\* degraded run never reaches the breaker.
Refused(cache, api, allowDeletes) == allowDeletes /\ MassDelete(cache, api)

\* Mutant: MassDeleteRefused is raised before the updates are planned.
ToUpdateUnlessRefused(cache, api) ==
    IF MassDelete(cache, api) THEN {}
    ELSE {i \in Present(api) \cap Present(cache) : Differs(cache[i], api[i])}

ToUpdate(cache, api) ==
    {i \in Present(api) \cap Present(cache) : Differs(cache[i], api[i])}

-----------------------------------------------------------------------------
(* _sync_devices: the transaction.  It deletes, loads each row it updates  *)
(* and, when it commits, writes.  Other transactions may commit between    *)
(* these statements, and each statement sees what they have committed.     *)

\* A planned insert whose key another run has inserted since the snapshot.
KeyConflict(t, cache, api) == ToInsert(cache, api) \cap Present(t) # {}

\* An UPDATE whose row another run has deleted since it was loaded matches no
\* row (StaleDataError).  Where nothing differs, none is sent.
RowGone(t, loaded, api) ==
    \E i \in Present(loaded) : t[i] = NoRow /\ loaded[i] # api[i]

\* Mutant: the other columns are overwritten with NULL.
UpdatedRowOnly(row, loaded, new) ==
    [c \in Columns |-> IF new[c] = loaded[c] THEN Unset ELSE new[c]]

\* Mutant: only the compared columns are copied onto the row.
UpdatedRowInPart(row, loaded, new) ==
    [c \in Columns |-> IF c \in Compared THEN new[c] ELSE row[c]]

\* Mutant: the columns are never copied.
UpdatedRowNever(row, loaded, new) == row

\* The unit of work sends the columns in which the fresh row differs from the
\* row that was loaded; the others stay what they are by now.
UpdatedRow(row, loaded, new) ==
    [c \in Columns |-> IF new[c] = loaded[c] THEN row[c] ELSE new[c]]

\* The table after the commit: inserted, the keys to insert; doomed, those whose
\* rows the DELETE has met; loaded, the rows session.get has found.
Commit(t, inserted, doomed, loaded, api) ==
    [i \in Ids |->
        IF i \in inserted THEN api[i]
        ELSE IF i \in doomed THEN NoRow
        ELSE IF t[i] # NoRow /\ loaded[i] # NoRow THEN UpdatedRow(t[i], loaded[i], api[i])
        ELSE t[i]]

\* Mutant: the rows found different are never written.
CommitAloneWithoutUpdates(t, api, allowDeletes) ==
    [i \in Ids |->
        IF i \in ToInsert(t, api) THEN api[i]
        ELSE IF i \in Deletes(t, api, allowDeletes) THEN NoRow
        ELSE t[i]]

\* The same for a run that nobody disturbs from its snapshot to its commit
\* (CommitAloneIsCommit in ReconcileProofs).
CommitAlone(t, api, allowDeletes) ==
    [i \in Ids |->
        IF i \in ToInsert(t, api) \cup ToUpdate(t, api) THEN api[i]
        ELSE IF i \in Deletes(t, api, allowDeletes) THEN NoRow
        ELSE t[i]]
=============================================================================
