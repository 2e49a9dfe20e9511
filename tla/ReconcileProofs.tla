--------------------------- MODULE ReconcileProofs ---------------------------
(* Facts about the reconciliation operators, for every finite set of keys. *)
EXTENDS Reconcile, FiniteSetTheorems, TLAPS

(* A plan deletes only keys the snapshot holds and the view lacks, and     *)
(* inserts only keys the view holds (the id-set differences in             *)
(* _sync_entities).                                                        *)
LEMMA PlanKeys ==
    ASSUME NEW cache, NEW api, NEW allow
    PROVE  /\ Deletes(cache, api, allow) \subseteq Present(cache) \ Present(api)
           /\ ToInsert(cache, api) = Present(api) \ Present(cache)
           /\ ToUpdate(cache, api) \subseteq Present(api) \cap Present(cache)
    BY DEF Deletes, ToDelete, ToInsert, ToUpdate

LEMMA PresentFinite ==
    ASSUME NEW t
    PROVE  /\ IsFiniteSet(Present(t))
           /\ Cardinality(Present(t)) \in Nat
    <1>1. Present(t) \subseteq Ids
      BY DEF Present
    <1>2. IsFiniteSet(Present(t))
      BY <1>1, IdsAssumption, FS_Subset
    <1> QED
      BY <1>2, FS_CardinalityType

(* The two guards together: a plan never deletes more than half of the     *)
(* rows that were read (the strict > of the circuit breaker).              *)
LEMMA DeletesBounded ==
    ASSUME NEW cache, NEW api, NEW allow
    PROVE  /\ IsFiniteSet(Deletes(cache, api, allow))
           /\ Cardinality(Deletes(cache, api, allow)) \in Nat
           /\ 2 * Cardinality(Deletes(cache, api, allow))
                 <= Cardinality(Present(cache))
    <1>1. /\ IsFiniteSet(Present(cache))
          /\ Cardinality(Present(cache)) \in Nat
      BY PresentFinite
    <1>2. IsFiniteSet({}) /\ Cardinality({}) = 0
      BY FS_EmptySet
    <1>3. /\ IsFiniteSet(ToDelete(cache, api))
          /\ Cardinality(ToDelete(cache, api)) \in Nat
      BY <1>1, FS_Subset, FS_CardinalityType DEF ToDelete
    <1>4. CASE ~allow \/ MassDelete(cache, api)
      BY <1>1, <1>2, <1>4 DEF Deletes
    <1>5. CASE ~(~allow \/ MassDelete(cache, api))
      BY <1>1, <1>3, <1>5 DEF Deletes, MassDelete
    <1> QED
      BY <1>4, <1>5

(* A commit produces a table, of rows that need not be any upstream has    *)
(* served, and takes away no key but the planned ones, even when the table *)
(* has changed since the snapshot (_sync_devices).                         *)
LEMMA RowColumns ==
    ASSUME NEW row \in Rows
    PROVE  row \in [Columns -> Values]
    <1>1. row = [c \in Columns |-> row[c]]
      BY ColumnsAssumption
    <1>2. \A c \in Columns : row[c] \in Values
      BY DEF Values
    <1> QED
      BY <1>1, <1>2

LEMMA RowsAreNotAbsent == NoRow \notin Rows
    BY RowColumns, NoRowAssumption

LEMMA TablesAreMixedTables == Tables \subseteq MixedTables
    BY RowColumns DEF Tables, MixedTables

LEMMA UpdatedRowType ==
    ASSUME NEW row \in [Columns -> Values], NEW loaded, NEW new \in [Columns -> Values]
    PROVE  UpdatedRow(row, loaded, new) \in [Columns -> Values]
    BY DEF UpdatedRow

LEMMA CommitType ==
    ASSUME NEW t \in MixedTables, NEW inserted, NEW doomed, NEW loaded,
           NEW api \in MixedTables,
           \A i \in Ids : loaded[i] # NoRow => api[i] # NoRow
    PROVE  Commit(t, inserted, doomed, loaded, api) \in MixedTables
    <1> DEFINE t2 == Commit(t, inserted, doomed, loaded, api)
    <1>1. ASSUME NEW i \in Ids
          PROVE  t2[i] \in [Columns -> Values] \cup {NoRow}
      <2>1. t[i] \in [Columns -> Values] \cup {NoRow}
        BY DEF MixedTables
      <2>2. api[i] \in [Columns -> Values] \cup {NoRow}
        BY DEF MixedTables
      <2>3. CASE t[i] # NoRow /\ loaded[i] # NoRow
        <3>1. UpdatedRow(t[i], loaded[i], api[i]) \in [Columns -> Values]
          BY <2>1, <2>2, <2>3, UpdatedRowType
        <3> QED
          BY <2>1, <2>2, <3>1 DEF Commit
      <2>4. CASE ~(t[i] # NoRow /\ loaded[i] # NoRow)
        BY <2>1, <2>2, <2>4 DEF Commit
      <2> QED
        BY <2>3, <2>4
    <1>2. t2 = [i \in Ids |-> t2[i]]
      BY DEF Commit
    <1> HIDE DEF t2
    <1>3. t2 \in MixedTables
      BY <1>1, <1>2 DEF MixedTables
    <1> QED
      BY <1>3 DEF t2

LEMMA CommitLoses ==
    ASSUME NEW t \in MixedTables, NEW inserted, NEW doomed, NEW loaded,
           NEW api \in MixedTables,
           inserted \subseteq Present(api),
           \A i \in Ids : loaded[i] # NoRow => api[i] # NoRow
    PROVE  Present(t) \ Present(Commit(t, inserted, doomed, loaded, api)) \subseteq doomed
    <1> SUFFICES ASSUME NEW i \in Present(t), i \notin doomed
                 PROVE  i \in Present(Commit(t, inserted, doomed, loaded, api))
      OBVIOUS
    <1>1. i \in Ids /\ t[i] # NoRow
      BY DEF Present
    <1>2. i \in inserted => api[i] # NoRow
      BY DEF Present
    <1>3. loaded[i] # NoRow => UpdatedRow(t[i], loaded[i], api[i]) # NoRow
      <2> SUFFICES ASSUME loaded[i] # NoRow
                   PROVE  UpdatedRow(t[i], loaded[i], api[i]) # NoRow
        OBVIOUS
      <2>1. t[i] \in [Columns -> Values] /\ api[i] \in [Columns -> Values]
        BY <1>1 DEF MixedTables
      <2> QED
        BY <2>1, UpdatedRowType, NoRowAssumption
    <1>4. Commit(t, inserted, doomed, loaded, api)[i] # NoRow
      BY <1>1, <1>2, <1>3 DEF Commit
    <1> QED
      BY <1>1, <1>4 DEF Present

(* Each column of a committed row is the one the table had or the fresh    *)
(* one (the unit of work writes column by column).                         *)
LEMMA CommitColumns ==
    ASSUME NEW t, NEW inserted, NEW doomed, NEW loaded, NEW api, NEW i \in Ids,
           NEW t2, t2 = Commit(t, inserted, doomed, loaded, api),
           t2[i] # NoRow, i \in inserted => api[i] # NoRow,
           loaded[i] # NoRow => api[i] # NoRow
    PROVE  \/ api[i] # NoRow /\ t2[i] = api[i]
           \/ t[i] # NoRow /\ t2[i] = t[i]
           \/ /\ t[i] # NoRow /\ api[i] # NoRow
              /\ \A c \in Columns : t2[i][c] \in {t[i][c], api[i][c]}
    <1>1. CASE i \in inserted \/ i \in doomed \/ ~(t[i] # NoRow /\ loaded[i] # NoRow)
      BY <1>1 DEF Commit
    <1>2. CASE /\ i \notin inserted /\ i \notin doomed
               /\ t[i] # NoRow /\ loaded[i] # NoRow
      <2>1. t2[i] = UpdatedRow(t[i], loaded[i], api[i])
        BY <1>2 DEF Commit
      <2> QED
        BY <1>2, <2>1 DEF UpdatedRow
    <1> QED
      BY <1>1, <1>2

(* A row that is still the one session.get has found comes out fresh in    *)
(* every column.                                                           *)
LEMMA UpdatedRowIsFresh ==
    ASSUME NEW row \in [Columns -> Values], NEW new \in [Columns -> Values]
    PROVE  UpdatedRow(row, row, new) = new
    BY DEF UpdatedRow

-----------------------------------------------------------------------------
(* A run that nobody disturbs.                                             *)

\* What the run has loaded when it flushes.
LoadedAlone(t, api) == [i \in Ids |-> IF i \in ToUpdate(t, api) THEN t[i] ELSE NoRow]

(* When nothing happens to the table between a run's snapshot and its      *)
(* commit, the statements of _sync_devices amount to writing each planned  *)
(* row whole: LandbRun and InventoryJobs use this form.                    *)
THEOREM CommitAloneIsCommit ==
    ASSUME NEW t \in MixedTables, NEW api \in Tables, NEW allow
    PROVE  Commit(t, ToInsert(t, api), Deletes(t, api, allow), LoadedAlone(t, api), api)
              = CommitAlone(t, api, allow)
    <1> DEFINE one == Commit(t, ToInsert(t, api), Deletes(t, api, allow),
                             LoadedAlone(t, api), api)
               two == CommitAlone(t, api, allow)
    <1>1. ASSUME NEW i \in Ids
          PROVE  one[i] = two[i]
      <2>1. CASE i \in ToUpdate(t, api)
        <3>1. t[i] # NoRow /\ api[i] # NoRow
          BY <2>1 DEF ToUpdate, Present
        <3>2. t[i] \in [Columns -> Values]
          BY <3>1 DEF MixedTables
        <3>3. api[i] \in [Columns -> Values]
          BY <3>1, RowColumns DEF Tables
        <3>4. UpdatedRow(t[i], t[i], api[i]) = api[i]
          BY <3>2, <3>3, UpdatedRowIsFresh
        <3>5. i \notin ToInsert(t, api) /\ i \notin Deletes(t, api, allow)
          BY <3>1, PlanKeys DEF Present
        <3>6. LoadedAlone(t, api)[i] = t[i]
          BY <2>1 DEF LoadedAlone
        <3>7. one[i] = UpdatedRow(t[i], t[i], api[i])
          BY <3>1, <3>5, <3>6 DEF Commit
        <3> QED
          BY <2>1, <3>4, <3>7 DEF CommitAlone
      <2>2. CASE i \notin ToUpdate(t, api)
        <3>1. LoadedAlone(t, api)[i] = NoRow
          BY <2>2 DEF LoadedAlone
        <3> QED
          BY <2>2, <3>1 DEF Commit, CommitAlone
      <2> QED
        BY <2>1, <2>2
    <1>2. one = [i \in Ids |-> one[i]] /\ two = [i \in Ids |-> two[i]]
      BY DEF Commit, CommitAlone
    <1> HIDE DEF one, two
    <1>3. one = two
      BY <1>1, <1>2
    <1> QED
      BY <1>3 DEF one, two

LEMMA CommitAloneType ==
    ASSUME NEW t \in Tables, NEW api \in Tables, NEW allow
    PROVE  CommitAlone(t, api, allow) \in Tables
    BY DEF CommitAlone, Tables

(* Committed on the very snapshot it was planned from, a plan refreshes    *)
(* every key of the view, whether or not its deletes are dropped ...       *)
LEMMA CommitRefreshes ==
    ASSUME NEW t, NEW api, NEW allow, NEW i \in Present(api)
    PROVE  SameRow(CommitAlone(t, api, allow)[i], api[i])
    <1>1. i \in Ids /\ api[i] # NoRow
      BY DEF Present
    <1>2. i \notin Deletes(t, api, allow)
      BY PlanKeys, <1>1 DEF Present
    <1>3. ~Differs(api[i], api[i])
      BY DEF Differs
    <1>4. CASE t[i] = NoRow
      BY <1>1, <1>3, <1>4 DEF CommitAlone, ToInsert, Present, SameRow
    <1>5. CASE t[i] # NoRow /\ Differs(t[i], api[i])
      BY <1>1, <1>3, <1>5 DEF CommitAlone, ToUpdate, ToInsert, Present, SameRow
    <1>6. CASE t[i] # NoRow /\ ~Differs(t[i], api[i])
      BY <1>1, <1>2, <1>6 DEF CommitAlone, ToUpdate, ToInsert, Present, SameRow
    <1> QED
      BY <1>4, <1>5, <1>6

(* ... and if they all survive it makes the table agree with the view      *)
(* (_sync_entities and _sync_devices together).                            *)
THEOREM CommitMirrors ==
    ASSUME NEW t, NEW api, ~MassDelete(t, api)
    PROVE  Agree(CommitAlone(t, api, TRUE), api)
    <1> SUFFICES ASSUME NEW i \in Ids
                 PROVE  SameRow(CommitAlone(t, api, TRUE)[i], api[i])
      BY DEF Agree
    <1>1. CASE api[i] # NoRow
      BY <1>1, CommitRefreshes DEF Present
    <1>2. CASE api[i] = NoRow
      <2>1. i \notin ToInsert(t, api) /\ i \notin ToUpdate(t, api)
        BY <1>2 DEF ToInsert, ToUpdate, Present
      <2>2. t[i] # NoRow => i \in Deletes(t, api, TRUE)
        BY <1>2 DEF Deletes, ToDelete, Present
      <2> QED
        BY <1>2, <2>1, <2>2 DEF CommitAlone, SameRow
    <1> QED
      BY <1>1, <1>2
=============================================================================
