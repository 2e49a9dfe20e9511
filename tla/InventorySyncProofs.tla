------------------------- MODULE InventorySyncProofs -------------------------
(***************************************************************************)
(* InventorySync proved for every finite set of keys, every set of rows    *)
(* and columns, any number of overlapping runs and any bounds.  The        *)
(* inductive invariant adds to the type that an open transaction deletes   *)
(* and updates only what its run planned, that every view was served by    *)
(* upstream and every table row in each of its columns, and that no table  *)
(* or snapshot ever held more rows than the peak.                          *)
(***************************************************************************)
EXTENDS InventorySync, ReconcileProofs

-----------------------------------------------------------------------------
(* Types and plans.                                                        *)

\* What the transaction of a run may touch: before it begins, nothing.
KeepsToPlan(s) ==
    /\ s.pc # "open" => s.doomed = {} /\ s.todo = {} /\ s.loaded = EmptyTable
    /\ s.doomed \subseteq Deletes(s.snap, s.view, s.allow)
    /\ s.todo \subseteq ToUpdate(s.snap, s.view)
    /\ \A i \in Ids : s.loaded[i] # NoRow => i \in ToUpdate(s.snap, s.view)

PlanInv == \A r \in Runs : KeepsToPlan(run[r])

WellFormed == TypeOK /\ PlanInv

LEMMA EmptyTableType == EmptyTable \in Tables /\ EmptyTable \in MixedTables
    BY DEF EmptyTable, Tables, MixedTables

LEMMA IdleRunFacts ==
    ASSUME NEW outcome \in Outcomes
    PROVE  /\ IdleRun(outcome) \in RunStates
           /\ KeepsToPlan(IdleRun(outcome))
    <1>1. IdleRun(outcome) \in RunStates
      BY EmptyTableType DEF IdleRun, RunStates
    <1>2. KeepsToPlan(IdleRun(outcome))
      BY DEF IdleRun, KeepsToPlan, EmptyTable
    <1> QED
      BY <1>1, <1>2

LEMMA PartialType ==
    ASSUME upstream \in Tables, NEW part
    PROVE  Partial(part) \in Tables
    BY DEF Partial, Tables

\* A fetch of a well-formed view keeps the type, and changes only one run.
LEMMA FetchedType ==
    ASSUME TypeOK, NEW r \in Runs, NEW view \in Tables, NEW allow \in BOOLEAN,
           NEW twice \in BOOLEAN, Fetched(r, view, allow, twice)
    PROVE  /\ run' = [run EXCEPT ![r] = run'[r]]
           /\ run'[r] \in RunStates /\ KeepsToPlan(run'[r])
           /\ run'[r].view = view /\ run'[r].snap = EmptyTable /\ run'[r].pc = "fetched"
           /\ run[r].pc = "idle"
           /\ UNCHANGED <<upstream, table, served, peak>>
    <1> DEFINE new == [IdleRun("none") EXCEPT !.pc = "fetched", !.view = view,
                                              !.allow = allow, !.twice = twice]
    <1>1. new \in RunStates
      BY EmptyTableType DEF IdleRun, RunStates, Outcomes
    <1>2. run' = [run EXCEPT ![r] = new]
      BY DEF Fetched
    <1>3. run \in [Runs -> RunStates]
      BY DEF TypeOK
    <1>4. run'[r] = new
      BY <1>2, <1>3
    <1>5. /\ new.view = view /\ new.snap = EmptyTable /\ new.pc = "fetched"
          /\ new.doomed = {} /\ new.todo = {} /\ new.loaded = EmptyTable
      BY DEF IdleRun
    <1> HIDE DEF new
    <1>6. run' = [run EXCEPT ![r] = run'[r]]
      BY <1>2, <1>4
    <1>7. KeepsToPlan(new)
      BY <1>5 DEF KeepsToPlan, EmptyTable
    <1> QED
      BY <1>1, <1>4, <1>5, <1>6, <1>7 DEF Fetched

LEMMA EventType ==
    ASSUME TypeOK, Event
    PROVE  events' \in 0..MaxEvents
    BY BoundsAssumption DEF TypeOK, Event

\* Every way a run can fetch: which run, and what the view can be.
Fetches(r, view) ==
    \E allow, twice \in BOOLEAN : Fetched(r, view, allow, twice)

FetchesSome(r) ==
    \/ FetchComplete(r)
    \/ FetchDegraded(r)
    \/ FetchTruncated(r)
    \/ FetchTwice(r)

LEMMA FetchActions ==
    ASSUME TypeOK, NEW r \in Runs, FetchesSome(r)
    PROVE  /\ events' \in 0..MaxEvents
           /\ \E view \in Tables :
                /\ \A i \in Ids : view[i] \in {upstream[i], NoRow}
                /\ Fetches(r, view)
    <1>0. upstream \in Tables /\ events \in 0..MaxEvents
      BY DEF TypeOK
    <1>1. CASE FetchComplete(r)
      BY <1>0, <1>1 DEF FetchComplete, Fetches
    <1>2. CASE FetchDegraded(r)
      <2>1. PICK part \in SUBSET Present(upstream) :
               Fetched(r, Partial(part), FALSE, FALSE)
        BY <1>2 DEF FetchDegraded
      <2>2. \A i \in Ids : Partial(part)[i] \in {upstream[i], NoRow}
        BY DEF Partial
      <2>3. Partial(part) \in Tables
        BY <1>0, PartialType
      <2> QED
        BY <1>2, <2>1, <2>2, <2>3, EventType DEF FetchDegraded, Fetches
    <1>3. CASE FetchTruncated(r)
      <2>1. PICK part \in SUBSET Present(upstream) :
               Fetched(r, Partial(part), TRUE, FALSE)
        BY <1>3 DEF FetchTruncated
      <2>2. \A i \in Ids : Partial(part)[i] \in {upstream[i], NoRow}
        BY DEF Partial
      <2>3. Partial(part) \in Tables
        BY <1>0, PartialType
      <2> QED
        BY <1>3, <2>1, <2>2, <2>3, EventType DEF FetchTruncated, Fetches
    <1>4. CASE FetchTwice(r)
      BY <1>0, <1>4, EventType DEF FetchTwice, Fetches
    <1> QED
      BY <1>1, <1>2, <1>3, <1>4 DEF FetchesSome

\* The run that fetched, and what it got.
LEMMA FetchEffect ==
    ASSUME TypeOK, NEW r \in Runs, FetchesSome(r)
    PROVE  /\ run' = [run EXCEPT ![r] = run'[r]]
           /\ run'[r] \in RunStates /\ KeepsToPlan(run'[r])
           /\ \A i \in Ids : run'[r].view[i] \in {upstream[i], NoRow}
           /\ run'[r].snap = EmptyTable /\ run'[r].pc = "fetched"
           /\ run[r].pc = "idle"
           /\ events' \in 0..MaxEvents
           /\ UNCHANGED <<upstream, table, served, peak>>
    <1>1. PICK view \in Tables :
             /\ \A i \in Ids : view[i] \in {upstream[i], NoRow}
             /\ Fetches(r, view)
      BY FetchActions
    <1>2. PICK allow \in BOOLEAN, twice \in BOOLEAN : Fetched(r, view, allow, twice)
      BY <1>1 DEF Fetches
    <1>3. events' \in 0..MaxEvents
      BY FetchActions
    <1> QED
      BY <1>1, <1>2, <1>3, FetchedType

\* The steps of a run in progress that only read.
Reads(r) == ReadCache(r) \/ Open(r) \/ LoadRow(r)

LEMMA ReadEffect ==
    ASSUME WellFormed, NEW r \in Runs, Reads(r)
    PROVE  /\ run' = [run EXCEPT ![r] = run'[r]]
           /\ run'[r] \in RunStates /\ KeepsToPlan(run'[r])
           /\ run'[r].view = run[r].view /\ run'[r].allow = run[r].allow
           /\ run'[r].snap \in {run[r].snap, table}
           /\ run[r].pc # "idle" /\ run'[r].pc # "idle"
           /\ UNCHANGED <<upstream, table, served, peak, events>>
    <1>0. /\ run \in [Runs -> RunStates] /\ run[r] \in RunStates
          /\ table \in MixedTables /\ KeepsToPlan(run[r])
      BY DEF WellFormed, TypeOK, PlanInv
    <1>1. CASE ReadCache(r)
      <2> DEFINE new == [run[r] EXCEPT !.pc = "read", !.snap = table]
      <2>1. run' = [run EXCEPT ![r] = new] /\ run'[r] = new
        BY <1>0, <1>1 DEF ReadCache
      <2>2. new \in RunStates
        BY <1>0 DEF RunStates
      <2>3. /\ new.pc = "read" /\ new.snap = table
            /\ new.view = run[r].view /\ new.allow = run[r].allow
            /\ new.doomed = run[r].doomed /\ new.todo = run[r].todo
            /\ new.loaded = run[r].loaded
        BY <1>0 DEF RunStates
      <2> HIDE DEF new
      <2>4. /\ run[r].pc = "fetched" /\ run[r].doomed = {} /\ run[r].todo = {}
            /\ run[r].loaded = EmptyTable
        BY <1>0, <1>1 DEF ReadCache, KeepsToPlan
      <2>5. KeepsToPlan(new)
        BY <2>3, <2>4 DEF KeepsToPlan, EmptyTable
      <2> QED
        BY <1>1, <2>1, <2>2, <2>3, <2>4, <2>5 DEF ReadCache
    <1>2. CASE Open(r)
      <2> DEFINE gone == Deletes(run[r].snap, run[r].view, run[r].allow)
                            \cap Present(table)
                 upd == ToUpdate(run[r].snap, run[r].view)
                 new == [run[r] EXCEPT !.pc = "open", !.doomed = gone, !.todo = upd]
      <2>1. run' = [run EXCEPT ![r] = new] /\ run'[r] = new
        BY <1>0, <1>2 DEF Open
      <2>2. gone \subseteq Ids /\ upd \subseteq Ids
        BY DEF Present, ToUpdate
      <2>3. gone \subseteq Deletes(run[r].snap, run[r].view, run[r].allow)
        OBVIOUS
      <2>4. upd = ToUpdate(run[r].snap, run[r].view)
        OBVIOUS
      <2> HIDE DEF gone, upd
      <2>5. new \in RunStates
        BY <1>0, <2>2 DEF RunStates
      <2>6. /\ new.pc = "open" /\ new.snap = run[r].snap
            /\ new.view = run[r].view /\ new.allow = run[r].allow
            /\ new.doomed = gone /\ new.todo = upd
            /\ new.loaded = run[r].loaded
        BY <1>0 DEF RunStates
      <2> HIDE DEF new
      <2>7. KeepsToPlan(new)
        BY <1>0, <2>3, <2>4, <2>6 DEF KeepsToPlan
      <2> QED
        BY <1>2, <2>1, <2>5, <2>6, <2>7 DEF Open
    <1>3. CASE LoadRow(r)
      <2>1. PICK i \in run[r].todo :
               run' = [run EXCEPT ![r].todo = @ \ {i}, ![r].loaded[i] = table[i]]
        BY <1>3 DEF LoadRow
      <2> DEFINE new == [run[r] EXCEPT !.todo = run[r].todo \ {i},
                                       !.loaded = [run[r].loaded EXCEPT ![i] = table[i]]]
      <2>2. run' = [run EXCEPT ![r] = new] /\ run'[r] = new
        BY <1>0, <2>1
      <2>3. i \in Ids /\ i \in ToUpdate(run[r].snap, run[r].view)
        BY <1>0 DEF RunStates, KeepsToPlan
      <2>4. [run[r].loaded EXCEPT ![i] = table[i]] \in MixedTables
        BY <1>0, <2>3 DEF RunStates, MixedTables
      <2>5. new \in RunStates
        BY <1>0, <2>4 DEF RunStates
      <2>6. /\ new.pc = run[r].pc /\ new.snap = run[r].snap
            /\ new.view = run[r].view /\ new.allow = run[r].allow
            /\ new.doomed = run[r].doomed /\ new.todo = run[r].todo \ {i}
            /\ new.loaded = [run[r].loaded EXCEPT ![i] = table[i]]
        BY <1>0 DEF RunStates
      <2> HIDE DEF new
      <2>7. run[r].pc = "open"
        BY <1>3 DEF LoadRow
      <2>8. \A j \in Ids : new.loaded[j] # NoRow => j \in ToUpdate(run[r].snap, run[r].view)
        BY <1>0, <2>3, <2>6 DEF RunStates, MixedTables, KeepsToPlan
      <2>9. KeepsToPlan(new)
        BY <1>0, <2>6, <2>7, <2>8 DEF KeepsToPlan
      <2> QED
        BY <1>3, <2>2, <2>5, <2>6, <2>7, <2>9 DEF LoadRow
    <1> QED
      BY <1>1, <1>2, <1>3 DEF Reads

\* Every way a run can end without having written.
GivesUp(r) == FetchFails(r) \/ DatabaseFails(r) \/ Crash(r)

LEMMA GivesUpEffect ==
    ASSUME TypeOK, NEW r \in Runs, GivesUp(r)
    PROVE  /\ events' \in 0..MaxEvents
           /\ \E outcome \in Outcomes : run' = [run EXCEPT ![r] = IdleRun(outcome)]
           /\ UNCHANGED <<upstream, table, served, peak>>
    <1>1. "failed" \in Outcomes /\ "none" \in Outcomes
      BY DEF Outcomes
    <1>2. events' \in 0..MaxEvents
      BY EventType DEF GivesUp, FetchFails, DatabaseFails, Crash
    <1> QED
      BY <1>1, <1>2 DEF GivesUp, FetchFails, DatabaseFails, Crash

\* What the commit of run r writes.
Committed(r) ==
    Commit(table, ToInsert(run[r].snap, run[r].view), run[r].doomed,
           run[r].loaded, run[r].view)

LEMMA CommittedType ==
    ASSUME WellFormed, NEW r \in Runs
    PROVE  /\ run[r].view \in Tables /\ run[r].view \in MixedTables
           /\ ToInsert(run[r].snap, run[r].view) \subseteq Present(run[r].view)
           /\ \A i \in Ids : run[r].loaded[i] # NoRow => run[r].view[i] # NoRow
           /\ Committed(r) \in MixedTables
    <1>1. run[r] \in RunStates /\ KeepsToPlan(run[r]) /\ table \in MixedTables
      BY DEF WellFormed, TypeOK, PlanInv
    <1>2. run[r].view \in Tables /\ run[r].view \in MixedTables
      BY <1>1, TablesAreMixedTables DEF RunStates
    <1>3. \A i \in Ids : run[r].loaded[i] # NoRow => run[r].view[i] # NoRow
      BY <1>1 DEF KeepsToPlan, ToUpdate, Present
    <1>4. Committed(r) \in MixedTables
      BY <1>1, <1>2, <1>3, CommitType DEF Committed
    <1>5. ToInsert(run[r].snap, run[r].view) \subseteq Present(run[r].view)
      BY DEF ToInsert
    <1> QED
      BY <1>2, <1>3, <1>4, <1>5

\* What Apply writes, and how the run ends.
LEMMA ApplyEffect ==
    ASSUME WellFormed, NEW r \in Runs, Apply(r)
    PROVE  /\ \/ UNCHANGED <<table, peak>>
              \/ /\ table' = Committed(r)
                 /\ peak' = IF Cardinality(Present(table')) > peak
                            THEN Cardinality(Present(table')) ELSE peak
           /\ table' \in MixedTables /\ peak' \in Nat
           /\ \E outcome \in Outcomes : run' = [run EXCEPT ![r] = IdleRun(outcome)]
           /\ run[r].pc = "open"
           /\ UNCHANGED <<upstream, served, events>>
    <1>1. run[r] \in RunStates /\ table \in MixedTables /\ peak \in Nat
      BY DEF WellFormed, TypeOK
    <1>2. Committed(r) \in MixedTables
      BY CommittedType
    <1>3. Cardinality(Present(table')) \in Nat
      BY PresentFinite
    <1>4. {"ok", "refused", "failed"} \subseteq Outcomes
      BY DEF Outcomes
    <1>5. CASE FlushFails(r)
      BY <1>1, <1>4, <1>5 DEF Apply
    <1>6. CASE ~FlushFails(r)
      BY <1>1, <1>2, <1>3, <1>4, <1>6 DEF Apply, Committed
    <1> QED
      BY <1>5, <1>6

\* A run takes a new state that is well formed, the others keep theirs.
LEMMA OneRunWellFormed ==
    ASSUME WellFormed, NEW r \in Runs, NEW new, run' = [run EXCEPT ![r] = new],
           new \in RunStates, KeepsToPlan(new)
    PROVE  run' \in [Runs -> RunStates] /\ PlanInv'
    <1>1. run \in [Runs -> RunStates]
      BY DEF WellFormed, TypeOK
    <1>2. \A q \in Runs : run'[q] = IF q = r THEN new ELSE run[q]
      BY <1>1
    <1>3. \A q \in Runs : KeepsToPlan(run'[q])
      BY <1>2 DEF WellFormed, PlanInv
    <1>4. run' \in [Runs -> RunStates]
      BY <1>1
    <1>5. PlanInv'
      BY <1>3 DEF PlanInv, KeepsToPlan
    <1> QED
      BY <1>4, <1>5

LEMMA WellFormedStep == WellFormed /\ [Next]_vars => WellFormed'
    <1> SUFFICES ASSUME WellFormed, [Next]_vars PROVE WellFormed'
      OBVIOUS
    <1>0. TypeOK /\ PlanInv
      BY DEF WellFormed
    <1>1. ASSUME NEW i \in Ids, NEW row \in Rows \cup {NoRow}, UpstreamChange(i, row)
          PROVE  WellFormed'
      <2>1. upstream' \in Tables /\ served' \in [Ids -> SUBSET Rows]
        BY <1>0, <1>1 DEF TypeOK, UpstreamChange, Tables
      <2>2. events' \in 0..MaxEvents
        BY <1>0, <1>1, EventType DEF UpstreamChange
      <2>3. UNCHANGED <<table, run, peak>>
        BY <1>1 DEF UpstreamChange
      <2>4. TypeOK'
        BY <1>0, <2>1, <2>2, <2>3 DEF TypeOK
      <2>5. PlanInv'
        BY <1>0, <2>3 DEF PlanInv, KeepsToPlan
      <2> QED
        BY <2>4, <2>5 DEF WellFormed
    <1>2. ASSUME NEW r \in Runs, FetchesSome(r)
          PROVE  WellFormed'
      <2>1. run' \in [Runs -> RunStates] /\ PlanInv'
        BY <1>0, <1>2, FetchEffect, OneRunWellFormed
      <2>2. events' \in 0..MaxEvents /\ UNCHANGED <<upstream, table, served, peak>>
        BY <1>0, <1>2, FetchEffect
      <2> QED
        BY <1>0, <2>1, <2>2 DEF WellFormed, TypeOK
    <1>3. ASSUME NEW r \in Runs, Reads(r)
          PROVE  WellFormed'
      <2>1. run' \in [Runs -> RunStates] /\ PlanInv'
        BY <1>3, ReadEffect, OneRunWellFormed
      <2>2. UNCHANGED <<upstream, table, served, peak, events>>
        BY <1>3, ReadEffect
      <2> QED
        BY <1>0, <2>1, <2>2 DEF WellFormed, TypeOK
    <1>4. ASSUME NEW r \in Runs, Apply(r)
          PROVE  WellFormed'
      <2>1. PICK outcome \in Outcomes : run' = [run EXCEPT ![r] = IdleRun(outcome)]
        BY <1>4, ApplyEffect
      <2>2. run' \in [Runs -> RunStates] /\ PlanInv'
        BY <2>1, IdleRunFacts, OneRunWellFormed
      <2>3. /\ table' \in MixedTables /\ peak' \in Nat
            /\ UNCHANGED <<upstream, served, events>>
        BY <1>4, ApplyEffect
      <2> QED
        BY <1>0, <2>2, <2>3 DEF WellFormed, TypeOK
    <1>5. ASSUME NEW r \in Runs, GivesUp(r)
          PROVE  WellFormed'
      <2>1. PICK outcome \in Outcomes : run' = [run EXCEPT ![r] = IdleRun(outcome)]
        BY <1>0, <1>5, GivesUpEffect
      <2>2. run' \in [Runs -> RunStates] /\ PlanInv'
        BY <2>1, IdleRunFacts, OneRunWellFormed
      <2>3. events' \in 0..MaxEvents /\ UNCHANGED <<upstream, table, served, peak>>
        BY <1>0, <1>5, GivesUpEffect
      <2> QED
        BY <1>0, <2>2, <2>3 DEF WellFormed, TypeOK
    <1>6. CASE UNCHANGED vars
      <2>1. TypeOK'
        BY <1>0, <1>6 DEF TypeOK, vars
      <2>2. PlanInv'
        BY <1>0, <1>6 DEF PlanInv, KeepsToPlan, vars
      <2> QED
        BY <2>1, <2>2 DEF WellFormed
    <1> QED
      BY <1>1, <1>2, <1>3, <1>4, <1>5, <1>6
         DEF Next, RunStep, RunFault, GivesUp, Reads, FetchesSome

LEMMA WellFormedInit == Init => WellFormed
    <1> SUFFICES ASSUME Init PROVE WellFormed
      OBVIOUS
    <1>1. run \in [Runs -> RunStates] /\ \A r \in Runs : KeepsToPlan(run[r])
      BY IdleRunFacts DEF Init, Outcomes
    <1>2. upstream \in Tables /\ table \in MixedTables
      BY EmptyTableType, GridsAssumption DEF Init
    <1>3. served \in [Ids -> SUBSET Rows]
      BY <1>2 DEF Init, Tables
    <1> QED
      BY <1>1, <1>2, <1>3, BoundsAssumption DEF Init, TypeOK, PlanInv, WellFormed

LEMMA AlwaysWellFormed == Spec => []WellFormed
    BY WellFormedInit, WellFormedStep, PTL DEF Spec

(* Every reachable state is well typed, whatever overlaps and fails.       *)
THEOREM TypeCorrect == Spec => []TypeOK
    <1>1. WellFormed => TypeOK
      BY DEF WellFormed
    <1> QED
      BY <1>1, AlwaysWellFormed, PTL

-----------------------------------------------------------------------------
(* Genuine values.                                                         *)

\* No row of upstream or of a view that upstream did not serve for its key, and
\* none of the table in any column.  The views are what makes this inductive: a
\* stale one is written long after it was taken.
GenuineInv ==
    /\ \A i \in Ids : upstream[i] \in served[i] \cup {NoRow}
    /\ MixturesAreServed
    /\ \A r \in Runs, i \in Ids : run[r].view[i] \in served[i] \cup {NoRow}

\* A row written from a row of the table and a fresh one, column by column.
LEMMA PartsAreServed ==
    ASSUME NEW i \in Ids, NEW row, NEW old, NEW new \in served[i],
           ServedInParts(old, served[i]),
           \A c \in Columns : row[c] \in {old[c], new[c]}
    PROVE  ServedInParts(row, served[i])
    BY DEF ServedInParts

LEMMA WholeIsServed ==
    ASSUME NEW i \in Ids, NEW row \in served[i]
    PROVE  ServedInParts(row, served[i])
    BY DEF ServedInParts

LEMMA CommittedIsServed ==
    ASSUME WellFormed, GenuineInv, NEW r \in Runs, NEW i \in Ids,
           Committed(r)[i] # NoRow
    PROVE  ServedInParts(Committed(r)[i], served[i])
    <1> DEFINE view == run[r].view
               t2 == Committed(r)
    <1>1. /\ i \in ToInsert(run[r].snap, view) => view[i] # NoRow
          /\ run[r].loaded[i] # NoRow => view[i] # NoRow
      BY CommittedType DEF Present
    <1>2. /\ view[i] # NoRow => view[i] \in served[i]
          /\ table[i] # NoRow => ServedInParts(table[i], served[i])
      BY DEF GenuineInv, MixturesAreServed
    <1>3. \/ view[i] # NoRow /\ t2[i] = view[i]
          \/ table[i] # NoRow /\ t2[i] = table[i]
          \/ /\ table[i] # NoRow /\ view[i] # NoRow
             /\ \A c \in Columns : t2[i][c] \in {table[i][c], view[i][c]}
      BY <1>1, CommitColumns DEF Committed
    <1> HIDE DEF t2, view
    <1>4. CASE view[i] # NoRow /\ t2[i] = view[i]
      BY <1>2, <1>4, WholeIsServed DEF t2
    <1>5. CASE table[i] # NoRow /\ t2[i] = table[i]
      BY <1>2, <1>5 DEF t2
    <1>6. CASE /\ table[i] # NoRow /\ view[i] # NoRow
               /\ \A c \in Columns : t2[i][c] \in {table[i][c], view[i][c]}
      <2>1. ServedInParts(t2[i], served[i])
        BY <1>2, <1>6, PartsAreServed
      <2> QED
        BY <2>1 DEF t2
    <1> QED
      BY <1>3, <1>4, <1>5, <1>6

LEMMA GenuineStep == WellFormed /\ GenuineInv /\ [Next]_vars => GenuineInv'
    <1> SUFFICES ASSUME WellFormed, GenuineInv, [Next]_vars PROVE GenuineInv'
      OBVIOUS
    <1>0. /\ run \in [Runs -> RunStates] /\ TypeOK
          /\ upstream \in Tables /\ served \in [Ids -> SUBSET Rows]
      BY DEF WellFormed, TypeOK
    <1>a. \A outcome \in Outcomes, i \in Ids : IdleRun(outcome).view[i] = NoRow
      BY DEF IdleRun, EmptyTable
    <1>1. ASSUME NEW i \in Ids, NEW row \in Rows \cup {NoRow}, UpstreamChange(i, row)
          PROVE  GenuineInv'
      <2>1. \A j \in Ids : served[j] \subseteq served'[j]
        BY <1>0, <1>1 DEF UpstreamChange
      <2>2. \A j \in Ids : upstream'[j] \in served'[j] \cup {NoRow}
        BY <1>0, <1>1, <2>1 DEF UpstreamChange, GenuineInv, Tables
      <2>3. UNCHANGED <<table, run>>
        BY <1>1 DEF UpstreamChange
      <2>4. MixturesAreServed'
        BY <2>1, <2>3 DEF GenuineInv, MixturesAreServed, ServedInParts
      <2> QED
        BY <2>1, <2>2, <2>3, <2>4 DEF GenuineInv
    <1>2. ASSUME NEW r \in Runs, FetchesSome(r)
          PROVE  GenuineInv'
      <2>1. /\ run' = [run EXCEPT ![r] = run'[r]]
            /\ \A i \in Ids : run'[r].view[i] \in {upstream[i], NoRow}
            /\ UNCHANGED <<upstream, table, served>>
        BY <1>0, <1>2, FetchEffect
      <2>2. \A q \in Runs : q # r => run'[q] = run[q]
        BY <1>0, <2>1
      <2>3. \A q \in Runs, i \in Ids : run'[q].view[i] \in served[i] \cup {NoRow}
        BY <2>1, <2>2 DEF GenuineInv
      <2> QED
        BY <2>1, <2>3 DEF GenuineInv, MixturesAreServed
    <1>3. ASSUME NEW r \in Runs, Reads(r)
          PROVE  GenuineInv'
      <2>1. /\ run' = [run EXCEPT ![r] = run'[r]] /\ run'[r].view = run[r].view
            /\ UNCHANGED <<upstream, table, served>>
        BY <1>3, ReadEffect
      <2>2. \A q \in Runs : run'[q].view = run[q].view
        BY <1>0, <2>1
      <2> QED
        BY <2>1, <2>2 DEF GenuineInv, MixturesAreServed
    <1>4. ASSUME NEW r \in Runs, Apply(r)
          PROVE  GenuineInv'
      <2>1. PICK outcome \in Outcomes : run' = [run EXCEPT ![r] = IdleRun(outcome)]
        BY <1>4, ApplyEffect
      <2>2. \A q \in Runs, i \in Ids : run'[q].view[i] \in served[i] \cup {NoRow}
        BY <1>0, <1>a, <2>1 DEF GenuineInv
      <2>3. table' = table \/ table' = Committed(r)
        BY <1>4, ApplyEffect
      <2>4. UNCHANGED <<upstream, served>>
        BY <1>4, ApplyEffect
      <2>5. \A i \in Ids : table'[i] # NoRow => ServedInParts(table'[i], served[i])
        BY <2>3, CommittedIsServed DEF GenuineInv, MixturesAreServed
      <2>6. MixturesAreServed'
        BY <2>4, <2>5 DEF MixturesAreServed
      <2> QED
        BY <2>2, <2>4, <2>6 DEF GenuineInv
    <1>5. ASSUME NEW r \in Runs, GivesUp(r)
          PROVE  GenuineInv'
      <2>1. PICK outcome \in Outcomes : run' = [run EXCEPT ![r] = IdleRun(outcome)]
        BY <1>0, <1>5, GivesUpEffect
      <2>2. \A q \in Runs, i \in Ids : run'[q].view[i] \in served[i] \cup {NoRow}
        BY <1>0, <1>a, <2>1 DEF GenuineInv
      <2>3. UNCHANGED <<upstream, table, served>>
        BY <1>0, <1>5, GivesUpEffect
      <2> QED
        BY <2>2, <2>3 DEF GenuineInv, MixturesAreServed
    <1>6. CASE UNCHANGED vars
      BY <1>6 DEF GenuineInv, MixturesAreServed, vars
    <1> QED
      BY <1>1, <1>2, <1>3, <1>4, <1>5, <1>6
         DEF Next, RunStep, RunFault, GivesUp, Reads, FetchesSome

LEMMA GenuineInit == Init => GenuineInv
    <1> SUFFICES ASSUME Init PROVE GenuineInv
      OBVIOUS
    <1>1. \A i \in Ids : upstream[i] \in served[i] \cup {NoRow}
      BY DEF Init
    <1>2. \A r \in Runs, i \in Ids : run[r].view[i] = NoRow
      BY DEF Init, IdleRun, EmptyTable
    <1>3. MixturesAreServed
      BY DEF Init, MixturesAreServed, EmptyTable
    <1> QED
      BY <1>1, <1>2, <1>3 DEF GenuineInv

LEMMA AlwaysGenuine == Spec => []GenuineInv
    BY AlwaysWellFormed, GenuineInit, GenuineStep, PTL DEF Spec

(* Whatever overlaps between the statements of several transactions leave  *)
(* in a row, each of its values is one upstream served for that key in     *)
(* that column (the unlocked session.get and the column-wise copy of       *)
(* _sync_devices).                                                         *)
THEOREM ValuesAreGenuine == Spec => []MixturesAreServed
    <1>1. GenuineInv => MixturesAreServed
      BY DEF GenuineInv
    <1> QED
      BY <1>1, AlwaysGenuine, PTL

-----------------------------------------------------------------------------
(* What the end of a run may do.                                           *)

\* A run whose transaction was open ends by Apply, or without writing.
LEMMA RunEnds ==
    ASSUME WellFormed, [Next]_vars, NEW r \in Runs, Ends(r)
    PROVE  \/ Apply(r)
           \/ table' = table /\ run'[r].outcome \in {"none", "failed"}
    <1>0. run \in [Runs -> RunStates] /\ TypeOK
      BY DEF WellFormed, TypeOK
    <1>e. run[r].pc = "open" /\ run'[r].pc = "idle"
      BY DEF Ends
    <1>1. ASSUME NEW i \in Ids, NEW row \in Rows \cup {NoRow}, UpstreamChange(i, row)
          PROVE  FALSE
      BY <1>e, <1>1 DEF UpstreamChange
    <1>2. ASSUME NEW q \in Runs, FetchesSome(q)
          PROVE  FALSE
      <2>1. /\ run[q].pc = "idle" /\ run' = [run EXCEPT ![q] = run'[q]]
        BY <1>0, <1>2, FetchEffect
      <2> QED
        BY <1>0, <1>e, <2>1
    <1>3. ASSUME NEW q \in Runs, Reads(q)
          PROVE  FALSE
      <2>1. run'[q].pc # "idle" /\ run' = [run EXCEPT ![q] = run'[q]]
        BY <1>3, ReadEffect
      <2> QED
        BY <1>0, <1>e, <2>1
    <1>4. ASSUME NEW q \in Runs, Apply(q)
          PROVE  q = r
      <2>1. PICK outcome \in Outcomes : run' = [run EXCEPT ![q] = IdleRun(outcome)]
        BY <1>4, ApplyEffect
      <2> QED
        BY <1>0, <1>e, <2>1
    <1>5. ASSUME NEW q \in Runs, GivesUp(q)
          PROVE  table' = table /\ run'[r].outcome \in {"none", "failed"}
      <2>1. table' = table
        BY <1>0, <1>5, GivesUpEffect
      <2>2. q = r
        BY <1>0, <1>e, <1>5, GivesUpEffect
      <2>3. run'[r] = IdleRun("failed") \/ run'[r] = IdleRun("none")
        BY <1>0, <1>5, <2>2 DEF GivesUp, FetchFails, DatabaseFails, Crash
      <2> QED
        BY <2>1, <2>3 DEF IdleRun
    <1>6. CASE UNCHANGED vars
      BY <1>e, <1>6 DEF vars
    <1> QED
      BY <1>1, <1>2, <1>3, <1>4, <1>5, <1>6
         DEF Next, RunStep, RunFault, GivesUp, Reads, FetchesSome

LEMMA ApplyLoses ==
    ASSUME WellFormed, NEW r \in Runs, Apply(r)
    PROVE  Present(table) \ Present(table')
              \subseteq Deletes(run[r].snap, run[r].view, run[r].allow)
    <1>1. table \in MixedTables /\ run[r].doomed
             \subseteq Deletes(run[r].snap, run[r].view, run[r].allow)
      BY DEF WellFormed, TypeOK, PlanInv, KeepsToPlan
    <1>2. Present(table) \ Present(Committed(r)) \subseteq run[r].doomed
      BY <1>1, CommittedType, CommitLoses DEF Committed
    <1>3. table' = table \/ table' = Committed(r)
      BY ApplyEffect
    <1> QED
      BY <1>1, <1>2, <1>3

\* Where the row is the one the run has loaded, it comes out fresh or as it was.
LEMMA ApplyMixes ==
    ASSUME WellFormed, NEW r \in Runs, Apply(r), NEW i \in Ids,
           run[r].loaded[i] = table[i]
    PROVE  table'[i] \in {table[i], NoRow, run[r].view[i]}
    <1>1. table' = table \/ table' = Committed(r)
      BY ApplyEffect
    <1>2. CASE table[i] # NoRow
      <2>1. table[i] \in [Columns -> Values]
        BY <1>2 DEF WellFormed, TypeOK, MixedTables
      <2>2. run[r].view[i] \in [Columns -> Values]
        BY <1>2, CommittedType DEF MixedTables
      <2>3. UpdatedRow(table[i], run[r].loaded[i], run[r].view[i]) = run[r].view[i]
        BY <2>1, <2>2, UpdatedRowIsFresh
      <2> QED
        BY <1>1, <2>3 DEF Committed, Commit
    <1>3. CASE table[i] = NoRow
      BY <1>1, <1>3 DEF Committed, Commit
    <1> QED
      BY <1>2, <1>3

(* A row is left half old and half fresh only by a run that had loaded it  *)
(* before another commit changed it: the mixtures are the work of overlaps *)
(* between session.get and the flush, never of one run.                    *)
THEOREM OverlapsMix == Spec => MixingTakesAnOverlap
    <1>1. ASSUME WellFormed, [Next]_vars, NEW r \in Runs, NEW i \in Ids,
                 Ends(r), table'[i] \notin {table[i], NoRow, run[r].view[i]}
          PROVE  run[r].loaded[i] # table[i]
      BY <1>1, RunEnds, ApplyMixes
    <1>2. WellFormed /\ [Next]_vars
             => [\A r \in Runs, i \in Ids :
                    Ends(r) /\ table'[i] \notin {table[i], NoRow, run[r].view[i]}
                       => run[r].loaded[i] # table[i]]_vars
      BY <1>1
    <1> QED
      BY <1>2, AlwaysWellFormed, PTL DEF Spec, MixingTakesAnOverlap

(* A run that knew its fetch was partial never removes a key, even when it *)
(* commits on top of another run's changes (allow_deletes).                *)
THEOREM DegradedRunsDeleteNothing == Spec => DegradedKeepsEveryKey
    <1>1. ASSUME WellFormed, [Next]_vars, NEW r \in Runs, Ends(r), ~run[r].allow
          PROVE  Present(table) \subseteq Present(table')
      <2>1. CASE Apply(r)
        <3>1. Deletes(run[r].snap, run[r].view, run[r].allow) = {}
          BY <1>1 DEF Deletes
        <3> QED
          BY <1>1, <2>1, <3>1, ApplyLoses
      <2> QED
        BY <1>1, <2>1, RunEnds
    <1>2. WellFormed /\ [Next]_vars
             => [\A r \in Runs :
                    Ends(r) /\ ~run[r].allow
                       => Present(table) \subseteq Present(table')]_vars
      BY <1>1
    <1> QED
      BY <1>2, AlwaysWellFormed, PTL DEF Spec, DegradedKeepsEveryKey

(* One commit never removes more than half of the rows its run had read,   *)
(* whatever view upstream answered with and whatever was committed since   *)
(* (SYNC_MAX_DELETE_FRACTION).                                             *)
THEOREM ErasureIsBounded == Spec => BoundedErasure
    <1>1. ASSUME WellFormed, [Next]_vars, NEW r \in Runs, Ends(r)
          PROVE  2 * Cardinality(Present(table) \ Present(table'))
                    <= Cardinality(Present(run[r].snap))
      <2> DEFINE gone == Present(table) \ Present(table')
                 del == Deletes(run[r].snap, run[r].view, run[r].allow)
      <2>1. CASE Apply(r)
        <3>1. gone \subseteq del
          BY <1>1, <2>1, ApplyLoses
        <3>2. /\ IsFiniteSet(del) /\ Cardinality(del) \in Nat
              /\ 2 * Cardinality(del) <= Cardinality(Present(run[r].snap))
          BY DeletesBounded
        <3>3. Cardinality(gone) \in Nat /\ Cardinality(gone) <= Cardinality(del)
          BY <3>1, <3>2, FS_Subset, FS_CardinalityType
        <3> QED
          BY <3>2, <3>3, PresentFinite
      <2>2. CASE table' = table
        <3>1. gone = {}
          BY <2>2
        <3>2. Cardinality(gone) = 0
          BY <3>1, FS_EmptySet
        <3> QED
          BY <3>2, PresentFinite
      <2> QED
        BY <1>1, <2>1, <2>2, RunEnds
    <1>2. WellFormed /\ [Next]_vars
             => [\A r \in Runs :
                    Ends(r) => 2 * Cardinality(Present(table) \ Present(table'))
                                  <= Cardinality(Present(run[r].snap))]_vars
      BY <1>1
    <1> QED
      BY <1>2, AlwaysWellFormed, PTL DEF Spec, BoundedErasure

\* What a run reports when it has committed.
LEMMA ApplyReports ==
    ASSUME WellFormed, NEW r \in Runs, Apply(r), run'[r].outcome \in {"ok", "refused"}
    PROVE  /\ table' = Committed(r)
           /\ run'[r].outcome = "refused" <=>
                 Refused(run[r].snap, run[r].view, run[r].allow)
    <1>1. run \in [Runs -> RunStates]
      BY DEF WellFormed, TypeOK
    <1>2. ~FlushFails(r)
      BY <1>1 DEF Apply, IdleRun
    <1> QED
      BY <1>1, <1>2 DEF Apply, IdleRun, Committed

\* What a run commits that has found the table as it had read it.
LEMMA UnmovedCommit ==
    ASSUME WellFormed, NEW r \in Runs, Unmoved(r)
    PROVE  Committed(r) = CommitAlone(table, run[r].view, run[r].allow)
    <1>1. /\ run[r] \in RunStates /\ table \in MixedTables /\ KeepsToPlan(run[r])
          /\ run[r].view \in Tables
      BY CommittedType DEF WellFormed, TypeOK, PlanInv
    <1>2. \A i \in Ids : run[r].loaded[i] = LoadedAlone(table, run[r].view)[i]
      BY <1>1 DEF Unmoved, KeepsToPlan, LoadedAlone
    <1>3. /\ run[r].loaded = [i \in Ids |-> run[r].loaded[i]]
          /\ LoadedAlone(table, run[r].view)
                = [i \in Ids |-> LoadedAlone(table, run[r].view)[i]]
      BY <1>1 DEF RunStates, MixedTables, LoadedAlone
    <1>4. run[r].loaded = LoadedAlone(table, run[r].view)
      BY <1>2, <1>3
    <1> QED
      BY <1>1, <1>4, CommitAloneIsCommit DEF Committed, Unmoved

(* A run that ends ok on a table nobody changed since it read it, with a   *)
(* view it took for complete, leaves the table agreeing with that view     *)
(* (what the "ok" of run_eam and sync_rooms claims).                       *)
THEOREM OkRunsMirror == Spec => OkMeansMirrored
    <1>1. ASSUME WellFormed, [Next]_vars, NEW r \in Runs,
                 Ends(r), run'[r].outcome = "ok", run[r].allow, Unmoved(r)
          PROVE  Agree(table', run[r].view)
      <2>0. run[r].allow = TRUE /\ run[r].snap = table
        BY <1>1 DEF WellFormed, TypeOK, RunStates, Unmoved
      <2>1. Apply(r)
        BY <1>1, RunEnds
      <2>2. /\ table' = CommitAlone(table, run[r].view, TRUE)
            /\ ~Refused(table, run[r].view, TRUE)
        BY <1>1, <2>0, <2>1, ApplyReports, UnmovedCommit
      <2>3. ~MassDelete(table, run[r].view)
        BY <2>2 DEF Refused
      <2> QED
        BY <2>2, <2>3, CommitMirrors
    <1>2. WellFormed /\ [Next]_vars
             => [\A r \in Runs :
                    Ends(r) /\ run'[r].outcome = "ok" /\ run[r].allow /\ Unmoved(r)
                       => Agree(table', run[r].view)]_vars
      BY <1>1
    <1> QED
      BY <1>2, AlwaysWellFormed, PTL DEF Spec, OkMeansMirrored

(* A run that refuses the deletes has still written every row of its view  *)
(* (MassDeleteRefused is raised after the transaction).                    *)
THEOREM RefusalsRefresh == Spec => RefusedStillRefreshes
    <1>1. ASSUME WellFormed, [Next]_vars, NEW r \in Runs, Ends(r),
                 run'[r].outcome = "refused", Unmoved(r),
                 NEW i \in Present(run[r].view)
          PROVE  SameRow(table'[i], run[r].view[i])
      <2>1. Apply(r)
        BY <1>1, RunEnds
      <2>2. table' = CommitAlone(table, run[r].view, run[r].allow)
        BY <1>1, <2>1, ApplyReports, UnmovedCommit
      <2> QED
        BY <1>1, <2>2, CommitRefreshes
    <1>2. WellFormed /\ [Next]_vars
             => [\A r \in Runs :
                    Ends(r) /\ run'[r].outcome = "refused" /\ Unmoved(r)
                       => \A i \in Present(run[r].view) :
                             SameRow(table'[i], run[r].view[i])]_vars
      BY <1>1
    <1> QED
      BY <1>2, AlwaysWellFormed, PTL DEF Spec, RefusedStillRefreshes

-----------------------------------------------------------------------------
(* The refinement.                                                         *)

\* No table and no snapshot ever held more rows than the peak: what a run may
\* delete is measured on its snapshot, what the cache promises on the peak.
PeakInv ==
    /\ Cardinality(Present(table)) <= peak
    /\ \A r \in Runs : Cardinality(Present(run[r].snap)) <= peak

LEMMA EmptyPresent == Cardinality(Present(EmptyTable)) = 0
    <1>1. Present(EmptyTable) = {}
      BY DEF Present, EmptyTable
    <1> QED
      BY <1>1, FS_EmptySet

LEMMA PeakInit == Init => PeakInv
    BY EmptyPresent DEF Init, PeakInv, IdleRun

LEMMA PeakStep == WellFormed /\ PeakInv /\ [Next]_vars => PeakInv'
    <1> SUFFICES ASSUME WellFormed, PeakInv, [Next]_vars PROVE PeakInv'
      OBVIOUS
    <1>0. run \in [Runs -> RunStates] /\ peak \in Nat /\ TypeOK
      BY DEF WellFormed, TypeOK
    <1>a. \A outcome \in Outcomes : Cardinality(Present(IdleRun(outcome).snap)) <= peak
      BY <1>0, EmptyPresent DEF IdleRun
    <1>1. ASSUME NEW i \in Ids, NEW row \in Rows \cup {NoRow}, UpstreamChange(i, row)
          PROVE  PeakInv'
      BY <1>1 DEF UpstreamChange, PeakInv
    <1>2. ASSUME NEW r \in Runs, FetchesSome(r)
          PROVE  PeakInv'
      <2>1. /\ run' = [run EXCEPT ![r] = run'[r]] /\ run'[r].snap = EmptyTable
            /\ UNCHANGED <<table, peak>>
        BY <1>0, <1>2, FetchEffect
      <2>2. \A q \in Runs : q # r => run'[q] = run[q]
        BY <1>0, <2>1
      <2>3. \A q \in Runs : Cardinality(Present(run'[q].snap)) <= peak
        BY <1>0, <2>1, <2>2, EmptyPresent DEF PeakInv
      <2> QED
        BY <2>1, <2>3 DEF PeakInv
    <1>3. ASSUME NEW r \in Runs, Reads(r)
          PROVE  PeakInv'
      <2>1. /\ run' = [run EXCEPT ![r] = run'[r]]
            /\ run'[r].snap \in {run[r].snap, table}
            /\ UNCHANGED <<table, peak>>
        BY <1>3, ReadEffect
      <2>2. \A q \in Runs : run'[q].snap \in {run[q].snap, table}
        BY <1>0, <2>1
      <2> QED
        BY <2>1, <2>2 DEF PeakInv
    <1>4. ASSUME NEW r \in Runs, Apply(r)
          PROVE  PeakInv'
      <2>1. PICK outcome \in Outcomes : run' = [run EXCEPT ![r] = IdleRun(outcome)]
        BY <1>4, ApplyEffect
      <2>2. peak' \in Nat /\ peak <= peak' /\ Cardinality(Present(table')) <= peak'
        BY <1>0, <1>4, ApplyEffect, PresentFinite DEF PeakInv
      <2>3. \A q \in Runs : Cardinality(Present(run'[q].snap)) <= peak
        BY <1>0, <1>a, <2>1 DEF PeakInv
      <2>4. \A q \in Runs : Cardinality(Present(run'[q].snap)) <= peak'
        BY <1>0, <2>2, <2>3, PresentFinite
      <2> QED
        BY <2>2, <2>4 DEF PeakInv
    <1>5. ASSUME NEW r \in Runs, GivesUp(r)
          PROVE  PeakInv'
      <2>1. PICK outcome \in Outcomes : run' = [run EXCEPT ![r] = IdleRun(outcome)]
        BY <1>0, <1>5, GivesUpEffect
      <2>2. \A q \in Runs : Cardinality(Present(run'[q].snap)) <= peak
        BY <1>0, <1>a, <2>1 DEF PeakInv
      <2>3. UNCHANGED <<table, peak>>
        BY <1>0, <1>5, GivesUpEffect
      <2> QED
        BY <2>2, <2>3 DEF PeakInv
    <1>6. CASE UNCHANGED vars
      BY <1>6 DEF PeakInv, vars
    <1> QED
      BY <1>1, <1>2, <1>3, <1>4, <1>5, <1>6
         DEF Next, RunStep, RunFault, GivesUp, Reads, FetchesSome

LEMMA AlwaysPeak == Spec => []PeakInv
    BY AlwaysWellFormed, PeakInit, PeakStep, PTL DEF Spec

LEMMA CacheInit == Init => Cache!Init
    <1> SUFFICES ASSUME Init PROVE Cache!Init
      OBVIOUS
    <1>1. table = Cache!EmptyTable
      BY DEF Init, EmptyTable, Cache!EmptyTable
    <1>2. served \in [Ids -> SUBSET Rows]
      BY GridsAssumption DEF Init, Tables
    <1> QED
      BY <1>1, <1>2 DEF Init, Cache!Init

\* The instance has a Cardinality of its own, and it is the same.
LEMMA CacheCardinality == \A S : Cache!Cardinality(S) = Cardinality(S)
    BY Zenon DEF Cardinality, Cache!Cardinality

\* A commit takes away no more than half of the peak.
LEMMA ApplyBoundedByPeak ==
    ASSUME WellFormed, PeakInv, NEW r \in Runs, Apply(r)
    PROVE  2 * Cardinality(Present(table) \ Present(table')) <= peak
    <1> DEFINE gone == Present(table) \ Present(table')
               del == Deletes(run[r].snap, run[r].view, run[r].allow)
    <1>1. gone \subseteq del
      BY ApplyLoses
    <1>2. /\ IsFiniteSet(del) /\ Cardinality(del) \in Nat
          /\ 2 * Cardinality(del) <= Cardinality(Present(run[r].snap))
      BY DeletesBounded
    <1>3. Cardinality(gone) \in Nat /\ Cardinality(gone) <= Cardinality(del)
      BY <1>1, <1>2, FS_Subset, FS_CardinalityType
    <1>4. /\ Cardinality(Present(run[r].snap)) \in Nat
          /\ Cardinality(Present(run[r].snap)) <= peak
      BY PresentFinite DEF PeakInv
    <1>5. peak \in Nat
      BY DEF WellFormed, TypeOK
    <1> QED
      BY <1>2, <1>3, <1>4, <1>5

LEMMA ApplyRefines ==
    ASSUME WellFormed, GenuineInv, PeakInv, NEW r \in Runs, Apply(r)
    PROVE  [Cache!Next]_(Cache!vars)
    <1>1. UNCHANGED served
      BY DEF Apply
    <1>2. CASE UNCHANGED <<table, peak>>
      BY <1>1, <1>2 DEF Cache!vars
    <1>3. CASE /\ table' = Committed(r)
               /\ peak' = IF Cardinality(Present(table')) > peak
                          THEN Cardinality(Present(table')) ELSE peak
      <2>1. table' \in Cache!MixedTables
        BY ApplyEffect DEF MixedTables, Cache!MixedTables, Values, Cache!Values
      <2>2. \A i \in Ids : table'[i] # NoRow => Cache!ServedInParts(table'[i], served[i])
        BY <1>3, CommittedIsServed DEF ServedInParts, Cache!ServedInParts
      <2>3. /\ Cache!Present(table) = Present(table)
            /\ Cache!Present(table)' = Present(table')
            /\ Cache!Present(table') = Present(table')
        BY DEF Present, Cache!Present
      <2>4. 2 * Cardinality(Cache!Lost) <= peak
        BY <2>3, ApplyBoundedByPeak DEF Cache!Lost
      <2> QED
        BY <1>1, <1>3, <2>1, <2>2, <2>3, <2>4, CacheCardinality DEF Cache!Replace, Cache!Next
    <1> QED
      BY <1>2, <1>3, ApplyEffect

LEMMA StepRefines ==
    WellFormed /\ GenuineInv /\ PeakInv /\ [Next]_vars => [Cache!Next]_(Cache!vars)
    <1> SUFFICES ASSUME WellFormed, GenuineInv, PeakInv, [Next]_vars
                 PROVE  [Cache!Next]_(Cache!vars)
      OBVIOUS
    <1>0. TypeOK
      BY DEF WellFormed
    <1>1. ASSUME NEW i \in Ids, NEW row \in Rows \cup {NoRow}, UpstreamChange(i, row)
          PROVE  [Cache!Next]_(Cache!vars)
      <2>1. UNCHANGED <<table, peak>>
        BY <1>1 DEF UpstreamChange
      <2>2. CASE row \in Rows
        <3>1. {row} \ {NoRow} = {row}
          BY <2>2, RowsAreNotAbsent
        <3>2. served' = [served EXCEPT ![i] = served[i] \cup {row}]
          BY <1>1, <3>1 DEF UpstreamChange
        <3> QED
          BY <2>1, <2>2, <3>2 DEF Cache!Serve, Cache!Next
      <2>3. CASE row = NoRow
        <3>1. served' = [served EXCEPT ![i] = served[i] \cup {}]
          BY <1>1, <2>3 DEF UpstreamChange
        <3>2. served' = served
          BY <1>0, <3>1 DEF TypeOK
        <3> QED
          BY <2>1, <3>2 DEF Cache!vars
      <2> QED
        BY <2>2, <2>3
    <1>2. ASSUME NEW r \in Runs, FetchesSome(r)
          PROVE  [Cache!Next]_(Cache!vars)
      BY <1>0, <1>2, FetchEffect DEF Cache!vars
    <1>3. ASSUME NEW r \in Runs, Reads(r)
          PROVE  [Cache!Next]_(Cache!vars)
      BY <1>3, ReadEffect DEF Cache!vars
    <1>4. ASSUME NEW r \in Runs, Apply(r)
          PROVE  [Cache!Next]_(Cache!vars)
      BY <1>4, ApplyRefines
    <1>5. ASSUME NEW r \in Runs, GivesUp(r)
          PROVE  [Cache!Next]_(Cache!vars)
      BY <1>0, <1>5, GivesUpEffect DEF Cache!vars
    <1>6. CASE UNCHANGED vars
      BY <1>6 DEF vars, Cache!vars
    <1> QED
      BY <1>1, <1>2, <1>3, <1>4, <1>5, <1>6
         DEF Next, RunStep, RunFault, GivesUp, Reads, FetchesSome

(* Any number of overlapping, failing, killed runs implement what the      *)
(* cache promises to the jobs that read it: served values, in rows that    *)
(* may mix them, and erasure bounded by half of the largest inventory.     *)
THEOREM Refinement == Spec => ImplementsCache
    BY AlwaysWellFormed, AlwaysGenuine, AlwaysPeak, CacheInit, StepRefines, PTL
       DEF Spec, ImplementsCache, Cache!Spec

-----------------------------------------------------------------------------
(* What Converges rests on: harm is done by runs that are out of date, and *)
(* by each of them once.                                                   *)

\* A view shows what upstream has, or leaves out rows it may not delete.
Shows(view, u, allow) ==
    \A i \in Ids : view[i] = u[i] \/ (~allow /\ view[i] = NoRow)

\* The runs whose view upstream has outdated.
OutOfDate == {r \in Runs : run[r].pc # "idle"
                             /\ ~Shows(run[r].view, upstream, run[r].allow)}

\* The keys the cache has wrong.
Wrong == {i \in Ids : ~SameRow(table[i], upstream[i])}

\* Upstream stands still, and no fetch is cut short unnoticed.
Undisturbed == UNCHANGED upstream /\ ~(\E r \in Runs : FetchTruncated(r))

HarmEnds ==
    Undisturbed =>
        /\ OutOfDate' \subseteq OutOfDate
        /\ \/ Wrong' \subseteq Wrong
           \/ \E r \in OutOfDate \ OutOfDate' : Apply(r)

\* A right row stays right where some of its columns are overwritten with the
\* columns of the very row it agrees with.
LEMMA UpdatedRowStaysRight ==
    ASSUME NEW row \in [Columns -> Values], NEW loaded, NEW new, ~Differs(row, new)
    PROVE  ~Differs(UpdatedRow(row, loaded, new), new)
    BY ColumnsAssumption DEF Differs, UpdatedRow

\* However outdated its snapshot and the rows it has loaded, a commit of a view
\* that is not makes no key wrong.
LEMMA CurrentViewsDoNoHarm ==
    ASSUME WellFormed, NEW r \in Runs, Shows(run[r].view, upstream, run[r].allow),
           NEW i \in Ids, SameRow(table[i], upstream[i])
    PROVE  SameRow(Committed(r)[i], upstream[i])
    <1> DEFINE view == run[r].view
    <1>1. /\ table \in MixedTables /\ KeepsToPlan(run[r]) /\ run[r] \in RunStates
      BY DEF WellFormed, TypeOK, PlanInv
    <1>2. i \in ToInsert(run[r].snap, view) => view[i] # NoRow
      BY DEF ToInsert, Present
    <1>3. i \in run[r].doomed => view[i] = NoRow /\ run[r].allow
      BY <1>1 DEF KeepsToPlan, Deletes, ToDelete, Present
    <1>4. run[r].loaded[i] # NoRow => view[i] # NoRow
      BY CommittedType
    <1>5. view[i] # NoRow => view[i] = upstream[i]
      BY DEF Shows
    <1>6. view[i] = NoRow /\ run[r].allow => upstream[i] = NoRow
      BY DEF Shows
    <1>7. ~Differs(view[i], view[i])
      BY DEF Differs
    <1> HIDE DEF view
    <1>8. CASE i \in ToInsert(run[r].snap, view)
      BY <1>2, <1>5, <1>7, <1>8 DEF view, Committed, Commit, SameRow
    <1>9. CASE i \notin ToInsert(run[r].snap, view) /\ i \in run[r].doomed
      BY <1>3, <1>6, <1>9 DEF view, Committed, Commit, SameRow
    <1>10. CASE /\ i \notin ToInsert(run[r].snap, view) /\ i \notin run[r].doomed
                /\ table[i] # NoRow /\ run[r].loaded[i] # NoRow
      <2>1. view[i] = upstream[i] /\ upstream[i] # NoRow
        BY <1>4, <1>5, <1>10
      <2>2. table[i] \in [Columns -> Values] /\ ~Differs(table[i], view[i])
        BY <1>1, <1>10, <2>1 DEF MixedTables, SameRow
      <2>3. ~Differs(UpdatedRow(table[i], run[r].loaded[i], view[i]), view[i])
        BY <2>2, UpdatedRowStaysRight
      <2>4. Committed(r)[i] = UpdatedRow(table[i], run[r].loaded[i], view[i])
        BY <1>10 DEF view, Committed, Commit
      <2>5. Committed(r)[i] # NoRow
        <3>1. view[i] \in [Columns -> Values]
          BY <2>1, CommittedType DEF view, MixedTables
        <3> QED
          BY <2>2, <2>4, <3>1, UpdatedRowType, NoRowAssumption
      <2> QED
        BY <2>1, <2>3, <2>4, <2>5 DEF SameRow
    <1>11. CASE /\ i \notin ToInsert(run[r].snap, view) /\ i \notin run[r].doomed
                /\ ~(table[i] # NoRow /\ run[r].loaded[i] # NoRow)
      BY <1>11 DEF view, Committed, Commit
    <1> QED
      BY <1>8, <1>9, <1>10, <1>11

\* Only Apply writes the table, and a run takes no new view but of upstream now.
LEMMA FetchShows ==
    ASSUME TypeOK, NEW r \in Runs, NEW view, NEW allow, NEW twice,
           Fetched(r, view, allow, twice), Shows(view, upstream, allow)
    PROVE  HarmEnds
    <1>1. run \in [Runs -> RunStates]
      BY DEF TypeOK
    <1>2. /\ run'[r].view = view /\ run'[r].allow = allow
          /\ \A q \in Runs : q # r => run'[q] = run[q]
          /\ UNCHANGED <<upstream, table>>
      BY <1>1 DEF Fetched, IdleRun
    <1>3. OutOfDate' \subseteq OutOfDate
      BY <1>2 DEF OutOfDate
    <1>4. UNCHANGED Wrong
      BY <1>2 DEF Wrong
    <1> QED
      BY <1>3, <1>4 DEF HarmEnds

LEMMA EndingShows ==
    ASSUME TypeOK, UNCHANGED upstream, NEW r \in Runs, NEW outcome,
           run' = [run EXCEPT ![r] = IdleRun(outcome)]
    PROVE  OutOfDate' \subseteq OutOfDate \ {r}
    <1>1. run \in [Runs -> RunStates]
      BY DEF TypeOK
    <1>2. run'[r].pc = "idle" /\ \A q \in Runs : q # r => run'[q] = run[q]
      BY <1>1 DEF IdleRun
    <1> QED
      BY <1>2 DEF OutOfDate

LEMMA ApplyHarmsOnce ==
    ASSUME WellFormed, NEW r \in Runs, Apply(r)
    PROVE  HarmEnds
    <1>1. TypeOK /\ run[r].pc = "open"
      BY DEF WellFormed, Apply
    <1>2. PICK outcome \in Outcomes : run' = [run EXCEPT ![r] = IdleRun(outcome)]
      BY ApplyEffect
    <1>3. UNCHANGED upstream /\ OutOfDate' \subseteq OutOfDate \ {r}
      BY <1>1, <1>2, ApplyEffect, EndingShows
    <1>4. CASE r \in OutOfDate
      BY <1>3, <1>4 DEF HarmEnds
    <1>5. CASE r \notin OutOfDate
      <2>1. Shows(run[r].view, upstream, run[r].allow)
        BY <1>1, <1>5 DEF OutOfDate
      <2>2. table' = table \/ table' = Committed(r)
        BY ApplyEffect
      <2>3. \A i \in Ids : SameRow(table[i], upstream[i]) => SameRow(table'[i], upstream[i])
        BY <2>1, <2>2, CurrentViewsDoNoHarm
      <2>4. Wrong' \subseteq Wrong
        BY <1>3, <2>3 DEF Wrong
      <2> QED
        BY <1>3, <2>4 DEF HarmEnds
    <1> QED
      BY <1>4, <1>5

(* While upstream stands still, whatever overlaps, fails or is killed: no  *)
(* run becomes out of date, one that is out of date can commit once, and   *)
(* no other commit makes a key of the cache wrong, even with a snapshot    *)
(* and loaded rows others have outdated (_sync_entities plans from a table *)
(* read earlier, _sync_devices updates rows read without a lock).          *)
THEOREM WrongKeysDieOut == Spec => [][HarmEnds]_vars
    <1>1. ASSUME WellFormed, Next PROVE HarmEnds
      <2>0. upstream \in Tables /\ run \in [Runs -> RunStates] /\ TypeOK
        BY <1>1 DEF WellFormed, TypeOK
      <2>1. ASSUME NEW i \in Ids, NEW row \in Rows \cup {NoRow}, UpstreamChange(i, row)
            PROVE  HarmEnds
        BY <2>0, <2>1 DEF UpstreamChange, HarmEnds, Undisturbed, Tables
      <2>2. ASSUME NEW r \in Runs, FetchComplete(r) \/ FetchTwice(r)
            PROVE  HarmEnds
        <3>1. PICK twice : Fetched(r, upstream, TRUE, twice)
          BY <2>2 DEF FetchComplete, FetchTwice
        <3>2. Shows(upstream, upstream, TRUE)
          BY DEF Shows
        <3> QED
          BY <2>0, <3>1, <3>2, FetchShows
      <2>3. ASSUME NEW r \in Runs, FetchDegraded(r)
            PROVE  HarmEnds
        <3>1. PICK part \in SUBSET Present(upstream) :
                 Fetched(r, Partial(part), FALSE, FALSE)
          BY <2>3 DEF FetchDegraded
        <3>2. Shows(Partial(part), upstream, FALSE)
          BY DEF Partial, Shows
        <3> QED
          BY <2>0, <3>1, <3>2, FetchShows
      <2>4. ASSUME NEW r \in Runs, Reads(r)
            PROVE  HarmEnds
        <3>1. /\ run' = [run EXCEPT ![r] = run'[r]]
              /\ run'[r].view = run[r].view /\ run'[r].allow = run[r].allow
              /\ run[r].pc # "idle" /\ UNCHANGED <<upstream, table>>
          BY <1>1, <2>4, ReadEffect
        <3>2. \A q \in Runs : q # r => run'[q] = run[q]
          BY <2>0, <3>1
        <3>3. OutOfDate' \subseteq OutOfDate
          BY <3>1, <3>2 DEF OutOfDate
        <3>4. UNCHANGED Wrong
          BY <3>1 DEF Wrong
        <3> QED
          BY <3>3, <3>4 DEF HarmEnds
      <2>5. ASSUME NEW r \in Runs, GivesUp(r)
            PROVE  HarmEnds
        <3>1. PICK outcome : run' = [run EXCEPT ![r] = IdleRun(outcome)]
          BY <2>0, <2>5, GivesUpEffect
        <3>2. UNCHANGED <<upstream, table>>
          BY <2>0, <2>5, GivesUpEffect
        <3> QED
          BY <2>0, <3>1, <3>2, EndingShows DEF HarmEnds, Wrong
      <2> QED
        BY <1>1, <2>1, <2>2, <2>3, <2>4, <2>5, ApplyHarmsOnce
           DEF Next, RunStep, RunFault, GivesUp, Reads, HarmEnds, Undisturbed
    <1>2. WellFormed /\ [Next]_vars => [HarmEnds]_vars
      BY <1>1
    <1> QED
      BY <1>2, AlwaysWellFormed, PTL DEF Spec
=============================================================================
