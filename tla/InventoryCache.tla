---------------------------- MODULE InventoryCache ----------------------------
(***************************************************************************)
(* What the inventory cache promises to the jobs that read it (the SNMP    *)
(* collection, sync-rooms), with no word on runs, snapshots or overlaps:   *)
(* every value is one that upstream has really served for that key in that *)
(* column, not always in one row with the others, and one commit never     *)
(* takes away more than half of the largest inventory the table has held.  *)
(* InventorySync implements it.                                            *)
(***************************************************************************)
EXTENDS Reconcile

VARIABLES
    table,   \* the cache table
    served,  \* served[i]: the rows upstream has held for key i so far
    peak     \* the most rows the table has held at once

Init ==
    /\ table = EmptyTable
    /\ served \in [Ids -> SUBSET Rows]
    /\ peak = 0

\* Upstream shows a new row, or takes one away.
Serve ==
    /\ \E i \in Ids, row \in Rows : served' = [served EXCEPT ![i] = @ \cup {row}]
    /\ UNCHANGED <<table, peak>>

Lost == Present(table) \ Present(table')

\* Each column of the row has the value it has in some row of seen.
ServedInParts(row, seen) == \A c \in Columns : \E old \in seen : row[c] = old[c]

Replace ==
    /\ table' \in MixedTables
    /\ \A i \in Ids : table'[i] # NoRow => ServedInParts(table'[i], served[i])
    /\ 2 * Cardinality(Lost) <= peak
    /\ peak' = IF Cardinality(Present(table')) > peak
               THEN Cardinality(Present(table')) ELSE peak
    /\ UNCHANGED served

Next == Serve \/ Replace

vars == <<table, served, peak>>

Spec == Init /\ [][Next]_vars
=============================================================================
