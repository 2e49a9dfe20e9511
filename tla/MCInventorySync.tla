--------------------------- MODULE MCInventorySync ---------------------------
(* InventorySync on small sets.  Three versions of a row: the second       *)
(* differs from the first in one compared column, the third in the other   *)
(* and in a column that is not compared, and leaves the first unset, so    *)
(* that runs which write different columns of one loaded row mix them.     *)
EXTENDS InventorySync

CONSTANTS r1, r2, k1, k2, k3, None

ThreeColumns == {"position", "status", "other"}
TwoCompared == {"position", "status"}
Version1 == [position |-> 1, status |-> 1, other |-> 1]
Version2 == [position |-> 2, status |-> 1, other |-> 1]
Version3 == [position |-> None, status |-> 2, other |-> 2]
ThreeRows == {Version1, Version2, Version3}
TwoKeys == {k1, k2}
ThreeKeys == {k1, k2, k3}
\* Upstream starts with one, two or three items.
StartingGrids ==
    {[i \in ThreeKeys |-> IF i \in present THEN Version1 ELSE NoRow] :
        present \in {{k1}, {k1, k2}, ThreeKeys}}
TwoItems == {[i \in TwoKeys |-> Version1]}
TwoRuns == {r1, r2}
=============================================================================
