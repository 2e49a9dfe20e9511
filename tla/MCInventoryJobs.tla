-------------------------- MODULE MCInventoryJobs --------------------------
(* InventoryJobs on two assets of the department and one of another, two   *)
(* positions, the second another department's, and one room.  EAM starts   *)
(* with one asset missing or at the first position, another missing or at  *)
(* either, the foreign one missing or at the first, and any positions.     *)
EXTENDS InventoryJobs, TLC

CONSTANTS d1, d2, f1, p1, p2, room

ThreeDevices == {d1, d2, f1}
OneForeign == {f1}
TwoPositions == {p1, p2}
OneForeignPlace == {p2}
OneRoom == {room}
At(p) == [position |-> p]
StartingGrids ==
    {(d1 :> x) @@ (d2 :> y) @@ (f1 :> z) :
        x \in {NoRow, At(p1)}, y \in {NoRow, At(p1), At(p2)}, z \in {NoRow, At(p1)}}
=============================================================================
