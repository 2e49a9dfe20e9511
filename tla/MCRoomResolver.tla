--------------------------- MODULE MCRoomResolver ---------------------------
(* RoomResolver on every index of four positions that are AV rooms or have *)
(* only a room's category, so every tree, broken link and cycle of them;   *)
(* two devices on any positions; at most two links up, so that a chain of  *)
(* four is cut and a cycle of two or three ends before the limit or at it. *)
EXTENDS RoomResolver, TLC

CONSTANTS d1, d2, p1, p2, p3, p4

TwoDevices == {d1, d2}
FourPositions == {p1, p2, p3, p4}
RoomsAndOthers == {n \in PositionNode : n.category = "AV-VCR"}
Interchangeable == Permutations(FourPositions) \cup Permutations(TwoDevices)
=============================================================================
