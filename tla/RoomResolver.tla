---------------------------- MODULE RoomResolver ----------------------------
(***************************************************************************)
(* The room of every device: AVTools._resolve_rooms (core/av_tools.py)     *)
(* asks RoomResolver.resolve_one (algorithms/room_resolver.py) device by   *)
(* device.  The resolver climbs the position tree from the device's        *)
(* position along parent_asset, keeps the last AV room it saw, and         *)
(* remembers its answer by position.  EAM does not promise a tree: links   *)
(* may be broken, form cycles, or be longer than MAX_CLIMB_DEPTH.          *)
(***************************************************************************)
EXTENDS Integers, FiniteSets, Sequences, SequencesExt

CONSTANTS
    Devices,        \* rows of eam_devices
    Positions,      \* equipment numbers of positions
    None,           \* NULL: no position, no parent, no room seen
    NoNode,         \* not in eam_positions
    Nodes,          \* rows of eam_positions considered
    MaxClimbDepth   \* MAX_CLIMB_DEPTH

ASSUME PositionsAssumption == IsFiniteSet(Positions) /\ None \notin Positions \cup Devices
ASSUME DepthAssumption == MaxClimbDepth \in Nat \ {0}

NO_ROOM_NO_POSITION == "__NO_ROOM_NO_POSITION__"
NO_ROOM_NO_PARENT == "__NO_ROOM_NO_PARENT__"
Sentinels == {NO_ROOM_NO_POSITION, NO_ROOM_NO_PARENT}

ASSUME SentinelsAssumption ==
    Sentinels \cap (Positions \cup {None}) = {} /\ NoNode \notin Sentinels

PositionNode == [parentAsset : Positions \cup {None},
                 eqClass : {"AVR", "other"}, category : {"AV-VCR", "other"}]

ASSUME NodesAssumption == Nodes \subseteq PositionNode

VARIABLES
    index,      \* the position tree, by equipment number
    anchor,     \* the position of each device
    rooms,      \* the room resolved for each device; None: not yet
    cache,      \* memo: the answer for a position; NoNode: none yet
    device,     \* the device being resolved; None: no climb under way
    node,       \* the climb: where it is,
    visited,    \* the positions it has seen,
    depth,      \* how many links it followed,
    topmost     \* and the last room seen

input == <<index, anchor>>
climb == <<device, node, visited, depth, topmost>>
vars == <<input, rooms, cache, climb>>

Answers == Positions \cup Sentinels

TypeOK ==
    /\ index \in [Positions -> PositionNode \cup {NoNode}]
    /\ anchor \in [Devices -> Positions \cup {None}]
    /\ rooms \in [Devices -> Answers \cup {None}]
    /\ cache \in [Positions \cup {None} -> Answers \cup {NoNode}]
    /\ device \in Devices \cup {None}
    /\ node \in Positions \cup {None}
    /\ visited \in SUBSET Positions
    /\ depth \in 0..MaxClimbDepth
    /\ topmost \in Positions \cup {None}

Known == {p \in Positions : index[p] # NoNode}

\* is_room: eq_class is AVR and the category is a room's.
IsRoom(p) == index[p].eqClass = "AVR" /\ index[p].category = "AV-VCR"

\* Mutant: without the cycle guard.
NextParentUnguarded(p, seen) ==
    IF index[p].parentAsset \in Known THEN index[p].parentAsset ELSE None

\* The next position up; None at a root, a broken link or a cycle.
NextParent(p, seen) ==
    IF index[p].parentAsset \in Known \ seen THEN index[p].parentAsset ELSE None

\* Mutant: the nearest room is kept, not the topmost.
SeenNearest(p, room) == IF room = None /\ IsRoom(p) THEN p ELSE room

\* topmost_room after the climb has come to p.
Seen(p, room) == IF IsRoom(p) THEN p ELSE room

NoClimb == device = None /\ node = None /\ visited = {} /\ depth = 0 /\ topmost = None

Init ==
    /\ index \in [Positions -> Nodes \cup {NoNode}]
    /\ anchor \in [Devices -> Positions \cup {None}]
    /\ rooms = [d \in Devices |-> None]
    /\ cache = [p \in Positions \cup {None} |-> NoNode]
    /\ NoClimb

\* The answer for d is known: it is remembered for its position.
Answer(d, room) ==
    /\ rooms' = [rooms EXCEPT ![d] = room]
    /\ cache' = [cache EXCEPT ![anchor[d]] = room]

Waiting(d) == device = None /\ rooms[d] = None

\* The position was resolved for an earlier device.
ResolveCached(d) ==
    /\ Waiting(d)
    /\ cache[anchor[d]] # NoNode
    /\ Answer(d, cache[anchor[d]])
    /\ UNCHANGED <<input, climb>>

\* No position, or one that eam_positions does not have.
ResolveUnknown(d) ==
    /\ Waiting(d)
    /\ cache[anchor[d]] = NoNode
    /\ anchor[d] \notin Known
    /\ Answer(d, NO_ROOM_NO_POSITION)
    /\ UNCHANGED <<input, climb>>

StartClimb(d) ==
    /\ Waiting(d)
    /\ cache[anchor[d]] = NoNode
    /\ anchor[d] \in Known
    /\ device' = d
    /\ node' = anchor[d]
    /\ visited' = {anchor[d]}
    /\ depth' = 0
    /\ topmost' = Seen(anchor[d], None)
    /\ UNCHANGED <<input, rooms, cache>>

\* Mutant: one link too many.
MayClimbOff(n) == n <= MaxClimbDepth

\* for _ in range(MAX_CLIMB_DEPTH).
MayClimb(n) == n < MaxClimbDepth

Climb ==
    /\ device # None
    /\ MayClimb(depth)
    /\ LET parent == NextParent(node, visited)
       IN  /\ parent # None
           /\ visited' = visited \cup {parent}
           /\ node' = parent
           /\ topmost' = Seen(parent, topmost)
    /\ depth' = depth + 1
    /\ UNCHANGED <<input, rooms, cache, device>>

EndClimb ==
    /\ device # None
    /\ ~MayClimb(depth) \/ NextParent(node, visited) = None
    /\ Answer(device, IF topmost = None THEN NO_ROOM_NO_PARENT ELSE topmost)
    /\ device' = None /\ node' = None /\ visited' = {} /\ depth' = 0 /\ topmost' = None
    /\ UNCHANGED input

Next ==
    \/ \E d \in Devices : ResolveCached(d) \/ ResolveUnknown(d) \/ StartClimb(d)
    \/ Climb
    \/ EndClimb

Spec == Init /\ [][Next]_vars

-----------------------------------------------------------------------------
(* Properties.                                                             *)

(* Reference, after the Rooms dashboard's recursive query: the chains of   *)
(* distinct known positions that follow parent_asset from p, at most       *)
(* MaxClimbDepth links; the answer is the last room of the longest.        *)
Chains(p) ==
    {c \in BoundedSeq(Positions, MaxClimbDepth + 1) :
        /\ Len(c) > 0
        /\ Head(c) = p
        /\ \A k \in DOMAIN c : c[k] \in Known
        /\ \A k \in 1..Len(c) - 1 : index[c[k]].parentAsset = c[k + 1]
        /\ Cardinality({c[k] : k \in DOMAIN c}) = Len(c)}

RoomAbove(p) ==
    LET chain == CHOOSE c \in Chains(p) : \A other \in Chains(p) : Len(other) <= Len(c)
        inRoom == {k \in DOMAIN chain : IsRoom(chain[k])}
    IN  IF Chains(p) = {} THEN NO_ROOM_NO_POSITION
        ELSE IF inRoom = {} THEN NO_ROOM_NO_PARENT
        ELSE chain[Max(inRoom)]

(* Every device gets the topmost room on its chain, or the sentinel that   *)
(* says why there is none, over cycles, broken links and chains cut at the *)
(* depth limit, and whether its position was climbed or remembered.        *)
RoomIsTopmost == \A d \in Devices : rooms[d] # None => rooms[d] = RoomAbove(anchor[d])

(* A climb never comes back to a position: each link it follows sees one   *)
(* position more, so a cycle ends it after one turn and not at the limit.  *)
NeverRevisits == device # None => Cardinality(visited) = depth + 1
=============================================================================
