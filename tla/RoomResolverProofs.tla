------------------------- MODULE RoomResolverProofs -------------------------
(***************************************************************************)
(* RoomResolver proved for every finite set of positions, every index      *)
(* (trees, cycles, broken links), any devices and any depth limit.  The    *)
(* inductive invariant describes the climb in progress: it has seen one    *)
(* known position per link and its start, and topmost is a room among      *)
(* them exactly when one of them is a room; that there is one chain of its *)
(* length, and no longer one when it ends, makes the answer RoomAbove's.   *)
(***************************************************************************)
EXTENDS RoomResolver, FiniteSetTheorems, TLAPS

\* a answers for position p: the sentinel for an unknown position, and
\* for a known one a room, or the other sentinel if p itself is not a room.
Honest(p, a) ==
    IF p \notin Known THEN a = NO_ROOM_NO_POSITION
    ELSE \/ a \in Known /\ IsRoom(a)
         \/ a = NO_ROOM_NO_PARENT /\ ~IsRoom(p)

ClimbInv ==
    device # None =>
        /\ visited \subseteq Known
        /\ node \in visited
        /\ anchor[device] \in visited
        /\ Cardinality(visited) = depth + 1
        /\ topmost \in {p \in visited : IsRoom(p)} \cup {None}
        /\ topmost = None => \A p \in visited : ~IsRoom(p)

AnswersInv ==
    /\ \A p \in Positions \cup {None} : cache[p] # NoNode => Honest(p, cache[p])
    /\ \A d \in Devices : rooms[d] # None => Honest(anchor[d], rooms[d])

IInv == TypeOK /\ ClimbInv /\ AnswersInv

-----------------------------------------------------------------------------

LEMMA InitIInv == Init => IInv
    BY NodesAssumption, DepthAssumption, PositionsAssumption
    DEF Init, IInv, TypeOK, NoClimb, ClimbInv, AnswersInv, Answers

\* An answer of the right kind keeps what is said of answers.
LEMMA AnswerStep ==
    ASSUME IInv, NEW d \in Devices, NEW room \in Answers,
           Honest(anchor[d], room), Answer(d, room), UNCHANGED input
    PROVE  /\ rooms' \in [Devices -> Answers \cup {None}]
           /\ cache' \in [Positions \cup {None} -> Answers \cup {NoNode}]
           /\ AnswersInv'
    <1>1. anchor[d] \in Positions \cup {None}
      BY DEF IInv, TypeOK
    <1>2. /\ rooms' = [rooms EXCEPT ![d] = room]
          /\ cache' = [cache EXCEPT ![anchor[d]] = room]
          /\ anchor' = anchor /\ index' = index
      BY DEF Answer, input
    <1>3. \A p, a : Honest(p, a) <=> Honest(p, a)'
      BY <1>2 DEF Honest, Known, IsRoom
    <1>4. /\ rooms' \in [Devices -> Answers \cup {None}]
          /\ cache' \in [Positions \cup {None} -> Answers \cup {NoNode}]
      BY <1>1, <1>2 DEF IInv, TypeOK
    <1>5. ASSUME NEW p \in Positions \cup {None}, cache'[p] # NoNode
          PROVE  Honest(p, cache[p])'
      <2>1. cache'[p] = IF p = anchor[d] THEN room ELSE cache[p]
        BY <1>1, <1>2 DEF IInv, TypeOK
      <2>2. Honest(p, cache'[p])
        BY <2>1, <1>5 DEF IInv, AnswersInv
      <2> QED
        BY <2>2, <1>2 DEF Honest, Known, IsRoom
    <1>6. ASSUME NEW e \in Devices, rooms'[e] # None
          PROVE  Honest(anchor[e], rooms[e])'
      <2>1. rooms'[e] = IF e = d THEN room ELSE rooms[e]
        BY <1>2 DEF IInv, TypeOK
      <2>2. Honest(anchor[e], rooms'[e])
        BY <2>1, <1>6 DEF IInv, AnswersInv
      <2> QED
        BY <2>2, <1>2 DEF Honest, Known, IsRoom
    <1> QED
      BY <1>4, <1>5, <1>6 DEF AnswersInv

LEMMA NextIInv == IInv /\ [Next]_vars => IInv'
    <1> SUFFICES ASSUME IInv, [Next]_vars PROVE IInv'
      OBVIOUS
    <1> USE DEF IInv
    <1>1. ASSUME NEW d \in Devices, ResolveCached(d)
          PROVE  IInv'
      <2>1. Honest(anchor[d], cache[anchor[d]]) /\ cache[anchor[d]] \in Answers
        BY <1>1 DEF ResolveCached, AnswersInv, TypeOK
      <2>2. Answer(d, cache[anchor[d]]) /\ UNCHANGED <<input, climb>>
        BY <1>1 DEF ResolveCached
      <2>3. AnswersInv' /\ TypeOK'
        BY <2>1, <2>2, AnswerStep DEF TypeOK, input, climb
      <2> QED
        BY <2>2, <2>3 DEF ClimbInv, input, climb, Known, IsRoom
    <1>2. ASSUME NEW d \in Devices, ResolveUnknown(d)
          PROVE  IInv'
      <2>1. Honest(anchor[d], NO_ROOM_NO_POSITION) /\ NO_ROOM_NO_POSITION \in Answers
        BY <1>2 DEF ResolveUnknown, Honest, Answers, Sentinels
      <2>2. Answer(d, NO_ROOM_NO_POSITION) /\ UNCHANGED <<input, climb>>
        BY <1>2 DEF ResolveUnknown
      <2>3. AnswersInv' /\ TypeOK'
        BY <2>1, <2>2, AnswerStep DEF TypeOK, input, climb
      <2> QED
        BY <2>2, <2>3 DEF ClimbInv, input, climb, Known, IsRoom
    <1>3. ASSUME NEW d \in Devices, StartClimb(d)
          PROVE  IInv'
      <2>1. anchor[d] \in Known /\ anchor[d] \in Positions
        BY <1>3 DEF StartClimb, Known
      <2>2. Cardinality({anchor[d]}) = 1
        BY FS_Singleton
      <2>3. TypeOK'
        BY <1>3, <2>1, DepthAssumption DEF StartClimb, TypeOK, input, Seen
      <2>4. ClimbInv'
        BY <1>3, <2>1, <2>2, PositionsAssumption DEF StartClimb, ClimbInv, input, Seen, Known, IsRoom
      <2>5. AnswersInv'
        BY <1>3 DEF StartClimb, AnswersInv, input, Honest, Known, IsRoom
      <2> QED
        BY <2>3, <2>4, <2>5
    <1>4. CASE Climb
      <2> DEFINE parent == NextParent(node, visited)
      <2>1. parent \in Known \ visited /\ parent \in Positions
        BY <1>4 DEF Climb, NextParent, Known
      <2>2. /\ visited' = visited \cup {parent} /\ node' = parent
            /\ topmost' = Seen(parent, topmost) /\ depth' = depth + 1
            /\ device # None /\ depth < MaxClimbDepth
            /\ UNCHANGED <<index, anchor, rooms, cache, device>>
        BY <1>4 DEF Climb, MayClimb, input
      <2> HIDE DEF parent
      <2>3. IsFiniteSet(visited)
        BY PositionsAssumption, FS_Subset DEF TypeOK
      <2>4. Cardinality(visited') = depth' + 1
        <3>1. Cardinality(visited \cup {parent}) = Cardinality(visited) + 1
          BY <2>1, <2>3, FS_AddElement
        <3>2. Cardinality(visited) = depth + 1
          BY <2>2 DEF ClimbInv
        <3> QED
          BY <3>1, <3>2, <2>2
      <2>5. TypeOK'
        BY <2>1, <2>2, DepthAssumption DEF TypeOK, Seen
      <2>6. ClimbInv'
        BY <2>1, <2>2, <2>4, PositionsAssumption DEF ClimbInv, Seen, Known, IsRoom
      <2>7. AnswersInv'
        BY <2>2 DEF AnswersInv, Honest, Known, IsRoom
      <2> QED
        BY <2>5, <2>6, <2>7
    <1>5. CASE EndClimb
      <2> DEFINE room == IF topmost = None THEN NO_ROOM_NO_PARENT ELSE topmost
      <2>1. device \in Devices /\ Answer(device, room) /\ UNCHANGED input
        BY <1>5 DEF EndClimb, TypeOK
      <2>2. room \in Answers
        BY DEF TypeOK, Answers, Sentinels
      <2>3. Honest(anchor[device], room)
        BY <1>5 DEF EndClimb, ClimbInv, Honest
      <2> HIDE DEF room
      <2>4. /\ rooms' \in [Devices -> Answers \cup {None}]
            /\ cache' \in [Positions \cup {None} -> Answers \cup {NoNode}]
            /\ AnswersInv'
        BY <2>1, <2>2, <2>3, AnswerStep
      <2>5. device' = None /\ node' = None /\ visited' = {} /\ depth' = 0 /\ topmost' = None
        BY <1>5 DEF EndClimb
      <2>6. TypeOK'
        BY <2>1, <2>4, <2>5, DepthAssumption DEF TypeOK, input
      <2> QED
        BY <2>4, <2>5, <2>6 DEF ClimbInv
    <1>6. CASE UNCHANGED vars
      BY <1>6 DEF vars, input, climb, TypeOK, ClimbInv, AnswersInv, Honest, Known, IsRoom
    <1> QED
      BY <1>1, <1>2, <1>3, <1>4, <1>5, <1>6 DEF Next

LEMMA SpecIInv == Spec => []IInv
    BY InitIInv, NextIInv, PTL DEF Spec

-----------------------------------------------------------------------------

(* The resolver's variables keep their types.                              *)
THEOREM ResolverTypeCorrect == Spec => []TypeOK
    <1>1. IInv => TypeOK
      BY DEF IInv
    <1> QED
      BY <1>1, SpecIInv, PTL

(* A climb never comes back to a position (the visited guard), whatever    *)
(* cycles the position table holds; so no climb takes more steps than      *)
(* there are positions, even without the depth limit.                      *)
THEOREM ClimbNeverRevisits == Spec => []NeverRevisits
    <1>1. IInv => NeverRevisits
      BY DEF IInv, ClimbInv, NeverRevisits
    <1> QED
      BY <1>1, SpecIInv, PTL

(* Every answer is what it says: an unknown position gives                 *)
(* NO_ROOM_NO_POSITION and only that does, a device that stands in a room  *)
(* gets a room, and every room handed out is a room of the index.          *)
THEOREM AnswersAreHonest ==
    Spec => [](\A d \in Devices : rooms[d] # None => Honest(anchor[d], rooms[d]))
    <1>1. IInv => \A d \in Devices : rooms[d] # None => Honest(anchor[d], rooms[d])
      BY DEF IInv, AnswersInv
    <1> QED
      BY <1>1, SpecIInv, PTL

-----------------------------------------------------------------------------
(* The room of RoomAbove.  The climb in progress is the only chain of its  *)
(* length: every other chain of the device's position agrees with it.      *)

LinkedUp(c) ==
    /\ \A k \in DOMAIN c : c[k] \in Known
    /\ \A k \in 1..Len(c) - 1 : index[c[k]].parentAsset = c[k + 1]

\* room is the last room of the chain; None: the chain has none.
LastRoom(c, room) ==
    \/ room = None /\ \A k \in DOMAIN c : ~IsRoom(c[k])
    \/ \E k \in DOMAIN c : /\ room = c[k] /\ IsRoom(c[k])
                          /\ \A l \in DOMAIN c : l > k => ~IsRoom(c[l])

Agree(c, o) == \A k \in DOMAIN c \cap DOMAIN o : c[k] = o[k]

Follows(c) ==
    /\ Len(c) = depth + 1
    /\ visited = {c[k] : k \in DOMAIN c}
    /\ node = c[Len(c)]
    /\ LastRoom(c, topmost)
    /\ \A o \in Chains(anchor[device]) : Agree(c, o)

ChainInv == device # None => \E c \in Chains(anchor[device]) : Follows(c)

\* The room of every position: the index does not change under a climb.
Above == [p \in Positions \cup {None} |-> RoomAbove(p)]

RoomsInv ==
    /\ \A p \in Positions \cup {None} : cache[p] # NoNode => cache[p] = Above[p]
    /\ \A d \in Devices : rooms[d] # None => rooms[d] = Above[anchor[d]]

ChainIInv == IInv /\ ChainInv /\ RoomsInv

LEMMA ChainShape ==
    ASSUME NEW p, NEW c \in Chains(p)
    PROVE  /\ Len(c) \in Nat /\ Len(c) >= 1 /\ Len(c) <= MaxClimbDepth + 1
           /\ DOMAIN c = 1 .. Len(c)
           /\ c \in [1 .. Len(c) -> Positions]
           /\ c[1] = p
           /\ LinkedUp(c)
           /\ Cardinality({c[k] : k \in DOMAIN c}) = Len(c)
    <1>1. PICK m \in 0 .. MaxClimbDepth + 1 : c \in [1 .. m -> Positions]
      BY DEF Chains, BoundedSeq, SeqOf
    <1>2. c \in Seq(Positions) /\ Len(c) = m /\ DOMAIN c = 1 .. m
      BY <1>1, DepthAssumption
    <1>3. Head(c) = c[1]
      BY <1>2 DEF Chains
    <1> QED
      BY <1>1, <1>2, <1>3, DepthAssumption DEF Chains, LinkedUp

LEMMA ChainIs ==
    ASSUME NEW p, NEW n \in 1 .. MaxClimbDepth + 1, NEW c \in [1 .. n -> Positions],
           c[1] = p, LinkedUp(c), Cardinality({c[k] : k \in DOMAIN c}) = n
    PROVE  c \in Chains(p) /\ Len(c) = n
    <1>1. n \in Nat /\ Len(c) = n /\ c \in Seq(Positions)
      BY DepthAssumption
    <1>2. Head(c) = p
      BY <1>1
    <1>3. c \in BoundedSeq(Positions, MaxClimbDepth + 1)
      BY <1>1, DepthAssumption DEF BoundedSeq, SeqOf
    <1> QED
      BY <1>1, <1>2, <1>3 DEF Chains, LinkedUp

\* A chain never comes back to a position.
LEMMA ChainIsInjective ==
    ASSUME NEW p, NEW c \in Chains(p), NEW i \in DOMAIN c, NEW k \in DOMAIN c, c[i] = c[k]
    PROVE  i = k
    <1> DEFINE n == Len(c)
               seen == {c[l] : l \in DOMAIN c}
    <1>1. n \in Nat /\ n >= 1 /\ DOMAIN c = 1 .. n /\ Cardinality(seen) = n
      BY ChainShape, DepthAssumption
    <1>2. c \in [1 .. n -> seen] /\ \A s \in seen : \E l \in 1 .. n : c[l] = s
      BY <1>1, ChainShape
    <1>3. c \in Surjection(1 .. n, seen)
      BY <1>2 DEF Surjection
    <1> HIDE DEF n, seen
    <1>4. IsFiniteSet(1 .. n) /\ Cardinality(1 .. n) = n
      BY <1>1, FS_Interval
    <1>5. c \in Injection(1 .. n, seen)
      BY <1>1, <1>3, <1>4, FS_Surjection
    <1> QED
      BY <1>1, <1>5 DEF Injection, IsInjective

\* Where the climb ends, its chain is the longest.
LEMMA ClimbIsLongest ==
    ASSUME TypeOK, device # None, NEW c \in Chains(anchor[device]), Follows(c),
           ~MayClimb(depth) \/ NextParent(node, visited) = None,
           NEW o \in Chains(anchor[device])
    PROVE  Len(o) <= Len(c)
    <1> DEFINE n == Len(c)
    <1>1. /\ n \in Nat /\ n >= 1 /\ DOMAIN c = 1 .. n
          /\ Len(o) \in Nat /\ Len(o) <= MaxClimbDepth + 1 /\ DOMAIN o = 1 .. Len(o)
      <2>1. n \in Nat /\ n >= 1 /\ DOMAIN c = 1 .. n
        BY ChainShape
      <2>2. Len(o) \in Nat /\ Len(o) <= MaxClimbDepth + 1 /\ DOMAIN o = 1 .. Len(o)
        BY ChainShape
      <2> QED
        BY <2>1, <2>2
    <1> SUFFICES ASSUME Len(o) > n PROVE FALSE
      BY <1>1
    <1>2. /\ n = depth + 1 /\ node = c[n] /\ visited = {c[l] : l \in 1 .. n}
          /\ \A l \in DOMAIN c \cap DOMAIN o : c[l] = o[l]
      BY <1>1 DEF Follows, Agree
    <1> HIDE DEF n
    <1>3. \A l \in 1 .. n : c[l] = o[l]
      BY <1>1, <1>2
    <1>4. /\ index[o[n]].parentAsset = o[n + 1] /\ o[n + 1] \in Known
          /\ \A l \in 1 .. n : o[n + 1] # o[l]
      <2>1. LinkedUp(o)
        BY ChainShape
      <2>2. n \in 1 .. Len(o) - 1 /\ n + 1 \in DOMAIN o /\ 1 .. n \subseteq DOMAIN o
        BY <1>1
      <2>3. ASSUME NEW l \in 1 .. n PROVE o[n + 1] # o[l]
        <3>1. l # n + 1 /\ l \in DOMAIN o
          BY <1>1, <2>2
        <3> QED
          BY <2>2, <3>1, ChainIsInjective
      <2> QED
        BY <2>1, <2>2, <2>3 DEF LinkedUp
    <1>5. index[node].parentAsset = o[n + 1] /\ o[n + 1] \notin visited
      BY <1>1, <1>2, <1>3, <1>4
    <1>6. NextParent(node, visited) = o[n + 1] /\ o[n + 1] # None
      BY <1>4, <1>5, PositionsAssumption DEF NextParent, Known
    <1>7. MayClimb(depth)
      BY <1>1, <1>2, DepthAssumption DEF MayClimb, TypeOK
    <1> QED
      BY <1>6, <1>7

\* The last room of the chain is the chain at the greatest room index.
LEMMA LastIsMax ==
    ASSUME NEW p, NEW c \in Chains(p), NEW k \in DOMAIN c, IsRoom(c[k]),
           \A l \in DOMAIN c : l > k => ~IsRoom(c[l])
    PROVE  Max({l \in DOMAIN c : IsRoom(c[l])}) = k
    <1> DEFINE inRoom == {l \in DOMAIN c : IsRoom(c[l])}
    <1>1. DOMAIN c \subseteq Nat
      BY ChainShape, DepthAssumption
    <1>2. k \in inRoom /\ inRoom \subseteq Nat /\ \A l \in inRoom : k >= l
      BY <1>1
    <1> HIDE DEF inRoom
    <1>3. \A m \in inRoom : (\A l \in inRoom : m >= l) => m = k
      BY <1>2
    <1> QED
      BY <1>2, <1>3 DEF Max, inRoom

LEMMA EndOfChain ==
    ASSUME TypeOK, device # None, NEW c \in Chains(anchor[device]), Follows(c),
           ~MayClimb(depth) \/ NextParent(node, visited) = None
    PROVE  RoomAbove(anchor[device]) = IF topmost = None THEN NO_ROOM_NO_PARENT ELSE topmost
    <1> DEFINE p == anchor[device]
               chain == CHOOSE b \in Chains(p) : \A other \in Chains(p) : Len(other) <= Len(b)
               inRoom == {k \in DOMAIN c : IsRoom(c[k])}
    <1>1. \A o \in Chains(p) : Len(o) <= Len(c)
      BY ClimbIsLongest
    <1>2. chain \in Chains(p) /\ Len(chain) = Len(c)
      <2>1. chain \in Chains(p) /\ \A other \in Chains(p) : Len(other) <= Len(chain)
        BY <1>1
      <2> HIDE DEF chain
      <2>2. Len(chain) \in Int /\ Len(c) \in Int
        BY <2>1, ChainShape
      <2> QED
        BY <1>1, <2>1, <2>2
    <1>3. chain = c
      <2>1. /\ c \in [1 .. Len(c) -> Positions] /\ chain \in [1 .. Len(c) -> Positions]
            /\ \A k \in DOMAIN c \cap DOMAIN chain : c[k] = chain[k]
        BY <1>2, ChainShape DEF Follows, Agree
      <2> HIDE DEF chain
      <2> QED
        BY <2>1
    <1>4. RoomAbove(p) = IF inRoom = {} THEN NO_ROOM_NO_PARENT ELSE c[Max(inRoom)]
      <2> DEFINE theirs == {k \in DOMAIN chain : IsRoom(chain[k])}
      <2>1. RoomAbove(p) = IF Chains(p) = {} THEN NO_ROOM_NO_POSITION
                           ELSE IF theirs = {} THEN NO_ROOM_NO_PARENT ELSE chain[Max(theirs)]
        BY Zenon DEF RoomAbove
      <2>2. theirs = inRoom
        BY <1>3
      <2> HIDE DEF theirs, inRoom, chain
      <2> QED
        BY <1>3, <2>1, <2>2
    <1>5. \A k \in DOMAIN c : c[k] # None
      <2>1. c \in [1 .. Len(c) -> Positions]
        BY ChainShape
      <2> QED
        BY <2>1, PositionsAssumption
    <1>6. CASE topmost = None
      <2>1. inRoom = {}
        BY <1>5, <1>6 DEF Follows, LastRoom
      <2> QED
        BY <1>4, <1>6, <2>1
    <1>7. CASE topmost # None
      <2>1. PICK k \in DOMAIN c : /\ topmost = c[k] /\ IsRoom(c[k])
                                 /\ \A l \in DOMAIN c : l > k => ~IsRoom(c[l])
        BY <1>7 DEF Follows, LastRoom
      <2>2. Max(inRoom) = k /\ inRoom # {}
        BY <2>1, LastIsMax
      <2> QED
        BY <1>4, <1>7, <2>1, <2>2
    <1> QED
      BY <1>6, <1>7

LEMMA SameAbove == index' = index => Above' = Above
    <1> SUFFICES ASSUME index' = index PROVE Above' = Above
      OBVIOUS
    <1>1. Known' = Known
      BY DEF Known
    <1>2. ASSUME NEW p PROVE Chains(p)' = Chains(p)
      BY <1>1 DEF Chains
    <1>3. ASSUME NEW p PROVE RoomAbove(p)' = RoomAbove(p)
      <2> DEFINE chain == CHOOSE c \in Chains(p) :
                              \A other \in Chains(p) : Len(other) <= Len(c)
                 inRoom == {k \in DOMAIN chain : IsRoom(chain[k])}
                 room == IF Chains(p) = {} THEN NO_ROOM_NO_POSITION
                         ELSE IF inRoom = {} THEN NO_ROOM_NO_PARENT ELSE chain[Max(inRoom)]
      <2>1. RoomAbove(p) = room /\ RoomAbove(p)' = room'
        BY Zenon DEF RoomAbove
      <2>2. Chains(p)' = Chains(p)
        BY <1>2
      <2>3. chain' = chain
        BY <2>2
      <2>4. inRoom' = inRoom
        <3> HIDE DEF chain
        <3> QED
          BY <2>3 DEF IsRoom
      <2> HIDE DEF chain, inRoom
      <2> QED
        BY <2>1, <2>2, <2>3, <2>4
    <1> QED
      BY <1>3 DEF Above

LEMMA InitChain == Init => ChainInv /\ RoomsInv
    BY DEF Init, NoClimb, ChainInv, RoomsInv

\* A room that is the position's is the right answer for the device.
LEMMA AnswerIsAbove ==
    ASSUME TypeOK, RoomsInv, NEW d \in Devices, NEW room, room = RoomAbove(anchor[d]),
           Answer(d, room), UNCHANGED input
    PROVE  RoomsInv'
    <1>1. anchor[d] \in Positions \cup {None} /\ anchor' = anchor
      BY DEF TypeOK, input
    <1>2. Above' = Above /\ room = Above[anchor[d]]
      BY <1>1, SameAbove DEF Above, input
    <1>3. \A p \in Positions \cup {None} :
             cache'[p] = IF p = anchor[d] THEN room ELSE cache[p]
      BY <1>1 DEF Answer, TypeOK
    <1>4. \A e \in Devices : rooms'[e] = IF e = d THEN room ELSE rooms[e]
      BY DEF Answer, TypeOK
    <1> QED
      BY <1>1, <1>2, <1>3, <1>4 DEF RoomsInv

\* A climb starts with the chain of its first position alone.
LEMMA StartFollows ==
    ASSUME TypeOK, NEW d \in Devices, StartClimb(d)
    PROVE  ChainInv'
    <1>1. PICK p : p = anchor[d]
      OBVIOUS
    <1>2. PICK c : c = <<p>>
      OBVIOUS
    <1>3. p \in Known /\ p \in Positions
      BY <1>1 DEF StartClimb, Known
    <1>4. c \in [1 .. 1 -> Positions] /\ c[1] = p /\ DOMAIN c = 1 .. 1 /\ Len(c) = 1
      BY <1>2, <1>3
    <1>5. {c[k] : k \in DOMAIN c} = {p}
      BY <1>4
    <1>6. LinkedUp(c) /\ Cardinality({c[k] : k \in DOMAIN c}) = 1
      <2>1. LinkedUp(c)
        BY <1>3, <1>4 DEF LinkedUp
      <2> QED
        BY <1>5, <2>1, FS_Singleton
    <1>7. c \in Chains(p)
      <2>1. 1 \in 1 .. MaxClimbDepth + 1
        BY DepthAssumption
      <2> QED
        BY <1>4, <1>6, <2>1, ChainIs
    <1>8. \A o \in Chains(p) : Agree(c, o)
      <2>1. \A o \in Chains(p) : o[1] = p
        BY ChainShape
      <2> QED
        BY <1>4, <2>1 DEF Agree
    <1>9. /\ index' = index /\ anchor' = anchor /\ device' = d /\ depth' = 0
          /\ node' = p /\ visited' = {p} /\ topmost' = IF IsRoom(p) THEN p ELSE None
      BY <1>1 DEF StartClimb, input, Seen
    <1>10. anchor'[device'] = p
      BY <1>1, <1>9
    <1>11. Chains(anchor[device])' = Chains(p)
      BY <1>9, <1>10 DEF Chains, Known
    <1>12. LastRoom(c, topmost)'
      BY <1>4, <1>9 DEF LastRoom, IsRoom
    <1>13. (\A o \in Chains(anchor[device]) : Agree(c, o))'
      BY <1>8, <1>11 DEF Agree
    <1>14. /\ visited' = {c[k] : k \in DOMAIN c} /\ node' = c[Len(c)] /\ Len(c) = depth' + 1
      BY <1>4, <1>5, <1>9
    <1>15. Follows(c)'
      BY <1>12, <1>13, <1>14 DEF Follows
    <1> QED
      BY <1>7, <1>11, <1>15 DEF ChainInv

\* A link up makes the chain longer by the parent.
LEMMA ClimbFollows ==
    ASSUME IInv, ChainInv, Climb
    PROVE  ChainInv'
    <1>1. PICK parent : parent = NextParent(node, visited)
      OBVIOUS
    <1>2. /\ parent \in Known \ visited /\ parent \in Positions /\ parent = index[node].parentAsset
          /\ visited' = visited \cup {parent} /\ node' = parent
          /\ topmost' = IF IsRoom(parent) THEN parent ELSE topmost
          /\ depth' = depth + 1 /\ depth < MaxClimbDepth /\ device # None
          /\ index' = index /\ anchor' = anchor /\ device' = device
      BY <1>1 DEF Climb, NextParent, Known, MayClimb, input, Seen
    <1>3. PICK p : p = anchor[device]
      OBVIOUS
    <1>4. PICK c \in Chains(p) : Follows(c)
      BY <1>2, <1>3 DEF ChainInv
    <1>5. PICK n : n = depth + 1
      OBVIOUS
    <1>6. /\ n \in 1 .. MaxClimbDepth /\ n + 1 \in 1 .. MaxClimbDepth + 1
          /\ n \in Nat /\ n >= 1 /\ depth' + 1 = n + 1
      BY <1>2, <1>5, DepthAssumption DEF IInv, TypeOK
    <1>7. /\ Len(c) = n /\ c \in [1 .. n -> Positions] /\ DOMAIN c = 1 .. n
          /\ c[1] = p /\ c[n] = node /\ visited = {c[k] : k \in 1 .. n}
          /\ LinkedUp(c) /\ LastRoom(c, topmost)
          /\ \A o \in Chains(p) : Agree(c, o)
      BY <1>3, <1>4, <1>5, ChainShape DEF Follows
    <1>8. PICK b : b = [k \in 1 .. n + 1 |-> IF k = n + 1 THEN parent ELSE c[k]]
      OBVIOUS
    <1>9. /\ b \in [1 .. n + 1 -> Positions] /\ DOMAIN b = 1 .. n + 1
          /\ b[n + 1] = parent /\ \A k \in 1 .. n : b[k] = c[k]
      BY <1>2, <1>6, <1>7, <1>8
    <1>10. {b[k] : k \in DOMAIN b} = visited \cup {parent}
      BY <1>6, <1>7, <1>9
    <1>11. Cardinality(visited \cup {parent}) = n + 1
      <2>1. IsFiniteSet(visited)
        BY PositionsAssumption, FS_Subset DEF IInv, TypeOK
      <2>2. Cardinality(visited) = n
        BY <1>2, <1>5 DEF IInv, ClimbInv
      <2> QED
        BY <1>2, <2>1, <2>2, FS_AddElement
    <1>12. Len(b) = n + 1
      BY <1>6, <1>9
    <1>13. LinkedUp(b)
      <2>1. \A k \in DOMAIN b : b[k] \in Known
        BY <1>2, <1>6, <1>7, <1>9 DEF LinkedUp
      <2>2. ASSUME NEW k \in 1 .. Len(b) - 1 PROVE index[b[k]].parentAsset = b[k + 1]
        <3>1. k \in 1 .. n
          BY <1>6, <1>12
        <3>2. CASE k = n
          BY <1>2, <1>7, <1>9, <3>1, <3>2
        <3>3. CASE k # n
          <4>1. k \in 1 .. n - 1 /\ k + 1 \in 1 .. n
            BY <1>6, <3>1, <3>3
          <4> QED
            BY <1>7, <1>9, <3>1, <4>1 DEF LinkedUp
        <3> QED
          BY <3>2, <3>3
      <2> QED
        BY <2>1, <2>2 DEF LinkedUp
    <1>14. b \in Chains(p)
      <2>1. 1 \in 1 .. n /\ b[1] = p
        BY <1>6, <1>7, <1>9
      <2>2. Cardinality({b[k] : k \in DOMAIN b}) = n + 1
        BY <1>10, <1>11
      <2> QED
        BY <1>6, <1>9, <1>13, <2>1, <2>2, ChainIs
    <1>15. \A o \in Chains(p) : Agree(b, o)
      <2> SUFFICES ASSUME NEW o \in Chains(p), NEW k \in DOMAIN b \cap DOMAIN o
                   PROVE  b[k] = o[k]
        BY DEF Agree
      <2>1. Agree(c, o) /\ Len(o) \in Nat /\ DOMAIN o = 1 .. Len(o) /\ LinkedUp(o)
        BY <1>7, ChainShape
      <2>2. CASE k \in 1 .. n
        BY <1>7, <1>9, <2>1, <2>2 DEF Agree
      <2>3. CASE k = n + 1
        <3>1. n \in 1 .. n /\ n \in 1 .. Len(o) - 1
          BY <1>6, <2>1, <2>3
        <3>2. o[n] = node
          BY <1>6, <1>7, <2>1, <3>1 DEF Agree
        <3>3. index[o[n]].parentAsset = o[n + 1]
          BY <2>1, <3>1 DEF LinkedUp
        <3> QED
          BY <1>2, <1>9, <2>3, <3>2, <3>3
      <2> QED
        BY <1>6, <1>9, <2>2, <2>3
    <1>16. LastRoom(b, topmost')
      <2>1. CASE IsRoom(parent)
        <3>1. n + 1 \in DOMAIN b /\ \A l \in DOMAIN b : ~(l > n + 1)
          BY <1>6, <1>9
        <3> QED
          BY <1>2, <1>9, <2>1, <3>1 DEF LastRoom
      <2>2. CASE ~IsRoom(parent)
        <3>1. \A l \in DOMAIN b : (l \in DOMAIN c /\ b[l] = c[l]) \/ b[l] = parent
          BY <1>6, <1>7, <1>9
        <3>2. \A l \in DOMAIN c : l \in DOMAIN b /\ b[l] = c[l]
          BY <1>6, <1>7, <1>9
        <3>3. topmost' = topmost
          BY <1>2, <2>2
        <3>4. CASE topmost = None /\ \A k \in DOMAIN c : ~IsRoom(c[k])
          BY <2>2, <3>1, <3>3, <3>4 DEF LastRoom
        <3>5. CASE \E k \in DOMAIN c : /\ topmost = c[k] /\ IsRoom(c[k])
                                      /\ \A l \in DOMAIN c : l > k => ~IsRoom(c[l])
          <4>1. PICK k \in DOMAIN c : /\ topmost = c[k] /\ IsRoom(c[k])
                                     /\ \A l \in DOMAIN c : l > k => ~IsRoom(c[l])
            BY <3>5
          <4>2. k \in DOMAIN b /\ topmost' = b[k] /\ IsRoom(b[k])
            BY <3>2, <3>3, <4>1
          <4>3. \A l \in DOMAIN b : l > k => ~IsRoom(b[l])
            BY <2>2, <3>1, <4>1
          <4> QED
            BY <4>2, <4>3 DEF LastRoom
        <3> QED
          BY <1>7, <3>4, <3>5 DEF LastRoom
      <2> QED
        BY <2>1, <2>2
    <1>17. anchor'[device'] = p
      BY <1>2, <1>3
    <1>18. Chains(anchor[device])' = Chains(p)
      BY <1>2, <1>17 DEF Chains, Known
    <1>19. LastRoom(b, topmost)'
      BY <1>2, <1>16 DEF LastRoom, IsRoom
    <1>20. (\A o \in Chains(anchor[device]) : Agree(b, o))'
      BY <1>15, <1>18 DEF Agree
    <1>21. Follows(b)'
      BY <1>2, <1>6, <1>9, <1>10, <1>12, <1>19, <1>20 DEF Follows
    <1> QED
      BY <1>14, <1>18, <1>21 DEF ChainInv

LEMMA NextChain == ChainIInv /\ [Next]_vars => ChainInv' /\ RoomsInv'
    <1> SUFFICES ASSUME IInv, ChainInv, RoomsInv, [Next]_vars PROVE ChainInv' /\ RoomsInv'
      BY DEF ChainIInv
    <1>1. TypeOK
      BY DEF IInv
    <1>2. ASSUME UNCHANGED <<index, anchor, device, node, visited, depth, topmost>> PROVE ChainInv'
      <2>1. Chains(anchor[device])' = Chains(anchor[device])
        BY <1>2 DEF Chains, Known
      <2>2. ASSUME NEW c, Follows(c) PROVE Follows(c)'
        <3>1. LastRoom(c, topmost)'
          BY <1>2, <2>2 DEF Follows, LastRoom, IsRoom
        <3>2. (\A o \in Chains(anchor[device]) : Agree(c, o))'
          BY <2>1, <2>2 DEF Follows, Agree
        <3> QED
          BY <1>2, <2>2, <3>1, <3>2 DEF Follows
      <2> QED
        BY <1>2, <2>1, <2>2 DEF ChainInv
    <1>3. ASSUME UNCHANGED <<index, anchor, rooms, cache>> PROVE RoomsInv'
      BY <1>3, SameAbove DEF RoomsInv
    <1>4. ASSUME NEW d \in Devices, ResolveCached(d) PROVE ChainInv' /\ RoomsInv'
      <2>1. anchor[d] \in Positions \cup {None}
        BY <1>1 DEF TypeOK
      <2>2. cache[anchor[d]] = RoomAbove(anchor[d])
        BY <1>4, <2>1 DEF ResolveCached, RoomsInv, Above
      <2> QED
        BY <1>1, <1>2, <1>4, <2>2, AnswerIsAbove DEF ResolveCached, input, climb
    <1>5. ASSUME NEW d \in Devices, ResolveUnknown(d) PROVE ChainInv' /\ RoomsInv'
      <2>1. ASSUME NEW c \in Chains(anchor[d]) PROVE FALSE
        <3>1. LinkedUp(c) /\ Len(c) \in Nat /\ Len(c) >= 1 /\ DOMAIN c = 1 .. Len(c)
              /\ c[1] = anchor[d]
          BY ChainShape
        <3>2. 1 \in DOMAIN c
          BY <3>1
        <3> QED
          BY <1>5, <3>1, <3>2 DEF LinkedUp, ResolveUnknown
      <2>2. RoomAbove(anchor[d]) = NO_ROOM_NO_POSITION
        BY <2>1 DEF RoomAbove
      <2> QED
        BY <1>1, <1>2, <1>5, <2>2, AnswerIsAbove DEF ResolveUnknown, input, climb
    <1>6. ASSUME NEW d \in Devices, StartClimb(d) PROVE ChainInv' /\ RoomsInv'
      BY <1>1, <1>3, <1>6, StartFollows DEF StartClimb, input
    <1>7. CASE Climb
      BY <1>3, <1>7, ClimbFollows DEF Climb, input
    <1>8. CASE EndClimb
      <2>1. device # None /\ device \in Devices /\ device' = None
            /\ (~MayClimb(depth) \/ NextParent(node, visited) = None)
        BY <1>1, <1>8 DEF EndClimb, TypeOK
      <2>2. PICK c \in Chains(anchor[device]) : Follows(c)
        BY <2>1 DEF ChainInv
      <2>3. RoomAbove(anchor[device]) = IF topmost = None THEN NO_ROOM_NO_PARENT ELSE topmost
        BY <1>1, <2>1, <2>2, EndOfChain
      <2>4. RoomsInv'
        BY <1>1, <1>8, <2>1, <2>3, AnswerIsAbove DEF EndClimb
      <2> QED
        BY <2>1, <2>4 DEF ChainInv
    <1>9. CASE UNCHANGED vars
      BY <1>2, <1>3, <1>9 DEF vars, input, climb
    <1> QED
      BY <1>4, <1>5, <1>6, <1>7, <1>8, <1>9 DEF Next

(* Every device gets the topmost room on its chain of positions, or the    *)
(* sentinel that says why there is none: for every index, every depth      *)
(* limit, and whether resolve_one climbed or answered from its memo.       *)
THEOREM RoomOfEveryDevice == Spec => []RoomIsTopmost
    <1>1. Spec => []ChainIInv
      BY InitIInv, NextIInv, InitChain, NextChain, PTL DEF Spec, ChainIInv
    <1>2. ChainIInv => RoomIsTopmost
      BY DEF ChainIInv, IInv, TypeOK, RoomsInv, Above, RoomIsTopmost
    <1> QED
      BY <1>1, <1>2, PTL

-----------------------------------------------------------------------------
(* Resolving comes to an end.                                              *)

\* How many links a climb can still follow; before it, all and its start.
Remaining ==
    IF device = None THEN Cardinality(Known) + 1 ELSE Cardinality(Known) - Cardinality(visited)

\* A climb is for a device that has no room yet.
ClimbsForUnresolved == device # None => rooms[device] = None

Resolves(d) == rooms[d] = None /\ rooms'[d] # None

Progress ==
    /\ Remaining \in Nat
    /\ \A d \in Devices : rooms[d] # None => rooms'[d] = rooms[d]
    /\ (\E d \in Devices : Resolves(d)) \/ Remaining' < Remaining

LEMMA KnownIsFinite == IsFiniteSet(Known) /\ Cardinality(Known) \in Nat
    BY PositionsAssumption, FS_Subset, FS_CardinalityType DEF Known

LEMMA RemainingIs ==
    ASSUME IInv
    PROVE  Remaining \in Nat
    <1>1. CASE device = None
      BY <1>1, KnownIsFinite DEF Remaining
    <1>2. CASE device # None
      <2>1. visited \subseteq Known
        BY <1>2 DEF IInv, ClimbInv
      <2>2. Cardinality(visited) \in Nat /\ Cardinality(visited) <= Cardinality(Known)
        BY <2>1, KnownIsFinite, FS_Subset, FS_CardinalityType
      <2> QED
        BY <1>2, <2>2, KnownIsFinite DEF Remaining
    <1> QED
      BY <1>1, <1>2

\* The device that gets an answer had none, and nobody else's is touched.
LEMMA AnswerIsProgress ==
    ASSUME IInv, NEW d \in Devices, rooms[d] = None, NEW room \in Answers, Answer(d, room)
    PROVE  Progress
    <1>1. room # None
      BY SentinelsAssumption, PositionsAssumption DEF Answers
    <1>2. \A e \in Devices : rooms'[e] = IF e = d THEN room ELSE rooms[e]
      BY DEF IInv, TypeOK, Answer
    <1> QED
      BY <1>1, <1>2, RemainingIs DEF Progress, Resolves

LEMMA NextProgress == IInv /\ IInv' /\ ClimbsForUnresolved /\ Next => Progress
    <1> SUFFICES ASSUME IInv, IInv', ClimbsForUnresolved, Next PROVE Progress
      OBVIOUS
    <1>1. ASSUME NEW d \in Devices, ResolveCached(d) PROVE Progress
      <2>1. cache[anchor[d]] \in Answers
        BY <1>1 DEF ResolveCached, IInv, TypeOK
      <2> QED
        BY <1>1, <2>1, AnswerIsProgress DEF ResolveCached, Waiting
    <1>2. ASSUME NEW d \in Devices, ResolveUnknown(d) PROVE Progress
      <2>1. NO_ROOM_NO_POSITION \in Answers
        BY DEF Answers, Sentinels
      <2> QED
        BY <1>2, <2>1, AnswerIsProgress DEF ResolveUnknown, Waiting
    <1>3. ASSUME NEW d \in Devices, StartClimb(d) PROVE Progress
      <2>1. device = None /\ device' = d /\ visited' = {anchor[d]} /\ index' = index /\ rooms' = rooms
        BY <1>3 DEF StartClimb, Waiting, input
      <2>2. Cardinality(visited') = 1 /\ Known' = Known
        BY <2>1, FS_Singleton DEF Known
      <2>3. d # None
        BY PositionsAssumption
      <2>4. Remaining' = Cardinality(Known) - 1 /\ Remaining = Cardinality(Known) + 1
        BY <2>1, <2>2, <2>3 DEF Remaining
      <2> QED
        BY <2>1, <2>4, RemainingIs, KnownIsFinite DEF Progress
    <1>4. CASE Climb
      <2>1. /\ device # None /\ device' = device /\ depth' = depth + 1
            /\ index' = index /\ rooms' = rooms
        BY <1>4 DEF Climb, input
      <2>2. Cardinality(visited) = depth + 1 /\ Cardinality(visited') = depth + 1 + 1 /\ depth \in Nat
        BY <2>1, DepthAssumption DEF IInv, ClimbInv, TypeOK
      <2>3. Remaining = Cardinality(Known) - (depth + 1)
            /\ Remaining' = Cardinality(Known) - (depth + 1 + 1)
        BY <2>1, <2>2 DEF Remaining, Known
      <2> QED
        BY <2>1, <2>2, <2>3, RemainingIs, KnownIsFinite DEF Progress
    <1>5. CASE EndClimb
      <2> DEFINE room == IF topmost = None THEN NO_ROOM_NO_PARENT ELSE topmost
      <2>1. device \in Devices /\ rooms[device] = None /\ Answer(device, room) /\ room \in Answers
        BY <1>5 DEF EndClimb, ClimbsForUnresolved, IInv, TypeOK, Answers, Sentinels
      <2> QED
        BY <2>1, AnswerIsProgress
    <1> QED
      BY <1>1, <1>2, <1>3, <1>4, <1>5 DEF Next

LEMMA NextUnresolved == IInv /\ ClimbsForUnresolved /\ [Next]_vars => ClimbsForUnresolved'
    <1> SUFFICES ASSUME IInv, ClimbsForUnresolved, [Next]_vars PROVE ClimbsForUnresolved'
      OBVIOUS
    <1>1. CASE Climb \/ UNCHANGED vars
      BY <1>1 DEF Climb, vars, climb, ClimbsForUnresolved
    <1>2. CASE EndClimb
      BY <1>2 DEF EndClimb, ClimbsForUnresolved
    <1>3. ASSUME NEW d \in Devices, ResolveCached(d) \/ ResolveUnknown(d) \/ StartClimb(d)
          PROVE  ClimbsForUnresolved'
      BY <1>3 DEF ResolveCached, ResolveUnknown, StartClimb, Waiting, climb, ClimbsForUnresolved
    <1> QED
      BY <1>1, <1>2, <1>3 DEF Next

(* An answer is final, and every step either gives a device its answer or  *)
(* takes a climb nearer to its end, cycles or not: _resolve_rooms cannot   *)
(* go on for ever, and does not need MAX_CLIMB_DEPTH for that.             *)
THEOREM ResolvingEnds == Spec => [][Progress]_vars
    <1>1. Init => ClimbsForUnresolved
      BY DEF Init, NoClimb, ClimbsForUnresolved
    <1>2. Spec => [](IInv /\ ClimbsForUnresolved)
      BY <1>1, NextUnresolved, SpecIInv, PTL DEF Spec
    <1> QED
      BY <1>2, NextProgress, PTL DEF Spec
=============================================================================
