----------------------------- MODULE MCLandbRun -----------------------------
(* LandbRun on two EAM devices, two serials and two LanDB names, one value *)
(* per request.  The EAM snapshots: both devices with serial and           *)
(* description, a device without a serial, two that share one, one gone,   *)
(* all gone.  LanDB: either device missing, without a serial, with its own *)
(* or the other's serial, without an address, with a blank one, with two.  *)
EXTENDS LandbRun, TLC

CONSTANTS i1, i2, s1, s2, n1, n2, a1, a2

TwoIds == {i1, i2}
TwoSerials == {s1, s2}
TwoNames == {n1, n2}
TwoAddresses == {a1, a2}

Eam(x, y) == (i1 :> x) @@ (i2 :> y)
Item(s, n) == [serial |-> s, description |-> n]

Snapshots == {
    Eam(Item(s1, n1), Item(s2, n2)),
    Eam(Item(s1, n2), Item(None, n1)),
    Eam(Item(s1, n1), Item(s1, None)),
    Eam(Item(s1, n1), NoRow),
    Eam(NoRow, NoRow)}

Dev(s, as) == [serial |-> s, addresses |-> as]
TwentyFiveDirectories ==
    {(n1 :> x) @@ (n2 :> y) :
        x \in {NoRow, Dev(None, {a1}), Dev(s1, {a1}), Dev(s2, {a1}), Dev(s1, {})},
        y \in {NoRow, Dev(None, {a2}), Dev(s1, {a1, a2}), Dev(s2, {a2}), Dev(s2, {None})}}

\* For the run with two faults and liveness, without the two cases nearest
\* to others.
SixteenDirectories ==
    {dir \in TwentyFiveDirectories :
        dir[n1] # Dev(s1, {}) /\ dir[n2] # Dev(None, {a2})}
=============================================================================
