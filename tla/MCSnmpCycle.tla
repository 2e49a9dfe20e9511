---------------------------- MODULE MCSnmpCycle ----------------------------
(* SnmpCycle on one projector and two other devices that hash to different *)
(* shards: a projector and another device in one job with two workers, the *)
(* two others in two shards, one of them in two tiers.                     *)
EXTENDS SnmpCycle, TLC

CONSTANTS d1, d2, d3

ThreeDevices == {d1, d2, d3}
OneProjector == {d1}
Parities == d1 :> 3 @@ d2 :> 4 @@ d3 :> 7

OneJob == [total |-> 1, tiers |-> {ALL}, devices |-> {d1, d2}]
TwoShards == [total |-> 2, tiers |-> {ALL}, devices |-> {d2, d3}]
TwoTiers == [total |-> 1, tiers |-> {"critical", "high"}, devices |-> {d2}]
ThreeDeployments == {OneJob, TwoShards, TwoTiers}
=============================================================================
