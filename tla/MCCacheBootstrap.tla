------------------------- MODULE MCCacheBootstrap -------------------------
(* CacheBootstrap on two jobs that overlap on one table and a third with a *)
(* table of its own, and on a retired table between the two.               *)
EXTENDS CacheBootstrap, TLC

CONSTANTS j1, j2, j3, landb_ipaddresses, landb_location, eam_devices, k1

ThreeTables == <<landb_ipaddresses, landb_location, eam_devices>>
OneRetired == {landb_location}
ThreeJobs == {j1, j2, j3}
TwoOnOne == j1 :> landb_ipaddresses @@ j2 :> landb_ipaddresses @@ j3 :> eam_devices
OneKey == {k1}
=============================================================================
