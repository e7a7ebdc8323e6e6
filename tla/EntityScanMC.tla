---------------------------- MODULE EntityScanMC ----------------------------
(* Instances of EntityScan for TLC: an entity with a parent and its parent. *)
EXTENDS EntityScan

CONSTANT Count

MCEntities == 1 .. Count
MCParent == [e \in MCEntities |-> IF e = 1 THEN 0 ELSE e - 1]
=============================================================================
