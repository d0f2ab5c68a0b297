----------------------------- MODULE MCNearCache -----------------------------
(***************************************************************************)
(* Instances of NearCachedClientMapProxy and NearCacheGetAll for TLC.      *)
(***************************************************************************)
EXTENDS NearCacheGetAll

CONSTANTS k1, s1

MCgetSlot == [k \in Keys |-> s1]
=============================================================================
