---------------------------- MODULE MCCacheStore ----------------------------
(* TLC instances of CacheStore.                                             *)
EXTENDS CacheStore, TLC
CONSTANTS s1, s2, k1, k2
OneStore == k1 :> s1
MCSizes == 1..2
MCFreeReadings == {8}
(* The bypass counters feed back into nothing.                              *)
Observed == <<ledger, disk, mu, activeTemps, counters, writer, crashes>>
Symmetry == Permutations(Gens) \cup Permutations(Holders)
=============================================================================
