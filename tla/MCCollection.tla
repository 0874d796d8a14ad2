---------------------------- MODULE MCCollection ----------------------------
(* TLC instances of Collection.                                             *)
EXTENDS Collection, TLC
CONSTANTS s1, s2, k1, k2
TwoStores == k1 :> s1 @@ k2 :> s2
OneStore == k1 :> s1
TwoBytes == {2}
OneByte == {1}
MCFreeReadings == {6}
LiveFreeReadings == {5}
(* The bypass counters feed back into nothing.                              *)
Observed == <<ledger, disk, mu, activeTemps, counters, writer, crashes, gc, serving>>
(* Suffixes are interchangeable, and so are the two stores with their keys. *)
Swap == k1 :> k2 @@ k2 :> k1 @@ s1 :> s2 @@ s2 :> s1
Symmetry == {p @@ q : p \in Permutations(Gens), q \in {Swap, k1 :> k1}}
=============================================================================
