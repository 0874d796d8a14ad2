----------------------------- MODULE MCOciProxy -----------------------------
(* TLC instances of OciProxy.                                               *)
EXTENDS OciProxy, TLC
Symmetry == Permutations(Procs)
=============================================================================
