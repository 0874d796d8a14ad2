------------------------------- MODULE ByteSum -------------------------------
(***************************************************************************)
(* Sums of byte counts.  Several invariants of n0ding's storage accounting  *)
(* compare a counter with the sum of the sizes it stands for.  The sum is   *)
(* defined as the number of byte slots, one slot per byte, so that what it  *)
(* does under an update follows from facts about finite cardinalities and   *)
(* needs no induction.  MCHeadroom evaluates Total against         *)
(* SumFunctionOnSet of the community module Functions.                      *)
(***************************************************************************)
EXTENDS Integers, FiniteSets

(* One pair <<x, i>> for the i-th byte of x.                                *)
Slots(S, f) == UNION {{x} \X (1..f[x]) : x \in S}

(* The sum of f[x] over the x of the finite set S, for f[x] in Nat.         *)
Total(S, f) == Cardinality(Slots(S, f))
=============================================================================
