----------------------------- MODULE MCHeadroom -----------------------------
(* TLC instances of Headroom over StorageController, and of Total against   *)
(* the sum of the community module Functions.                               *)
EXTENDS Headroom, TLC
F == INSTANCE Functions

(* Total is the sum, on every function from three indices to 0..3.          *)
ASSUME TotalIsSum ==
  \A f \in [{1, 2, 3} -> 0..3] : \A S \in SUBSET {1, 2, 3} :
     Total(S, f) = F!SumFunctionOnSet(f, S)

(* The two-part division of scaleBasisPoints (which keeps the product       *)
(* inside an int64) is the plain scaled value.                              *)
ASSUME ScaleIsExact ==
  \A value \in {0, 1, 3, 9999, 10000, 10001, 25000, 73421} :
    \A points \in {0, 1, 5000, 8500, 9500, 9999, 10000} :
      scaleBasisPoints(value, points) = (value * points) \div 10000

MCSizes == 0..2
MCFreeReadings == 0..4
Symmetry == Permutations(Holders)
=============================================================================
