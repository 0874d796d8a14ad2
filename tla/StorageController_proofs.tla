----------------------- MODULE StorageController_proofs -----------------------
(***************************************************************************)
(* Proofs about the storage controller, for every budget, headroom, int    *)
(* width and number of concurrent holders.  The inductive invariant is the  *)
(* type invariant together with ReservedIsOutstanding: the first needs the  *)
(* second (a release may only subtract what is there), the second needs the *)
(* admission test (the sum must not saturate).                              *)
(***************************************************************************)
EXTENDS StorageController, FiniteSetTheorems, TLAPS

(***************************************************************************)
(* The laws of Total, the sum of byte counts, that accounting rests on.    *)
(***************************************************************************)

(***************************************************************************)
(* A finite sum of natural numbers is a natural number.                    *)
(***************************************************************************)
LEMMA TotalType ==
  ASSUME NEW S, IsFiniteSet(S), NEW f, \A x \in S : f[x] \in Nat
  PROVE  /\ IsFiniteSet(Slots(S, f))
         /\ Total(S, f) \in Nat
<1> DEFINE Col(x) == {x} \X (1..f[x])
<1>1. IsFiniteSet({Col(x) : x \in S})
  <2> DEFINE T == {Col(x) : x \in S}
             c == [x \in S |-> Col(x)]
  <2>1. c \in Surjection(S, T)
    BY DEF Surjection
  <2> HIDE DEF c, T
  <2>2. IsFiniteSet(T)
    BY <2>1, FS_Surjection
  <2> QED
    BY <2>2 DEF T
<1>2. ASSUME NEW x \in S PROVE IsFiniteSet(Col(x))
  <2>1. IsFiniteSet({x})
    BY FS_Singleton
  <2>2. f[x] \in Nat
    OBVIOUS
  <2>3. IsFiniteSet(1..f[x])
    BY <2>2, FS_Interval
  <2> QED
    BY <2>1, <2>3, FS_Product
<1>3. IsFiniteSet(UNION {Col(x) : x \in S})
  <2>1. \A T \in {Col(x) : x \in S} : IsFiniteSet(T)
    BY <1>2
  <2> QED
    BY <1>1, <2>1, FS_UNION
<1>4. IsFiniteSet(Slots(S, f))
  BY <1>3 DEF Slots
<1> QED
  BY <1>4, FS_CardinalityType DEF Total

(***************************************************************************)
(* Splitting one index off a sum.                                          *)
(***************************************************************************)
LEMMA TotalSplit ==
  ASSUME NEW S, IsFiniteSet(S), NEW f, \A x \in S : f[x] \in Nat, NEW y \in S
  PROVE  Total(S, f) = Total(S \ {y}, f) + f[y]
<1> DEFINE Y == {y} \X (1..f[y])
           R == Slots(S \ {y}, f)
<1>1. IsFiniteSet(S \ {y})
  BY FS_Difference
<1>2. IsFiniteSet(R) /\ Cardinality(R) \in Nat
  <2>1. \A x \in S \ {y} : f[x] \in Nat
    OBVIOUS
  <2> QED
    BY <1>1, <2>1, TotalType DEF Total
<1>3. f[y] \in Nat
  OBVIOUS
<1>4. IsFiniteSet(Y) /\ Cardinality(Y) = f[y]
  <2>1. IsFiniteSet({y}) /\ Cardinality({y}) = 1
    BY FS_Singleton
  <2>2. IsFiniteSet(1..f[y]) /\ Cardinality(1..f[y]) = f[y]
    <3>1. /\ IsFiniteSet(1..f[y])
          /\ Cardinality(1..f[y]) = IF 1 > f[y] THEN 0 ELSE f[y] - 1 + 1
      BY <1>3, FS_Interval
    <3> QED
      BY <1>3, <3>1
  <2> HIDE DEF Y
  <2>3. IsFiniteSet(Y) /\ Cardinality(Y) = 1 * f[y]
    BY <2>1, <2>2, FS_Product DEF Y
  <2> QED
    BY <2>3, <1>3
<1>5. Slots(S, f) = R \cup Y
  BY Zenon DEF Slots
<1>6. R \cap Y = {}
  BY DEF Slots
<1> HIDE DEF R, Y
<1>7. Cardinality(R \cup Y) = Cardinality(R) + Cardinality(Y) - Cardinality(R \cap Y)
  BY <1>2, <1>4, FS_Union
<1>8. Cardinality(R \cap Y) = 0
  BY <1>6, FS_EmptySet
<1>9. Total(S, f) = Cardinality(R) + f[y]
  BY <1>2, <1>3, <1>4, <1>5, <1>7, <1>8 DEF Total
<1> QED
  BY <1>9 DEF Total, R

(***************************************************************************)
(* Two functions that agree on S have the same sum over S.                 *)
(***************************************************************************)
LEMMA TotalEqual ==
  ASSUME NEW S, NEW f, NEW g, \A x \in S : f[x] = g[x]
  PROVE  Total(S, f) = Total(S, g)
<1>1. Slots(S, f) = Slots(S, g)
  BY DEF Slots
<1> QED
  BY <1>1 DEF Total

(***************************************************************************)
(* Changing one term changes the sum by the difference.                    *)
(***************************************************************************)
LEMMA TotalUpdate ==
  ASSUME NEW S, IsFiniteSet(S), NEW f, NEW g, NEW y \in S,
         \A x \in S : f[x] \in Nat,
         \A x \in S : g[x] \in Nat,
         \A x \in S \ {y} : f[x] = g[x]
  PROVE  Total(S, g) = Total(S, f) - f[y] + g[y]
<1>1. Total(S \ {y}, f) = Total(S \ {y}, g)
  BY TotalEqual
<1>2. Total(S, f) = Total(S \ {y}, f) + f[y]
  BY TotalSplit
<1>3. Total(S, g) = Total(S \ {y}, g) + g[y]
  BY TotalSplit
<1>4. IsFiniteSet(S \ {y})
  BY FS_Difference
<1>5. \A x \in S \ {y} : f[x] \in Nat
  OBVIOUS
<1>6. Total(S \ {y}, f) \in Nat
  BY <1>4, <1>5, TotalType
<1>7. f[y] \in Nat /\ g[y] \in Nat
  OBVIOUS
<1> QED
  BY <1>1, <1>2, <1>3, <1>6, <1>7

(***************************************************************************)
(* No term exceeds the sum.                                                *)
(***************************************************************************)
LEMMA TotalBoundsTerm ==
  ASSUME NEW S, IsFiniteSet(S), NEW f, \A x \in S : f[x] \in Nat, NEW y \in S
  PROVE  f[y] <= Total(S, f)
<1>1. Total(S, f) = Total(S \ {y}, f) + f[y]
  BY TotalSplit
<1>2. IsFiniteSet(S \ {y})
  BY FS_Difference
<1>3. \A x \in S \ {y} : f[x] \in Nat
  OBVIOUS
<1>4. Total(S \ {y}, f) \in Nat
  BY <1>2, <1>3, TotalType
<1> QED
  BY <1>1, <1>4

(***************************************************************************)
(* A sum of zeros is zero.                                                 *)
(***************************************************************************)
LEMMA TotalZero ==
  ASSUME NEW S, NEW f, \A x \in S : f[x] = 0
  PROVE  Total(S, f) = 0
<1>1. Slots(S, f) = {}
  BY DEF Slots
<1> QED
  BY <1>1, FS_EmptySet DEF Total

(***************************************************************************)
(* Larger terms have a larger sum.                                         *)
(***************************************************************************)
LEMMA TotalMonotone ==
  ASSUME NEW S, IsFiniteSet(S), NEW f, NEW g,
         \A x \in S : f[x] \in Nat /\ g[x] \in Nat /\ f[x] <= g[x]
  PROVE  Total(S, f) <= Total(S, g)
<1>1. Slots(S, f) \subseteq Slots(S, g)
  <2> SUFFICES ASSUME NEW x \in S, NEW i \in 1..f[x] PROVE i \in 1..g[x]
    BY DEF Slots
  <2> QED
    OBVIOUS
<1>2. IsFiniteSet(Slots(S, g))
  BY TotalType
<1> QED
  BY <1>1, <1>2, FS_Subset DEF Total

-----------------------------------------------------------------------------
(* The controller.                                                          *)

ControllerInv == ControllerTypeOK /\ ReservedIsOutstanding

(***************************************************************************)
(* A saturating sum of two counters is a counter, and it is the sum         *)
(* whenever the sum fits.                                                   *)
(***************************************************************************)
LEMMA SaturatingAddType ==
  ASSUME NEW a \in 0..MaxInt, NEW b \in 0..MaxInt
  PROVE  /\ saturatingAdd(a, b) \in 0..MaxInt
         /\ a + b <= MaxInt => saturatingAdd(a, b) = a + b
         /\ a + b > MaxInt => saturatingAdd(a, b) = MaxInt
  BY WidthAssumption DEF saturatingAdd

(***************************************************************************)
(* The admission test of Reserve leaves room for the request: the new       *)
(* reservation fits an int64, and fits the budget when there is one.        *)
(***************************************************************************)
LEMMA GrantFits ==
  ASSUME ControllerTypeOK, HasController,
         NEW b \in -1..MaxInt, NEW free \in 0..MaxInt, ~Refused(b, free)
  PROVE  /\ b > 0
         /\ reservedBytes + b <= MaxInt
         /\ MaxBytes > 0 => committedBytes + reservedBytes + b <= MaxBytes
<1> USE WidthAssumption, LimitsAssumption DEF ControllerTypeOK
<1>1. b > 0
  BY DEF Refused
<1>2. CASE MaxBytes > 0
  <2>1. ~exceedsAvailable(MaxBytes, budgetUsed, b)
    BY <1>2 DEF Refused
  <2>2. budgetUsed \in 0..MaxInt /\ budgetUsed + b <= MaxBytes
    BY <2>1, SaturatingAddType DEF exceedsAvailable, budgetUsed
  <2>3. budgetUsed = committedBytes + reservedBytes
    <3>1. budgetUsed < MaxInt
      BY <1>1, <2>2
    <3> QED
      BY <3>1, SaturatingAddType DEF budgetUsed
  <2> QED
    BY <1>1, <2>2, <2>3
<1>3. CASE MaxBytes = 0
  <2>1. MinFreeBytes > 0
    BY <1>3 DEF HasController
  <2>2. ~exceedsAvailable(availableFilesystem(free), MinFreeBytes, b)
    BY <2>1 DEF Refused
  <2>3. MinFreeBytes + b <= availableFilesystem(free)
    BY <2>2 DEF exceedsAvailable, availableFilesystem, Min
  <2>4. availableFilesystem(free) = free - reservedBytes
    BY <2>1, <2>3, <1>1 DEF availableFilesystem, Min
  <2> QED
    BY <1>1, <1>3, <2>1, <2>3, <2>4
<1> QED
  BY <1>2, <1>3

(***************************************************************************)
(* The outstanding bytes of every holder are natural numbers, and no        *)
(* holder's exceed reservedBytes.                                           *)
(***************************************************************************)
LEMMA OutstandingFacts ==
  ASSUME ControllerInv
  PROVE  /\ \A h \in Holders : Outstanding[h] \in Nat
         /\ \A h \in Holders : Outstanding[h] <= reservedBytes
<1>1. \A h \in Holders : Outstanding[h] \in Nat
  BY WidthAssumption DEF ControllerInv, ControllerTypeOK, Reservations, Outstanding
<1>2. \A h \in Holders : Outstanding[h] <= Total(Holders, Outstanding)
  BY <1>1, HoldersAssumption, TotalBoundsTerm
<1> QED
  BY <1>1, <1>2 DEF ControllerInv, ReservedIsOutstanding

(***************************************************************************)
(* A step that changes the outstanding bytes of one holder h, and           *)
(* reservedBytes by the same amount, keeps reservedBytes the sum.           *)
(***************************************************************************)
LEMMA LedgerStep ==
  ASSUME ControllerInv, NEW h \in Holders, NEW n \in Nat,
         \A x \in Holders : Outstanding'[x] = IF x = h THEN n ELSE Outstanding[x],
         reservedBytes' = reservedBytes - Outstanding[h] + n
  PROVE  ReservedIsOutstanding'
<1>1. \A x \in Holders : Outstanding[x] \in Nat
  BY OutstandingFacts
<1>2. \A x \in Holders : Outstanding'[x] \in Nat
  BY <1>1
<1>3. \A x \in Holders \ {h} : Outstanding[x] = Outstanding'[x]
  OBVIOUS
<1>4. Total(Holders, Outstanding') = Total(Holders, Outstanding) - Outstanding[h] + Outstanding'[h]
  BY <1>1, <1>2, <1>3, HoldersAssumption, TotalUpdate
<1> QED
  BY <1>4 DEF ControllerInv, ReservedIsOutstanding

(***************************************************************************)
(* Firing a reservation's Once preserves both halves of the invariant on    *)
(* reservedBytes and the reservations.                                      *)
(***************************************************************************)
LEMMA SettleStep ==
  ASSUME ControllerInv, NEW h \in Holders, ~reservation[h].done, Settle(h)
  PROVE  /\ ReservedIsOutstanding'
         /\ reservedBytes' \in 0..MaxInt
         /\ reservation' \in [Holders -> Reservations]
         /\ reservedBytes' = reservedBytes - reservation[h].bytes
<1>1. Outstanding[h] = reservation[h].bytes
  BY DEF Outstanding
<1>2. reservation[h].bytes \in 0..MaxInt /\ reservation[h].bytes <= reservedBytes
  BY <1>1, OutstandingFacts DEF ControllerInv, ControllerTypeOK, Reservations
<1>3. reservation' \in [Holders -> Reservations]
  BY DEF Settle, ControllerInv, ControllerTypeOK, Reservations
<1>4. reservedBytes' \in 0..MaxInt
  BY <1>2, WidthAssumption DEF Settle, ControllerInv, ControllerTypeOK
<1>5. \A x \in Holders : Outstanding'[x] = IF x = h THEN 0 ELSE Outstanding[x]
  BY DEF Settle, Outstanding, ControllerInv, ControllerTypeOK, Reservations
<1>6. reservedBytes' = reservedBytes - Outstanding[h] + 0
  BY <1>1, <1>2 DEF Settle, ControllerInv, ControllerTypeOK
<1>7. ReservedIsOutstanding'
  BY <1>5, <1>6, LedgerStep
<1> QED
  BY <1>3, <1>4, <1>7 DEF Settle

(***************************************************************************)
(* A step that leaves the reservations alone keeps the sum.                 *)
(***************************************************************************)
LEMMA LedgerStutter ==
  ASSUME ReservedIsOutstanding, reservedBytes' = reservedBytes, reservation' = reservation
  PROVE  ReservedIsOutstanding'
<1>1. Outstanding' = Outstanding
  BY DEF Outstanding
<1> QED
  BY <1>1 DEF ReservedIsOutstanding

(***************************************************************************)
(* Counting a bypassed response keeps the bypass counters int64.            *)
(***************************************************************************)
LEMMA CountBypassType ==
  ASSUME ControllerTypeOK, NEW b \in -1..MaxInt, CountBypass(b)
  PROVE  bypassObjects' \in 0..MaxInt /\ bypassBytes' \in 0..MaxInt
<1>1. 1 \in 0..MaxInt
  BY WidthAssumption
<1> QED
  BY <1>1, SaturatingAddType DEF CountBypass, ControllerTypeOK

(***************************************************************************)
(* The initial state satisfies the invariant.                               *)
(***************************************************************************)
LEMMA ControllerInitInv == ControllerInit => ControllerInv
<1> SUFFICES ASSUME ControllerInit PROVE ControllerInv
  OBVIOUS
<1>1. ControllerTypeOK
  BY WidthAssumption, InputsAssumption
     DEF ControllerInit, ControllerTypeOK, Reservations, SpentReservation
<1>2. \A h \in Holders : Outstanding[h] = 0
  BY DEF ControllerInit, Outstanding, SpentReservation
<1>3. Total(Holders, Outstanding) = 0
  BY <1>2, TotalZero
<1> QED
  BY <1>1, <1>3 DEF ControllerInv, ReservedIsOutstanding, ControllerInit

(***************************************************************************)
(* Each method preserves the invariant, for any argument an int64 can hold. *)
(* The modules that compose the controller with its callers cite these.     *)
(***************************************************************************)
LEMMA ReserveGrantedInv ==
  ASSUME ControllerInv, NEW h \in Holders, NEW b \in -1..MaxInt, NEW free \in 0..MaxInt,
         ReserveGranted(h, b, free)
  PROVE  /\ ControllerInv'
         /\ b > 0 /\ reservedBytes' = reservedBytes + b
<1>1. b \in 1..MaxInt /\ reservedBytes + b <= MaxInt
  BY GrantFits, WidthAssumption DEF ReserveGranted, ControllerInv
<1>2. reservedBytes' = reservedBytes + b
  BY <1>1, SaturatingAddType, WidthAssumption DEF ReserveGranted, ControllerInv, ControllerTypeOK
<1>3. Outstanding[h] = 0
  BY DEF ReserveGranted, Outstanding
<1>4. \A x \in Holders : Outstanding'[x] = IF x = h THEN b ELSE Outstanding[x]
  BY DEF ReserveGranted, Outstanding, ControllerInv, ControllerTypeOK
<1>5. ReservedIsOutstanding'
  <2>1. reservedBytes' = reservedBytes - Outstanding[h] + b
    BY <1>1, <1>2, <1>3 DEF ControllerInv, ControllerTypeOK
  <2>2. b \in Nat
    BY <1>1
  <2> QED
    BY <1>4, <2>1, <2>2, LedgerStep
<1>6. ControllerTypeOK'
  BY <1>1, <1>2, WidthAssumption
     DEF ReserveGranted, ControllerInv, ControllerTypeOK, Reservations, bypassCounters
<1> QED
  BY <1>1, <1>2, <1>5, <1>6 DEF ControllerInv

LEMMA RecordBypassInv ==
  ASSUME ControllerInv, NEW b \in -1..MaxInt, RecordBypass(b)
  PROVE  ControllerInv'
<1>1. ReservedIsOutstanding'
  BY LedgerStutter DEF RecordBypass, ledger, ControllerInv
<1>2. ControllerTypeOK'
  BY CountBypassType DEF RecordBypass, ledger, ControllerInv, ControllerTypeOK
<1> QED
  BY <1>1, <1>2 DEF ControllerInv

LEMMA CommitInv ==
  ASSUME ControllerInv, NEW h \in Holders, NEW actual \in 0..MaxInt, NEW replaced \in Nat,
         Commit(h, actual, replaced)
  PROVE  /\ ControllerInv'
         /\ reservation[h].bytes \in 0..reservedBytes
         /\ reservedBytes' = reservedBytes - reservation[h].bytes
<1>1. /\ ReservedIsOutstanding'
      /\ reservedBytes' \in 0..MaxInt
      /\ reservation' \in [Holders -> Reservations]
      /\ reservedBytes' = reservedBytes - reservation[h].bytes
  BY SettleStep DEF Commit
<1>2. committedBytes' \in 0..MaxInt
  <2>1. CASE CommitAccepted(h, actual, replaced)
    <3>1. committedBytes - replaced \in 0..MaxInt
      BY <2>1, WidthAssumption DEF CommitAccepted, ControllerInv, ControllerTypeOK
    <3>2. committedBytes' = saturatingAdd(committedBytes - replaced, actual)
      BY <2>1 DEF Commit
    <3> QED
      BY <3>1, <3>2, SaturatingAddType
  <2>2. CASE ~CommitAccepted(h, actual, replaced)
    BY <2>2 DEF Commit, ControllerInv, ControllerTypeOK
  <2> QED
    BY <2>1, <2>2
<1>3. reservation[h].bytes \in 0..reservedBytes
  BY <1>1, WidthAssumption DEF ControllerInv, ControllerTypeOK, Reservations
<1> QED
  BY <1>1, <1>2, <1>3 DEF Commit, bypassCounters, ControllerInv, ControllerTypeOK

LEMMA ReleaseInv ==
  ASSUME ControllerInv, NEW h \in Holders, Release(h)
  PROVE  ControllerInv' /\ reservedBytes' <= reservedBytes
<1>1. CASE reservation[h].done
  BY <1>1, LedgerStutter, WidthAssumption
     DEF Release, ledger, bypassCounters, ControllerInv, ControllerTypeOK
<1>2. CASE ~reservation[h].done
  <2>1. /\ ReservedIsOutstanding'
        /\ reservedBytes' \in 0..MaxInt
        /\ reservation' \in [Holders -> Reservations]
        /\ reservedBytes' = reservedBytes - reservation[h].bytes
    BY <1>2, SettleStep DEF Release
  <2>2. ControllerInv'
    BY <1>2, <2>1 DEF Release, bypassCounters, ControllerInv, ControllerTypeOK
  <2>3. reservation[h].bytes \in 0..MaxInt /\ reservedBytes \in 0..MaxInt
    BY DEF ControllerInv, ControllerTypeOK, Reservations
  <2> QED
    BY <2>1, <2>2, <2>3, WidthAssumption
<1> QED
  BY <1>1, <1>2

LEMMA RemoveInv ==
  ASSUME ControllerInv, NEW b \in Nat, Remove(b)
  PROVE  ControllerInv'
<1>1. ReservedIsOutstanding'
  BY LedgerStutter DEF Remove, ControllerInv
<1>2. ControllerTypeOK'
  BY WidthAssumption DEF Remove, Max, bypassCounters, ControllerInv, ControllerTypeOK
<1> QED
  BY <1>1, <1>2 DEF ControllerInv

(* A server that starts again: NewController.                               *)
LEMMA FreshLedgerInv ==
  ASSUME committedBytes' \in 0..MaxInt, reservedBytes' = 0,
         reservation' = [h \in Holders |-> SpentReservation],
         bypassObjects' = 0, bypassBytes' = 0
  PROVE  ControllerInv'
<1>1. ControllerTypeOK'
  BY WidthAssumption DEF ControllerTypeOK, Reservations, SpentReservation
<1>2. \A h \in Holders : Outstanding'[h] = 0
  BY DEF Outstanding, SpentReservation
<1>3. Total(Holders, Outstanding') = 0
  BY <1>2, TotalZero
<1> QED
  BY <1>1, <1>3 DEF ControllerInv, ReservedIsOutstanding

LEMMA ControllerStutter ==
  ASSUME ControllerInv, UNCHANGED controllerVars
  PROVE  ControllerInv'
  BY LedgerStutter DEF controllerVars, ControllerInv, ControllerTypeOK

(***************************************************************************)
(* Every step of the controller preserves the invariant.                    *)
(***************************************************************************)
LEMMA ControllerStepInv ==
  ControllerInv /\ [ControllerNext]_controllerVars => ControllerInv'
<1> SUFFICES ASSUME ControllerInv, [ControllerNext]_controllerVars
             PROVE  ControllerInv'
  OBVIOUS
<1>1. /\ Requests \subseteq -1..MaxInt
      /\ FreeReadings \subseteq 0..MaxInt
      /\ Sizes \subseteq 0..MaxInt /\ Sizes \subseteq Nat
  BY InputsAssumption, WidthAssumption DEF Requests
<1>2. ASSUME NEW h \in Holders, NEW b \in Requests, NEW free \in FreeReadings,
             ReserveGranted(h, b, free)
      PROVE  ControllerInv'
  BY <1>1, <1>2, ReserveGrantedInv
<1>3. ASSUME NEW b \in Requests, RecordBypass(b)
      PROVE  ControllerInv'
  BY <1>1, <1>3, RecordBypassInv
<1>4. ASSUME NEW h \in Holders, NEW actual \in Sizes, NEW replaced \in Sizes,
             Commit(h, actual, replaced)
      PROVE  ControllerInv'
  BY <1>1, <1>4, CommitInv
<1>5. ASSUME NEW h \in Holders, Release(h)
      PROVE  ControllerInv'
  BY <1>5, ReleaseInv
<1>6. ASSUME NEW b \in Sizes, Remove(b)
      PROVE  ControllerInv'
  BY <1>1, <1>6, RemoveInv
<1> QED
  BY <1>1, <1>2, <1>3, <1>4, <1>5, <1>6, ControllerStutter DEF ControllerNext, ReserveRefused, Requests

(***************************************************************************)
(* The counters stay non-negative int64 values, and reservedBytes is        *)
(* exactly what the live reservations hold: no byte is given back twice     *)
(* (controller.go:53-121).                                                  *)
(***************************************************************************)
THEOREM ReservationsAccounted ==
  ControllerSpec => [](ControllerTypeOK /\ ReservedIsOutstanding)
<1>1. ControllerSpec => []ControllerInv
  BY ControllerInitInv, ControllerStepInv, PTL DEF ControllerSpec
<1> QED
  BY <1>1, PTL DEF ControllerInv

(***************************************************************************)
(* Committed plus reserved bytes never grow past max_bytes, however         *)
(* reservations, commits, releases and collections interleave               *)
(* (controller.go:53-121).                                                  *)
(***************************************************************************)
THEOREM BudgetNeverOverbooked == ControllerSpec => UsageGrowsWithinBudget
<1> DEFINE Growth == MaxBytes > 0 /\ committedBytes' + reservedBytes' > committedBytes + reservedBytes
                       => committedBytes' + reservedBytes' <= MaxBytes
<1>1. ControllerInv /\ [ControllerNext]_controllerVars => [Growth]_controllerVars
  <2> SUFFICES ASSUME ControllerInv, ControllerNext, MaxBytes > 0,
                      committedBytes' + reservedBytes' > committedBytes + reservedBytes
               PROVE  committedBytes' + reservedBytes' <= MaxBytes
    OBVIOUS
  <2> USE InputsAssumption, WidthAssumption, LimitsAssumption DEF Requests
  <2>1. ASSUME NEW h \in Holders, NEW b \in Requests, NEW free \in FreeReadings,
               ReserveGranted(h, b, free)
        PROVE  committedBytes' + reservedBytes' <= MaxBytes
    <3>1. /\ b \in 1..MaxInt
          /\ reservedBytes + b <= MaxInt
          /\ committedBytes + reservedBytes + b <= MaxBytes
      BY <2>1, GrantFits DEF ReserveGranted, ControllerInv
    <3>2. reservedBytes' = reservedBytes + b
      BY <2>1, <3>1, SaturatingAddType DEF ReserveGranted, ControllerInv, ControllerTypeOK
    <3> QED
      BY <2>1, <3>1, <3>2 DEF ReserveGranted, ControllerInv, ControllerTypeOK
  <2>2. ASSUME NEW b \in Requests, RecordBypass(b)
        PROVE  FALSE
    BY <2>2 DEF RecordBypass, ledger, ControllerInv, ControllerTypeOK
  <2>3. ASSUME NEW h \in Holders, NEW actual \in Sizes, NEW replaced \in Sizes,
               Commit(h, actual, replaced)
        PROVE  FALSE
    <3>1. reservedBytes' = reservedBytes - reservation[h].bytes /\ reservedBytes' \in 0..MaxInt
      BY <2>3, SettleStep DEF Commit
    <3>2. reservation[h].bytes \in 0..MaxInt
      BY DEF ControllerInv, ControllerTypeOK, Reservations
    <3>3. committedBytes' <= committedBytes + reservation[h].bytes
      <4>1. CASE CommitAccepted(h, actual, replaced)
        BY <2>3, <3>2, <4>1
           DEF Commit, CommitAccepted, saturatingAdd, ControllerInv, ControllerTypeOK
      <4>2. CASE ~CommitAccepted(h, actual, replaced)
        BY <2>3, <3>2, <4>2 DEF Commit, ControllerInv, ControllerTypeOK
      <4> QED
        BY <4>1, <4>2
    <3>4. committedBytes' \in Int
      BY <2>3, ControllerStepInv DEF ControllerNext, ControllerInv, ControllerTypeOK
    <3> QED
      BY <3>1, <3>2, <3>3, <3>4 DEF ControllerInv, ControllerTypeOK
  <2>4. ASSUME NEW h \in Holders, Release(h)
        PROVE  FALSE
    <3>1. CASE reservation[h].done
      BY <2>4, <3>1 DEF Release, ledger, ControllerInv, ControllerTypeOK
    <3>2. CASE ~reservation[h].done
      <4>1. reservedBytes' = reservedBytes - reservation[h].bytes /\ committedBytes' = committedBytes
        BY <2>4, <3>2, SettleStep DEF Release
      <4>2. reservation[h].bytes \in 0..MaxInt
        BY DEF ControllerInv, ControllerTypeOK, Reservations
      <4> QED
        BY <4>1, <4>2 DEF ControllerInv, ControllerTypeOK
    <3> QED
      BY <3>1, <3>2
  <2>5. ASSUME NEW b \in Sizes, Remove(b)
        PROVE  FALSE
    BY <2>5 DEF Remove, Max, ControllerInv, ControllerTypeOK
  <2> QED
    BY <2>1, <2>2, <2>3, <2>4, <2>5 DEF ControllerNext, ReserveRefused
<1>2. ControllerSpec => []ControllerInv
  BY ControllerInitInv, ControllerStepInv, PTL DEF ControllerSpec
<1>3. ControllerSpec => [][Growth]_controllerVars
  BY <1>1, <1>2, PTL DEF ControllerSpec
<1> QED
  BY <1>3 DEF UsageGrowsWithinBudget
=============================================================================
