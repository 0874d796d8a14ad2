-------------------------- MODULE StorageController --------------------------
(***************************************************************************)
(* The storage controller (internal/storage/controller.go): one byte       *)
(* budget shared by every repository of the server.  A cache write or a     *)
(* private upload reserves its declared size before it creates a file,      *)
(* turns the reservation into committed usage once the file is in place,    *)
(* and releases it otherwise; garbage collection reports what it removed.   *)
(* Every method runs under Controller.mu, so each one is one action.        *)
(*                                                                         *)
(* Holders are the handlers that may hold a *Reservation.  A reservation    *)
(* is its size and whether its sync.Once has fired; a holder that has none  *)
(* is one whose Once has fired.                                             *)
(***************************************************************************)
EXTENDS ByteSum

CONSTANTS
  Holders,          \* the requests that may hold a reservation
  MaxBytes,         \* storage.max_bytes, 0 when there is no byte budget
  MinFreeBytes,     \* storage.min_free_bytes, 0 when there is no headroom
  HighBasisPoints,  \* the high watermark in 1/10000 of MaxBytes
  LowBasisPoints,   \* the low watermark in 1/10000 of MaxBytes
  MaxInt,           \* math.MaxInt64
  Sizes,            \* the byte counts callers pass
  FreeReadings      \* the values a read of the filesystem's free bytes returns

ASSUME HoldersAssumption == IsFiniteSet(Holders)
ASSUME WidthAssumption == MaxInt \in Nat \ {0}
ASSUME LimitsAssumption ==
  /\ MaxBytes \in 0..MaxInt
  /\ MinFreeBytes \in 0..MaxInt
  /\ HighBasisPoints \in 0..10000
  /\ LowBasisPoints \in 0..HighBasisPoints
ASSUME InputsAssumption ==
  /\ Sizes \subseteq 0..MaxInt
  /\ FreeReadings \subseteq 0..MaxInt

VARIABLES
  committedBytes,   \* bytes of stored objects
  reservedBytes,    \* bytes promised to writes in flight
  reservation,      \* each holder's reservation
  bypassObjects,    \* responses passed on without being cached
  bypassBytes       \* their bytes, where known

ledger == <<committedBytes, reservedBytes, reservation>>
bypassCounters == <<bypassObjects, bypassBytes>>
controllerVars == <<committedBytes, reservedBytes, reservation, bypassObjects, bypassBytes>>

Min(a, b) == IF a <= b THEN a ELSE b
Max(a, b) == IF a >= b THEN a ELSE b

(* The server builds a controller only when one of the limits is set.       *)
HasController == MaxBytes > 0 \/ MinFreeBytes > 0

-----------------------------------------------------------------------------
(* Arithmetic helpers.                                                      *)

saturatingAdd(left, right) ==
  IF right > 0 /\ left > MaxInt - right THEN MaxInt ELSE left + right

exceedsAvailable(limit, used, requested) ==
  limit < 0 \/ used > limit \/ requested > limit - used

scaleBasisPoints(value, basisPoints) ==
  (value \div 10000) * basisPoints + ((value % 10000) * basisPoints) \div 10000

-----------------------------------------------------------------------------
(* Reservations.                                                            *)

SpentReservation == [bytes |-> 0, done |-> TRUE]

(* What a holder's reservation still holds of reservedBytes.                *)
Outstanding == [h \in Holders |-> IF reservation[h].done THEN 0 ELSE reservation[h].bytes]

(* Mutant: the budget test forgets the downloads in flight.                 *)
CommittedOnly == committedBytes

budgetUsed == saturatingAdd(committedBytes, reservedBytes)

(* Mutant: the reading is used as it is, without what is promised already.  *)
IgnoresReservations(free) == free

availableFilesystem(free) == free - Min(reservedBytes, free)

(* Reserve(bytes, free) returns nil.                                        *)
Refused(bytes, free) ==
  \/ bytes <= 0
  \/ MaxBytes > 0 /\ exceedsAvailable(MaxBytes, budgetUsed, bytes)
  \/ MinFreeBytes > 0 /\ exceedsAvailable(availableFilesystem(free), MinFreeBytes, bytes)

CountBypass(bytes) ==
  /\ bypassObjects' = saturatingAdd(bypassObjects, 1)
  /\ bypassBytes' = IF bytes > 0 THEN saturatingAdd(bypassBytes, bytes) ELSE bypassBytes

RecordBypass(bytes) == CountBypass(bytes) /\ UNCHANGED ledger

ReserveRefused(h, bytes, free) ==
  /\ HasController
  /\ reservation[h].done
  /\ Refused(bytes, free)
  /\ RecordBypass(bytes)

ReserveGranted(h, bytes, free) ==
  /\ HasController
  /\ reservation[h].done
  /\ ~Refused(bytes, free)
  /\ reservedBytes' = saturatingAdd(reservedBytes, bytes)
  /\ reservation' = [reservation EXCEPT ![h] = [bytes |-> bytes, done |-> FALSE]]
  /\ UNCHANGED <<committedBytes, bypassCounters>>

(* The reservation's Once fires: it leaves reservedBytes.                   *)
Settle(h) ==
  /\ reservedBytes' = reservedBytes - reservation[h].bytes
  /\ reservation' = [reservation EXCEPT ![h].done = TRUE]

(* Commit(actual, replaced) on a reservation whose Once has not fired       *)
(* returns true.                                                            *)
CommitAccepted(h, actual, replaced) ==
  /\ actual <= reservation[h].bytes
  /\ replaced <= committedBytes

Commit(h, actual, replaced) ==
  /\ ~reservation[h].done
  /\ Settle(h)
  /\ committedBytes' = IF CommitAccepted(h, actual, replaced)
                       THEN saturatingAdd(committedBytes - replaced, actual)
                       ELSE committedBytes
  /\ UNCHANGED bypassCounters

(* Mutant: Release without the Once.                                        *)
ReleaseWithoutOnce(h) == Settle(h) /\ UNCHANGED <<committedBytes, bypassCounters>>

(* The deferred Release: it finds the Once fired after a Commit.            *)
Release(h) ==
  /\ IF reservation[h].done THEN UNCHANGED ledger
                            ELSE Settle(h) /\ UNCHANGED committedBytes
  /\ UNCHANGED bypassCounters

(* Collection reports removed bytes.                                        *)
Remove(bytes) ==
  /\ committedBytes' = Max(committedBytes - bytes, 0)
  /\ UNCHANGED <<reservedBytes, reservation, bypassCounters>>

(* What Snapshot derives from the counters.                                 *)
HighBytes == scaleBasisPoints(MaxBytes, HighBasisPoints)
LowBytes == scaleBasisPoints(MaxBytes, LowBasisPoints)
Pressure == MaxBytes > 0 /\ budgetUsed >= HighBytes

-----------------------------------------------------------------------------
(* NewController: the committed bytes are those found on disk, which may    *)
(* exceed a budget that was lowered between two runs of the server.         *)
ControllerInit ==
  /\ committedBytes \in Sizes
  /\ reservedBytes = 0
  /\ reservation = [h \in Holders |-> SpentReservation]
  /\ bypassObjects = 0
  /\ bypassBytes = 0

(* A Content-Length of -1 is an upload whose length is not known.           *)
Requests == Sizes \cup {-1}

ControllerNext ==
  \/ \E h \in Holders, b \in Requests, free \in FreeReadings :
        ReserveGranted(h, b, free) \/ ReserveRefused(h, b, free)
  \/ \E h \in Holders, actual, replaced \in Sizes : Commit(h, actual, replaced)
  \/ \E h \in Holders : Release(h)
  \/ \E b \in Sizes : Remove(b)
  \/ \E b \in Sizes : RecordBypass(b)

ControllerSpec == ControllerInit /\ [][ControllerNext]_controllerVars

-----------------------------------------------------------------------------
Reservations == [bytes : 0..MaxInt, done : BOOLEAN]

(* Every counter of the controller stays a non-negative int64, whatever the *)
(* callers pass to Commit and Remove (controller.go:53-121).                *)
ControllerTypeOK ==
  /\ committedBytes \in 0..MaxInt
  /\ reservedBytes \in 0..MaxInt
  /\ reservation \in [Holders -> Reservations]
  /\ bypassObjects \in 0..MaxInt
  /\ bypassBytes \in 0..MaxInt

(* reservedBytes is exactly the sum of the reservations that are neither    *)
(* committed nor released: Commit followed by the deferred Release gives    *)
(* back no byte twice, and no addition in Reserve ever saturates            *)
(* (controller.go:67, 90, 106).                                             *)
ReservedIsOutstanding == reservedBytes = Total(Holders, Outstanding)

(* With a byte budget, no step takes committed plus reserved bytes above    *)
(* max_bytes: parallel reservations cannot overbook the budget together, a  *)
(* commit adds no more than its reservation held, and the usage found over  *)
(* the budget at startup can only shrink (controller.go:57-68, 90-95).      *)
UsageGrowsWithinBudget ==
  [][ MaxBytes > 0 /\ committedBytes' + reservedBytes' > committedBytes + reservedBytes
        => committedBytes' + reservedBytes' <= MaxBytes ]_controllerVars
=============================================================================
