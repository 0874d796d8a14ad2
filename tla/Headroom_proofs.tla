--------------------------- MODULE Headroom_proofs ---------------------------
(***************************************************************************)
(* Proofs about Headroom, for any number of writers, any sizes, limits and  *)
(* free space.  min_free_bytes as such is not inductive: a write in flight  *)
(* lowers the free bytes.  What every step keeps is that the free bytes     *)
(* together with the bytes of the files in flight cover the minimum and all *)
(* that is reserved, and that a reading is no larger than these two unless  *)
(* a reservation ended since whose bytes stay on disk.                      *)
(***************************************************************************)
EXTENDS Headroom, StorageController_proofs

InFlight == Total(Holders, written)

(* No byte comes from nowhere: what is free, stored or in flight fits the   *)
(* filesystem, whose size is an int64.                                      *)
BytesConserved == fsFree + committedBytes + InFlight <= MaxInt

(* A reading that is not outdated.                                          *)
ReadingsCovered ==
  \A h \in Holders : step[h] = "read" /\ ~outdated[h] => freeBytes[h] <= fsFree + InFlight

(* The reservations fit above the minimum, as long as no grant was stale.   *)
HeadroomCovered ==
  MinFreeBytes > 0 /\ ~staleGrant => MinFreeBytes + reservedBytes <= fsFree + InFlight

HeadroomInv ==
  /\ HeadroomTypeOK /\ ReservedIsOutstanding
  /\ BytesConserved /\ ReadingsCovered /\ HeadroomCovered

-----------------------------------------------------------------------------
(* What is in flight is a number of bytes, changes with the file of one     *)
(* writer, and is no more than what is reserved.                            *)
LEMMA InFlightType ==
  ASSUME HeadroomTypeOK
  PROVE  InFlight \in Nat /\ \A h \in Holders : written[h] <= InFlight
<1>1. \A h \in Holders : written[h] \in Nat
  BY WidthAssumption DEF HeadroomTypeOK
<1> QED
  BY <1>1, HoldersAssumption, TotalType, TotalBoundsTerm DEF InFlight

LEMMA InFlightUpdate ==
  ASSUME HeadroomTypeOK, NEW h \in Holders, NEW n \in Nat, written' = [written EXCEPT ![h] = n]
  PROVE  InFlight' = InFlight - written[h] + n
<1> DEFINE g == [written EXCEPT ![h] = n]
<1>1. \A x \in Holders : written[x] \in Nat
  BY WidthAssumption DEF HeadroomTypeOK
<1>2. g[h] = n /\ \A x \in Holders \ {h} : written[x] = g[x]
  BY DEF HeadroomTypeOK
<1>3. InFlight' = Total(Holders, g)
  BY DEF InFlight
<1> HIDE DEF g
<1>4. \A x \in Holders : g[x] \in Nat
  BY <1>1, <1>2
<1>5. Total(Holders, g) = Total(Holders, written) - written[h] + g[h]
  BY <1>1, <1>2, <1>4, HoldersAssumption, TotalUpdate
<1> QED
  BY <1>2, <1>3, <1>5 DEF InFlight

(* A handler drops its file.                                                *)
LEMMA FileGone ==
  ASSUME HeadroomTypeOK, NEW h \in Holders, written' = [written EXCEPT ![h] = 0]
  PROVE  /\ InFlight \in Nat /\ InFlight' = InFlight - written[h]
         /\ written[h] \in 0..MaxInt /\ written[h] <= InFlight
         /\ step[h] \notin {"writing", "leaving"} => InFlight' = InFlight
<1>1. InFlight' = InFlight - written[h] + 0 /\ InFlight \in Nat /\ written[h] <= InFlight
  BY InFlightUpdate, InFlightType
<1>2. written[h] \in 0..MaxInt /\ (step[h] \notin {"writing", "leaving"} => written[h] = 0)
  BY DEF HeadroomTypeOK
<1> QED
  BY <1>1, <1>2

LEMMA InFlightIsReserved ==
  ASSUME HeadroomTypeOK, ReservedIsOutstanding
  PROVE  InFlight <= reservedBytes
<1>1. \A h \in Holders : written[h] \in Nat /\ Outstanding[h] \in Nat /\ written[h] <= Outstanding[h]
  BY WidthAssumption DEF HeadroomTypeOK, ControllerTypeOK, Reservations, Outstanding
<1> QED
  BY <1>1, HoldersAssumption, TotalMonotone DEF InFlight, ReservedIsOutstanding

-----------------------------------------------------------------------------
LEMMA HeadroomInitInv == HeadroomInit => HeadroomInv
<1> SUFFICES ASSUME HeadroomInit PROVE HeadroomInv
  OBVIOUS
<1>1. ControllerInv
  BY ControllerInitInv DEF HeadroomInit
<1>2. fsFree \in 0..MaxInt /\ fsFree >= MinFreeBytes /\ fsFree + committedBytes <= MaxInt
  BY InputsAssumption DEF HeadroomInit
<1>3. HeadroomTypeOK
  <2>1. /\ ControllerTypeOK
        /\ \A h \in Holders : step[h] = "idle" /\ reservation[h].done /\ written[h] = 0
    BY <1>1 DEF HeadroomInit, ControllerInv, ControllerInit, SpentReservation
  <2>2. step \in [Holders -> {"idle", "read", "writing", "leaving", "returning"}]
    BY DEF HeadroomInit
  <2>3. /\ request \in [Holders -> 0..MaxInt] /\ freeBytes \in [Holders -> 0..MaxInt]
        /\ written \in [Holders -> 0..MaxInt]
    BY WidthAssumption DEF HeadroomInit
  <2>4. outdated \in [Holders -> BOOLEAN] /\ staleGrant \in BOOLEAN
    BY DEF HeadroomInit
  <2> QED
    BY <1>2, <2>1, <2>2, <2>3, <2>4 DEF HeadroomTypeOK
<1>4. InFlight = 0
  BY TotalZero DEF HeadroomInit, InFlight
<1>5. BytesConserved
  BY <1>1, <1>2, <1>4 DEF BytesConserved, ControllerInv, ControllerTypeOK
<1>6. ReadingsCovered
  BY DEF HeadroomInit, ReadingsCovered
<1>7. HeadroomCovered
  BY <1>2, <1>4, LimitsAssumption DEF HeadroomInit, ControllerInit, HeadroomCovered
<1> QED
  BY <1>1, <1>3, <1>5, <1>6, <1>7 DEF HeadroomInv, ControllerInv

(* The admission test, on a reading that is not outdated.                   *)
LEMMA AdmitStep ==
  ASSUME HeadroomInv, NEW h \in Holders, Admit(h)
  PROVE  HeadroomInv'
<1> USE DEF HeadroomInv, Admit
<1>1. request[h] \in -1..MaxInt /\ freeBytes[h] \in 0..MaxInt /\ InFlight \in Nat
  BY InFlightType, WidthAssumption DEF HeadroomTypeOK
<1>2. /\ ControllerInv'
      /\ request[h] > 0 /\ reservedBytes' = reservedBytes + request[h]
  BY <1>1, ReserveGrantedInv DEF ControllerInv, HeadroomTypeOK
<1>3. /\ written' = written /\ fsFree' = fsFree /\ freeBytes' = freeBytes /\ request' = request
      /\ committedBytes' = committedBytes
      /\ step' = [step EXCEPT ![h] = "writing"]
      /\ reservation' = [reservation EXCEPT ![h] = [bytes |-> request[h], done |-> FALSE]]
      /\ outdated' = [outdated EXCEPT ![h] = FALSE]
      /\ staleGrant' = (staleGrant \/ outdated[h])
      /\ step[h] = "read"
  BY DEF ReserveGranted
<1>4. InFlight' = InFlight
  BY <1>3 DEF InFlight
<1>5. HeadroomTypeOK'
  BY <1>1, <1>2, <1>3 DEF HeadroomTypeOK, ControllerInv, ControllerTypeOK
<1>6. BytesConserved' /\ ReadingsCovered'
  BY <1>3, <1>4 DEF BytesConserved, ReadingsCovered, HeadroomTypeOK
<1>7. HeadroomCovered'
  <2> SUFFICES ASSUME MinFreeBytes > 0, ~staleGrant, ~outdated[h]
               PROVE  MinFreeBytes + reservedBytes + request[h] <= fsFree + InFlight
    BY <1>1, <1>2, <1>3, <1>4, LimitsAssumption DEF HeadroomCovered, HeadroomTypeOK, ControllerTypeOK
  <2>1. ~exceedsAvailable(availableFilesystem(freeBytes[h]), MinFreeBytes, request[h])
    BY DEF ReserveGranted, Refused
  <2>2. MinFreeBytes + request[h] <= availableFilesystem(freeBytes[h])
    BY <1>1, <2>1, LimitsAssumption, WidthAssumption
       DEF exceedsAvailable, availableFilesystem, Min, HeadroomTypeOK, ControllerTypeOK
  <2>3. availableFilesystem(freeBytes[h]) = freeBytes[h] - reservedBytes
    BY <1>1, <1>2, <2>2, LimitsAssumption, WidthAssumption
       DEF availableFilesystem, Min, HeadroomTypeOK, ControllerTypeOK
  <2>4. freeBytes[h] <= fsFree + InFlight
    BY <1>3 DEF ReadingsCovered
  <2> QED
    BY <1>1, <2>2, <2>3, <2>4, LimitsAssumption, WidthAssumption DEF HeadroomTypeOK, ControllerTypeOK
<1> QED
  BY <1>2, <1>5, <1>6, <1>7 DEF ControllerInv

LEMMA ReadFreeStep ==
  ASSUME HeadroomInv, NEW h \in Holders, NEW size \in Sizes, ReadFree(h, size)
  PROVE  HeadroomInv'
<1> USE DEF HeadroomInv, ReadFree
<1>1. size \in 0..MaxInt /\ InFlight \in Nat /\ InFlight' = InFlight
  BY InFlightType, InputsAssumption DEF InFlight
<1>2. ControllerInv'
  BY ControllerStutter DEF ControllerInv, HeadroomTypeOK
<1>3. HeadroomTypeOK'
  BY <1>1, <1>2 DEF HeadroomTypeOK, ControllerInv, controllerVars
<1>4. ReadingsCovered'
  BY <1>1, WidthAssumption DEF ReadingsCovered, HeadroomTypeOK
<1>5. BytesConserved' /\ HeadroomCovered'
  BY <1>1 DEF BytesConserved, HeadroomCovered, controllerVars
<1> QED
  BY <1>2, <1>3, <1>4, <1>5 DEF ControllerInv

(* A refused writer leaves nothing behind.                                  *)
LEMMA BypassStep ==
  ASSUME HeadroomInv, NEW h \in Holders, Bypass(h)
  PROVE  HeadroomInv'
<1> USE DEF HeadroomInv, Bypass, Return, auxVars
<1>1. InFlight \in Nat /\ InFlight' = InFlight
  BY FileGone
<1>2. ControllerInv'
  <2>1. request[h] \in -1..MaxInt
    BY WidthAssumption DEF HeadroomTypeOK
  <2> QED
    BY <2>1, RecordBypassInv DEF ReserveRefused, ControllerInv, HeadroomTypeOK
<1>3. UNCHANGED ledger
  BY DEF ReserveRefused, RecordBypass
<1>4. HeadroomTypeOK'
  BY <1>2, <1>3, WidthAssumption DEF HeadroomTypeOK, ControllerInv, ledger
<1>5. ReadingsCovered'
  BY <1>1 DEF ReadingsCovered, HeadroomTypeOK
<1>6. BytesConserved' /\ HeadroomCovered'
  BY <1>1, <1>3 DEF BytesConserved, HeadroomCovered, ledger
<1> QED
  BY <1>2, <1>4, <1>5, <1>6 DEF ControllerInv

(* A byte written moves from the free bytes to the file in flight.          *)
LEMMA WriteStep ==
  ASSUME HeadroomInv, NEW h \in Holders, Write(h)
  PROVE  HeadroomInv'
<1> USE DEF HeadroomInv, Write, auxVars
<1>1. written[h] \in Nat /\ written[h] + 1 \in Nat /\ written[h] + 1 <= request[h]
  BY WidthAssumption DEF HeadroomTypeOK
<1>2. InFlight \in Nat /\ InFlight' = InFlight + 1
  <2>1. written' = [written EXCEPT ![h] = written[h] + 1]
    OBVIOUS
  <2>2. InFlight' = InFlight - written[h] + (written[h] + 1)
    BY <1>1, <2>1, InFlightUpdate
  <2> QED
    BY <1>1, <2>2, InFlightType
<1>3. ControllerInv' /\ UNCHANGED ledger
  BY ControllerStutter DEF ControllerInv, HeadroomTypeOK, controllerVars, ledger
<1>4. HeadroomTypeOK'
  BY <1>1, <1>3, WidthAssumption DEF HeadroomTypeOK, ControllerInv, ledger
<1>5. ReadingsCovered'
  BY <1>2, WidthAssumption DEF ReadingsCovered, HeadroomTypeOK
<1>6. BytesConserved' /\ HeadroomCovered'
  BY <1>2, <1>3, WidthAssumption, LimitsAssumption
     DEF BytesConserved, HeadroomCovered, HeadroomTypeOK, ControllerTypeOK, ledger
<1> QED
  BY <1>3, <1>4, <1>5, <1>6 DEF ControllerInv

(* A committed write frees its reservation and takes no more than that from *)
(* the free bytes; whoever has read them already is outdated.               *)
LEMMA KeepStep ==
  ASSUME HeadroomInv, NEW h \in Holders, Keep(h)
  PROVE  HeadroomInv'
<1> USE DEF HeadroomInv, Keep, GiveUpFile, ReadingsOutdated
<1>1. /\ InFlight \in Nat /\ InFlight' = InFlight - written[h]
      /\ written[h] \in 0..MaxInt /\ written[h] <= InFlight
  BY FileGone
<1>8. written[h] <= reservation[h].bytes
  BY DEF HeadroomTypeOK
<1>2. /\ ControllerInv'
      /\ reservation[h].bytes \in 0..reservedBytes
      /\ reservedBytes' = reservedBytes - reservation[h].bytes
  BY <1>1, CommitInv DEF ControllerInv, HeadroomTypeOK
<1>3. committedBytes' = committedBytes + written[h]
  <2>1. CommitAccepted(h, written[h], 0)
    BY <1>8 DEF CommitAccepted, HeadroomTypeOK, ControllerTypeOK
  <2>2. committedBytes' = saturatingAdd(committedBytes, written[h])
    BY <2>1 DEF Commit, HeadroomTypeOK, ControllerTypeOK
  <2>3. committedBytes + written[h] <= MaxInt
    BY <1>1, WidthAssumption DEF BytesConserved, HeadroomTypeOK, ControllerTypeOK
  <2> QED
    BY <1>1, <2>2, <2>3, SaturatingAddType DEF HeadroomTypeOK, ControllerTypeOK
<1>4. reservation' = [reservation EXCEPT ![h].done = TRUE]
  BY DEF Commit, Settle
<1>5. HeadroomTypeOK'
  <2>1. outdated' \in [Holders -> BOOLEAN]
    OBVIOUS
  <2>2. /\ step' \in [Holders -> {"idle", "read", "writing", "leaving", "returning"}]
        /\ written' \in [Holders -> 0..MaxInt]
    BY WidthAssumption DEF HeadroomTypeOK
  <2>3. \A x \in Holders :
          x # h => step'[x] = step[x] /\ written'[x] = written[x] /\ reservation'[x] = reservation[x]
    BY <1>4 DEF HeadroomTypeOK, ControllerTypeOK
  <2>4. step'[h] = "returning" /\ written'[h] = 0
    BY DEF HeadroomTypeOK
  <2> QED
    BY <1>2, <2>1, <2>2, <2>3, <2>4 DEF HeadroomTypeOK, ControllerInv
<1>6. ReadingsCovered'
  BY DEF ReadingsCovered, HeadroomTypeOK
<1>7. BytesConserved' /\ HeadroomCovered'
  BY <1>1, <1>2, <1>3, <1>8, WidthAssumption, LimitsAssumption
     DEF BytesConserved, HeadroomCovered, HeadroomTypeOK, ControllerTypeOK
<1> QED
  BY <1>2, <1>5, <1>6, <1>7 DEF ControllerInv

(* A discarded file gives its bytes back.                                   *)
LEMMA DiscardStep ==
  ASSUME HeadroomInv, NEW h \in Holders, Discard(h)
  PROVE  HeadroomInv'
<1> USE DEF HeadroomInv, Discard, GiveUpFile, auxVars
<1>1. /\ InFlight \in Nat /\ InFlight' = InFlight - written[h]
      /\ written[h] \in 0..MaxInt /\ written[h] <= InFlight
  BY FileGone
<1>2. ControllerInv' /\ UNCHANGED ledger
  BY ControllerStutter DEF ControllerInv, HeadroomTypeOK, controllerVars, ledger
<1>3. fsFree' \in 0..MaxInt
  BY <1>1, WidthAssumption DEF BytesConserved, HeadroomTypeOK, ControllerTypeOK
<1>4. HeadroomTypeOK'
  BY <1>2, <1>3, WidthAssumption DEF HeadroomTypeOK, ControllerInv, ledger
<1>5. ReadingsCovered'
  BY <1>1, WidthAssumption DEF ReadingsCovered, HeadroomTypeOK
<1>6. BytesConserved' /\ HeadroomCovered'
  BY <1>1, <1>2, WidthAssumption, LimitsAssumption
     DEF BytesConserved, HeadroomCovered, HeadroomTypeOK, ControllerTypeOK, ledger
<1> QED
  BY <1>2, <1>4, <1>5, <1>6 DEF ControllerInv

(* A file that could not be removed stays in flight for the ledger until    *)
(* its reservation is released.                                             *)
LEMMA DiscardFailsStep ==
  ASSUME HeadroomInv, NEW h \in Holders, DiscardFails(h)
  PROVE  HeadroomInv'
<1> USE DEF HeadroomInv, DiscardFails, auxVars
<1>1. InFlight' = InFlight
  BY DEF InFlight
<1>2. ControllerInv' /\ UNCHANGED ledger
  BY ControllerStutter DEF ControllerInv, HeadroomTypeOK, controllerVars, ledger
<1>3. HeadroomTypeOK'
  BY <1>2 DEF HeadroomTypeOK, ControllerInv, ledger
<1>4. BytesConserved' /\ ReadingsCovered' /\ HeadroomCovered'
  BY <1>1, <1>2 DEF BytesConserved, ReadingsCovered, HeadroomCovered, HeadroomTypeOK, ledger
<1> QED
  BY <1>2, <1>3, <1>4 DEF ControllerInv

(* Its release takes no more from what is in flight than from what is       *)
(* reserved; whoever has read the free bytes already is outdated.           *)
LEMMA GiveBackLeavingFileStep ==
  ASSUME HeadroomInv, NEW h \in Holders, GiveBackLeavingFile(h)
  PROVE  HeadroomInv'
<1> USE DEF HeadroomInv, GiveBackLeavingFile, Return, ReadingsOutdated
<1>1. /\ InFlight \in Nat /\ InFlight' = InFlight - written[h]
      /\ written[h] \in 0..MaxInt /\ written[h] <= InFlight
  BY FileGone
<1>2. ~reservation[h].done /\ written[h] <= reservation[h].bytes
  BY DEF HeadroomTypeOK
<1>3. /\ ControllerInv'
      /\ reservation[h].bytes \in 0..reservedBytes
      /\ reservedBytes' = reservedBytes - reservation[h].bytes
      /\ committedBytes' = committedBytes
      /\ reservation' = [reservation EXCEPT ![h].done = TRUE]
  <2>1. /\ reservedBytes' = reservedBytes - reservation[h].bytes
        /\ committedBytes' = committedBytes
        /\ reservation' = [reservation EXCEPT ![h].done = TRUE]
    BY <1>2 DEF Release, Settle
  <2>2. ControllerInv' /\ reservedBytes \in Nat /\ reservedBytes' \in Nat
    BY ReleaseInv, WidthAssumption DEF ControllerInv, HeadroomTypeOK, ControllerTypeOK
  <2>3. reservation[h].bytes \in Nat
    BY WidthAssumption DEF HeadroomTypeOK, ControllerTypeOK, Reservations
  <2> QED
    BY <2>1, <2>2, <2>3
<1>4. HeadroomTypeOK'
  <2>1. outdated' \in [Holders -> BOOLEAN]
    OBVIOUS
  <2>2. /\ step' \in [Holders -> {"idle", "read", "writing", "leaving", "returning"}]
        /\ written' \in [Holders -> 0..MaxInt]
        /\ request' \in [Holders -> 0..MaxInt] /\ freeBytes' \in [Holders -> 0..MaxInt]
    BY WidthAssumption DEF HeadroomTypeOK
  <2>3. \A x \in Holders :
          x # h => /\ step'[x] = step[x] /\ written'[x] = written[x]
                   /\ request'[x] = request[x] /\ reservation'[x] = reservation[x]
    BY <1>3 DEF HeadroomTypeOK, ControllerTypeOK
  <2>4. step'[h] = "idle" /\ written'[h] = 0 /\ reservation'[h].done
    BY <1>3 DEF HeadroomTypeOK, ControllerTypeOK, Reservations
  <2> QED
    BY <1>3, <2>1, <2>2, <2>3, <2>4 DEF HeadroomTypeOK, ControllerInv
<1>5. ReadingsCovered'
  BY DEF ReadingsCovered, HeadroomTypeOK
<1>6. BytesConserved' /\ HeadroomCovered'
  BY <1>1, <1>2, <1>3, WidthAssumption, LimitsAssumption
     DEF BytesConserved, HeadroomCovered, HeadroomTypeOK, ControllerTypeOK
<1> QED
  BY <1>3, <1>4, <1>5, <1>6 DEF ControllerInv

LEMMA GiveBackStep ==
  ASSUME HeadroomInv, NEW h \in Holders, GiveBack(h)
  PROVE  HeadroomInv'
<1> USE DEF HeadroomInv, GiveBack, Return, auxVars
<1>1. InFlight \in Nat /\ InFlight' = InFlight
  BY FileGone
<1>2. ControllerInv' /\ reservedBytes' <= reservedBytes /\ committedBytes' = committedBytes
  BY ReleaseInv DEF ControllerInv, HeadroomTypeOK, Release, ledger
<1>3. /\ reservation'[h].done
      /\ \A x \in Holders : x # h => reservation'[x] = reservation[x]
  BY DEF Release, Settle, ledger, HeadroomTypeOK, ControllerTypeOK, Reservations
<1>4. HeadroomTypeOK'
  BY <1>2, <1>3, WidthAssumption DEF HeadroomTypeOK, ControllerInv
<1>5. ReadingsCovered'
  BY <1>1 DEF ReadingsCovered, HeadroomTypeOK
<1>6. BytesConserved' /\ HeadroomCovered'
  <2>1. MinFreeBytes \in Nat /\ reservedBytes \in Nat /\ reservedBytes' \in Nat /\ fsFree \in Nat
    BY <1>2, LimitsAssumption, WidthAssumption DEF ControllerInv, HeadroomTypeOK, ControllerTypeOK
  <2>5. InFlight \in Nat
    BY <1>1
  <2>2. staleGrant' = staleGrant /\ fsFree' = fsFree
    OBVIOUS
  <2>3. BytesConserved'
    BY <1>1, <1>2, <2>2 DEF BytesConserved
  <2>4. ASSUME MinFreeBytes > 0, ~staleGrant
        PROVE  MinFreeBytes + reservedBytes' <= fsFree + InFlight
    <3>1. MinFreeBytes + reservedBytes <= fsFree + InFlight
      BY <2>4 DEF HeadroomCovered
    <3> QED
      <4>1. reservedBytes' <= reservedBytes
        BY <1>2
      <4>2. \A a, b, c, d \in Nat : a + b <= c /\ d <= b => a + d <= c
        OBVIOUS
      <4>3. fsFree + InFlight \in Nat
        BY <2>1, <2>5
      <4> QED
        BY <2>1, <3>1, <4>1, <4>2, <4>3
  <2> QED
    BY <1>1, <2>2, <2>3, <2>4 DEF HeadroomCovered
<1> QED
  BY <1>2, <1>4, <1>5, <1>6 DEF ControllerInv

LEMMA CollectStep ==
  ASSUME HeadroomInv, NEW bytes \in Sizes, Collect(bytes)
  PROVE  HeadroomInv'
<1> USE DEF HeadroomInv, Collect, writerVars, auxVars
<1>1. /\ InFlight \in Nat /\ InFlight' = InFlight
      /\ bytes \in Nat /\ bytes <= committedBytes
  BY InFlightType DEF InFlight, HeadroomTypeOK, ControllerTypeOK
<1>2. ControllerInv'
  BY <1>1, RemoveInv DEF ControllerInv, HeadroomTypeOK
<1>3. /\ committedBytes' = committedBytes - bytes
      /\ reservedBytes' = reservedBytes /\ reservation' = reservation
  BY <1>1, WidthAssumption DEF Remove, Max, HeadroomTypeOK, ControllerTypeOK
<1>4. HeadroomTypeOK'
  BY <1>1, <1>2, <1>3, WidthAssumption
     DEF BytesConserved, HeadroomTypeOK, ControllerInv, ControllerTypeOK
<1>5. ReadingsCovered'
  BY <1>1, WidthAssumption DEF ReadingsCovered, HeadroomTypeOK
<1>6. BytesConserved' /\ HeadroomCovered'
  BY <1>1, <1>3, WidthAssumption, LimitsAssumption
     DEF BytesConserved, HeadroomCovered, HeadroomTypeOK, ControllerTypeOK
<1> QED
  BY <1>2, <1>4, <1>5, <1>6 DEF ControllerInv

LEMMA HeadroomStepInv == HeadroomInv /\ [HeadroomNext]_headroomVars => HeadroomInv'
<1> SUFFICES ASSUME HeadroomInv, [HeadroomNext]_headroomVars PROVE HeadroomInv'
  OBVIOUS
<1>1. CASE UNCHANGED headroomVars
  <2> USE <1>1 DEF headroomVars, HeadroomInv, writerVars, auxVars
  <2>1. ControllerInv' /\ UNCHANGED ledger
    BY ControllerStutter DEF ControllerInv, HeadroomTypeOK, controllerVars, ledger
  <2>2. HeadroomTypeOK'
    BY <2>1 DEF HeadroomTypeOK, ControllerInv, ledger
  <2>3. BytesConserved' /\ ReadingsCovered' /\ HeadroomCovered'
    BY <2>1 DEF BytesConserved, ReadingsCovered, HeadroomCovered, InFlight, ledger
  <2> QED
    BY <2>1, <2>2, <2>3 DEF ControllerInv
<1> QED
  BY <1>1, ReadFreeStep, AdmitStep, BypassStep, WriteStep, KeepStep, DiscardStep, DiscardFailsStep,
     GiveBackStep, GiveBackLeavingFileStep, CollectStep DEF HeadroomNext

-----------------------------------------------------------------------------
(* The ledger and the filesystem agree in every reachable state: the        *)
(* controller's counters stay int64, what is reserved is what the writers   *)
(* still hold, and no file in flight is larger than its reservation         *)
(* (store.go:235-289, controller.go:53-121).                                *)
THEOREM HeadroomLedger == HeadroomSpec => [](HeadroomTypeOK /\ ReservedIsOutstanding)
<1>1. HeadroomSpec => []HeadroomInv
  BY HeadroomInitInv, HeadroomStepInv, PTL DEF HeadroomSpec
<1> QED
  BY <1>1, PTL DEF HeadroomInv

(* However many writers read the free space, are admitted, write, commit    *)
(* and give up in any order, min_free_bytes stay free unless a reservation  *)
(* was granted on a reading taken before another one ended with its bytes   *)
(* on disk: committed, or left in a file whose removal failed               *)
(* (store.go:235-257, 280, controller.go:57-68).                            *)
THEOREM HeadroomOnFreshReadings == HeadroomSpec => []HeadroomKeptOnFreshReadings
<1>1. HeadroomInv => HeadroomKeptOnFreshReadings
  <2> SUFFICES ASSUME HeadroomInv, ~staleGrant PROVE fsFree >= MinFreeBytes
    BY DEF HeadroomKeptOnFreshReadings, HeadroomKept
  <2>1. InFlight <= reservedBytes /\ InFlight \in Nat
    BY InFlightIsReserved, InFlightType DEF HeadroomInv
  <2>2. fsFree \in Nat /\ reservedBytes \in Nat /\ MinFreeBytes \in Nat
    BY LimitsAssumption, WidthAssumption DEF HeadroomInv, HeadroomTypeOK, ControllerTypeOK
  <2>3. MinFreeBytes > 0 => MinFreeBytes + reservedBytes <= fsFree + InFlight
    BY DEF HeadroomInv, HeadroomCovered
  <2> QED
    BY <2>1, <2>2, <2>3
<1>2. HeadroomSpec => []HeadroomInv
  BY HeadroomInitInv, HeadroomStepInv, PTL DEF HeadroomSpec
<1> QED
  BY <1>1, <1>2, PTL
=============================================================================
