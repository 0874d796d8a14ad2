------------------------- MODULE Coordinator_proofs -------------------------
(***************************************************************************)
(* Proofs about Coordinator, for any number of operators, ticks and runs.   *)
(***************************************************************************)
EXTENDS Coordinator, TLAPS

Runs == [id : Nat, trigger : Triggers \cup {"none"}, finished : BOOLEAN,
         result : {"zero", "counted"}, error : {"none", "error"}]

(* The types of what Run and Snapshot read and write.                       *)
SlotTypeOK ==
  /\ nextID \in Nat /\ last \in Runs
  /\ current \in Callers \cup {NoOne}
  /\ run \in [Callers -> Runs]
  /\ outcome \in [Callers -> {"none", "error"}]
  /\ pc \in [Callers -> {"idle", "running", "writing", "done"}]

(* The slot belongs to the run that was accepted last and is not recorded   *)
(* yet, or every accepted run is recorded.                                  *)
SlotIsLatest ==
  /\ current = NoOne => last.id = nextID
  /\ current # NoOne =>
       /\ run[current].id = nextID /\ nextID = last.id + 1
       /\ run[current].trigger \in Triggers

(* No two callers have a run of one number, and none is ahead of nextID.    *)
NumbersAreFresh ==
  /\ \A c \in Callers : run[c].id <= nextID
  /\ \A c, d \in Callers : run[c].id = run[d].id /\ run[c].id # 0 => c = d

(* The last run is complete and has the error its caller's runner returned. *)
LastIsComplete ==
  last.id # 0 =>
    /\ last.finished /\ last.result = "counted"
    /\ \A c \in Callers : run[c].id = last.id => last.error = outcome[c]

CoordinatorInv ==
  /\ SlotTypeOK /\ RunsDoNotOverlap /\ SlotIsLatest
  /\ NumbersAreFresh /\ LastIsComplete /\ SnapshotsAreCoherent

(* A step that leaves the slot and the runs alone, makes no caller busy and *)
(* shows nothing new.                                                       *)
Quiet ==
  /\ UNCHANGED <<slot, run, outcome>>
  /\ shown' \in {shown, Nothing}
  /\ pc' \in [Callers -> {"idle", "running", "writing", "done"}]
  /\ \A c \in Callers : Busy(c)' => Busy(c)

-----------------------------------------------------------------------------
(* The invariant holds when New begins (coordinator.go:51-53).              *)
LEMMA CoordinatorInvInit == CoordinatorInit => CoordinatorInv
<1> SUFFICES ASSUME CoordinatorInit PROVE CoordinatorInv
  OBVIOUS
<1> USE CallersAssumption DEF CoordinatorInit, Callers, NoRun, Nothing
<1>1. SlotTypeOK
  BY DEF SlotTypeOK, Runs
<1>2. RunsDoNotOverlap
  BY DEF RunsDoNotOverlap, Busy
<1>3. SlotIsLatest /\ NumbersAreFresh /\ LastIsComplete
  BY DEF SlotIsLatest, NumbersAreFresh, LastIsComplete
<1>4. SnapshotsAreCoherent
  BY DEF SnapshotsAreCoherent
<1> QED
  BY <1>1, <1>2, <1>3, <1>4 DEF CoordinatorInv

(* Ticks, changes of the pressure, the stop and the end of the loop keep    *)
(* the invariant, because they touch neither a run nor the slot             *)
(* (server.go:284-290).                                                     *)
LEMMA QuietKeepsInv == CoordinatorInv /\ Quiet => CoordinatorInv'
<1> SUFFICES ASSUME CoordinatorInv, Quiet PROVE CoordinatorInv'
  OBVIOUS
<1> USE DEF CoordinatorInv, Quiet, slot
<1>1. SlotTypeOK'
  BY DEF SlotTypeOK
<1>2. RunsDoNotOverlap'
  BY DEF RunsDoNotOverlap
<1>3. SlotIsLatest' /\ NumbersAreFresh' /\ LastIsComplete'
  BY DEF SlotIsLatest, NumbersAreFresh, LastIsComplete
<1>4. SnapshotsAreCoherent'
  BY DEF SnapshotsAreCoherent, Nothing, NoRun
<1> QED
  BY <1>1, <1>2, <1>3, <1>4

(* A new run has the number and the trigger it was accepted with            *)
(* (coordinator.go:65).                                                     *)
LEMMA NewRunIsARun ==
  ASSUME NEW id \in Nat, NEW trigger \in Triggers
  PROVE  /\ NewRun(id, trigger) \in Runs
         /\ NewRun(id, trigger).id = id
         /\ NewRun(id, trigger).trigger = trigger
  BY DEF NewRun, NoRun, Runs, Triggers

(* Run takes a free slot: the new run has a number nobody has had, and it   *)
(* is the only one that is busy (coordinator.go:64-67).                     *)
LEMMA AcceptKeepsInv ==
  ASSUME CoordinatorInv, NEW c \in Callers, NEW t \in Triggers, Accept(c, t)
  PROVE  CoordinatorInv'
<1> USE CallersAssumption DEF CoordinatorInv
<1>1. run'[c] = NewRun(nextID + 1, t) /\ (\A d \in Callers \ {c} : run'[d] = run[d])
  BY DEF Accept, SlotTypeOK
<1>2. NewRun(nextID + 1, t) \in Runs /\ NewRun(nextID + 1, t).id = nextID + 1
      /\ NewRun(nextID + 1, t).trigger = t
  BY NewRunIsARun DEF SlotTypeOK
<1>3. SlotTypeOK'
  BY <1>2 DEF Accept, SlotTypeOK, slot
<1>4. RunsDoNotOverlap'
  BY DEF Accept, SlotFree, RunsDoNotOverlap, Busy, SlotTypeOK
<1>5. last.id = nextID /\ nextID \in Nat /\ \A d \in Callers : run[d].id \in Nat /\ run[d].id <= nextID
  BY DEF Accept, SlotFree, SlotIsLatest, NumbersAreFresh, SlotTypeOK, Runs
<1>6. SlotIsLatest'
  BY <1>1, <1>2, <1>5 DEF Accept, SlotIsLatest
<1>7. NumbersAreFresh'
  BY <1>1, <1>2, <1>5 DEF Accept, NumbersAreFresh
<1>8. LastIsComplete'
  BY <1>1, <1>2, <1>5 DEF Accept, LastIsComplete
<1>9. SnapshotsAreCoherent'
  BY DEF Accept, SnapshotsAreCoherent, Nothing, NoRun
<1> QED
  BY <1>3, <1>4, <1>6, <1>7, <1>8, <1>9

(* Whatever a copy of the current run holds of the fields that are being    *)
(* written, its number and its trigger are those of the run                 *)
(* (coordinator.go:59-62, 89-93).                                           *)
LEMMA CopiesIdentifyTheRun ==
  ASSUME NEW c \in Callers, NEW copy \in Copies(c)
  PROVE  copy.id = run[c].id /\ copy.trigger = run[c].trigger
  BY DEF Copies

(* A refused Run and Snapshot show the last run, and a copy of the current  *)
(* one if there is one (coordinator.go:59-62, 85-99).                       *)
LEMMA ShowingKeepsInv ==
  ASSUME CoordinatorInv, UNCHANGED <<slot, calls>>,
         NEW copy, shown' = [current |-> copy, last |-> last],
         copy = NoRun \/ (current # NoOne /\ copy \in Copies(current))
  PROVE  CoordinatorInv'
<1> USE DEF CoordinatorInv, slot, calls
<1>1. SlotTypeOK' /\ RunsDoNotOverlap'
  BY DEF SlotTypeOK, RunsDoNotOverlap, Busy
<1>2. SlotIsLatest' /\ NumbersAreFresh' /\ LastIsComplete'
  BY DEF SlotIsLatest, NumbersAreFresh, LastIsComplete
<1>3. copy.id # 0 => copy.id = last.id + 1 /\ copy.trigger \in Triggers
  <2>1. CASE copy = NoRun
    BY <2>1 DEF NoRun
  <2>2. CASE current # NoOne /\ copy \in Copies(current)
    <3>1. current \in Callers
      BY <2>2 DEF SlotTypeOK
    <3>2. copy.id = run[current].id /\ copy.trigger = run[current].trigger
      BY <2>2, <3>1, CopiesIdentifyTheRun
    <3> QED
      BY <2>2, <3>2 DEF SlotIsLatest
  <2> QED
    BY <2>1, <2>2
<1>4. last.error \in {"none", "error"}
  BY DEF SlotTypeOK, Runs
<1>5. shown'.last = last /\ shown'.current = copy
  OBVIOUS
<1>6. SnapshotsAreCoherent'
  BY <1>3, <1>4, <1>5 DEF SnapshotsAreCoherent, LastIsComplete
<1> QED
  BY <1>1, <1>2, <1>6

(* Run keeps the invariant, accepted or refused (coordinator.go:57-67).     *)
LEMMA RunKeepsInv ==
  ASSUME CoordinatorInv, NEW c \in Callers, NEW t \in Triggers, Run(c, t)
  PROVE  CoordinatorInv'
<1>1. CASE Accept(c, t)
  BY <1>1, AcceptKeepsInv
<1>2. CASE Refuse
  BY <1>2, ShowingKeepsInv DEF Refuse, SlotFree
<1> QED
  BY <1>1, <1>2 DEF Run

(* The runner of the accepted run returns; the last run is another one, so  *)
(* its error stays the one that is recorded (coordinator.go:69-76).         *)
LEMMA RunnerReturnsKeepsInv ==
  ASSUME CoordinatorInv, NEW c \in Callers, NEW e \in {"none", "error"}, RunnerReturns(c, e)
  PROVE  CoordinatorInv'
<1> USE CallersAssumption DEF CoordinatorInv, RunnerReturns, slot
<1>1. SlotTypeOK'
  BY DEF SlotTypeOK
<1>2. RunsDoNotOverlap'
  BY DEF RunsDoNotOverlap, Busy, SlotTypeOK
<1>3. SlotIsLatest' /\ NumbersAreFresh'
  BY DEF SlotIsLatest, NumbersAreFresh
<1>4. run[c].id = last.id + 1 /\ last.id \in Nat
  BY DEF RunsDoNotOverlap, Busy, SlotIsLatest, SlotTypeOK, Runs
<1>5. \A d \in Callers : run[d].id = last.id => outcome'[d] = outcome[d]
  BY <1>4 DEF SlotTypeOK
<1>6. LastIsComplete'
  BY <1>5 DEF LastIsComplete
<1>7. SnapshotsAreCoherent'
  BY DEF SnapshotsAreCoherent, Nothing, NoRun
<1> QED
  BY <1>1, <1>2, <1>3, <1>6, <1>7

(* The accepted run is recorded and is the next after the last one; nobody  *)
(* else has its number (coordinator.go:78-81).                              *)
LEMMA PublishRecordsNext ==
  ASSUME CoordinatorInv, NEW c \in Callers, Publish(c)
  PROVE  CoordinatorInv' /\ last'.id = last.id + 1
<1> USE CallersAssumption DEF CoordinatorInv
<1>1. current = c /\ c # NoOne
  BY DEF Publish, RunsDoNotOverlap, Busy, Callers
<1>2. run[c].id = nextID /\ nextID = last.id + 1 /\ last.id \in Nat /\ run[c] \in Runs
  BY <1>1 DEF SlotIsLatest, SlotTypeOK, Runs
<1>3. /\ Completed(c) \in Runs
      /\ Completed(c).id = run[c].id
      /\ Completed(c).finished /\ Completed(c).result = "counted"
      /\ Completed(c).error = outcome[c]
  BY <1>2 DEF Completed, Runs, SlotTypeOK
<1>4. SlotTypeOK'
  BY <1>3 DEF Publish, SlotTypeOK
<1>5. RunsDoNotOverlap'
  BY <1>1 DEF Publish, RunsDoNotOverlap, Busy, SlotTypeOK
<1>6. SlotIsLatest'
  BY <1>2, <1>3 DEF Publish, SlotIsLatest
<1>7. NumbersAreFresh'
  BY DEF Publish, NumbersAreFresh
<1>8. LastIsComplete'
  BY <1>2, <1>3 DEF Publish, LastIsComplete, NumbersAreFresh
<1>9. SnapshotsAreCoherent'
  BY DEF Publish, SnapshotsAreCoherent, Nothing, NoRun
<1> QED
  BY <1>2, <1>3, <1>4, <1>5, <1>6, <1>7, <1>8, <1>9 DEF Publish

-----------------------------------------------------------------------------
(* Every step keeps the invariant, and records the next run or none: one    *)
(* case per caller and event (coordinator.go:57-99, server.go:275-306).     *)
LEMMA CoordinatorStep ==
  ASSUME CoordinatorInv, [CoordinatorNext]_coordinatorVars
  PROVE  CoordinatorInv' /\ (last' # last => last'.id = last.id + 1)
<1> USE CallersAssumption
<1>0. Startup \in Callers /\ Loop \in Callers /\ Operators \subseteq Callers
      /\ {"startup", "schedule", "pressure", "operator"} = Triggers
  BY DEF Callers, Triggers
<1>a. ASSUME NEW c \in Callers, NEW t \in Triggers, Run(c, t)
      PROVE  last' = last
  BY <1>a DEF Run, Accept, Refuse, slot
<1>1. ASSUME NEW c \in Callers, Publish(c)
      PROVE  CoordinatorInv' /\ last'.id = last.id + 1
  BY <1>1, PublishRecordsNext
<1>2. ASSUME NEW c \in Callers, NEW e \in {"none", "error"}, RunnerReturns(c, e)
      PROVE  CoordinatorInv' /\ last' = last
  BY <1>2, RunnerReturnsKeepsInv DEF RunnerReturns, slot
<1>3. CASE CollectAtStart
  BY <1>0, <1>a, <1>3, RunKeepsInv DEF CollectAtStart
<1>4. ASSUME NEW o \in Operators, OperatorGC(o)
      PROVE  CoordinatorInv' /\ last' = last
  BY <1>0, <1>a, <1>4, RunKeepsInv DEF OperatorGC
<1>5. CASE ScheduledRun
  BY <1>0, <1>a, <1>5, RunKeepsInv DEF ScheduledRun
<1>6. CASE PressureRun
  <2>1. CASE pressure
    BY <1>0, <1>a, <1>6, <2>1, RunKeepsInv DEF PressureRun
  <2>2. CASE ~pressure
    BY <1>6, <2>2, QuietKeepsInv
       DEF PressureRun, Quiet, slot, calls, Busy, CoordinatorInv, SlotTypeOK
  <2> QED
    BY <2>1, <2>2
<1>7. CASE LoopEnds
  BY <1>0, <1>7, QuietKeepsInv
     DEF LoopEnds, Quiet, slot, Busy, CoordinatorInv, SlotTypeOK
<1>8. CASE Snapshot
  <2>1. PICK copy \in (IF SlotFree THEN {NoRun} ELSE Copies(current)) :
          shown' = [current |-> copy, last |-> last]
    BY <1>8 DEF Snapshot
  <2> QED
    BY <1>8, <2>1, ShowingKeepsInv DEF Snapshot, SlotFree, slot
<1>9. CASE Tick \/ UsageChanges \/ Stop
  BY <1>9, QuietKeepsInv
     DEF Tick, UsageChanges, Stop, Quiet, slot, calls, Busy, CoordinatorInv, SlotTypeOK
<1>10. CASE UNCHANGED coordinatorVars
  BY <1>10, QuietKeepsInv
     DEF coordinatorVars, Quiet, slot, Busy, CoordinatorInv, SlotTypeOK
<1> QED
  BY <1>1, <1>2, <1>3, <1>4, <1>5, <1>6, <1>7, <1>8, <1>9, <1>10
     DEF CoordinatorNext, RunStep

(* At most one collection runs at a time, whoever asks for it               *)
(* (coordinator.go:57-67).                                                  *)
THEOREM CoordinatorExcludes == CoordinatorSpec => []RunsDoNotOverlap
<1>1. CoordinatorInv /\ [CoordinatorNext]_coordinatorVars => CoordinatorInv'
  BY CoordinatorStep
<1>2. CoordinatorInv => RunsDoNotOverlap
  BY DEF CoordinatorInv
<1> QED
  BY CoordinatorInvInit, <1>1, <1>2, PTL DEF CoordinatorSpec

(* What Snapshot and a refused Run show is coherent although a run is       *)
(* written while it is copied (coordinator.go:69-99).                       *)
THEOREM CoordinatorSnapshotsCoherent == CoordinatorSpec => []SnapshotsAreCoherent
<1>1. CoordinatorInv /\ [CoordinatorNext]_coordinatorVars => CoordinatorInv'
  BY CoordinatorStep
<1>2. CoordinatorInv => SnapshotsAreCoherent
  BY DEF CoordinatorInv
<1> QED
  BY CoordinatorInvInit, <1>1, <1>2, PTL DEF CoordinatorSpec

(* Runs are recorded once each, in the order of their numbers               *)
(* (coordinator.go:62-81).                                                  *)
THEOREM CoordinatorRecordsInOrder == CoordinatorSpec => RunsAreRecordedInOrder
<1>1. CoordinatorInv /\ [CoordinatorNext]_coordinatorVars => CoordinatorInv'
  BY CoordinatorStep
<1>2. CoordinatorInv /\ [CoordinatorNext]_coordinatorVars
        => [last' # last => last'.id = last.id + 1]_coordinatorVars
  BY CoordinatorStep
<1> QED
  BY CoordinatorInvInit, <1>1, <1>2, PTL DEF CoordinatorSpec, RunsAreRecordedInOrder
=============================================================================
