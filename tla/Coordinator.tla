---------------------------- MODULE Coordinator ----------------------------
(***************************************************************************)
(* The maintenance coordinator (internal/maintenance/coordinator.go) and    *)
(* its callers in internal/httpserver/server.go: the startup run of New,    *)
(* the loop of RunMaintenance with its two tickers, the operator's POST and *)
(* the snapshots of the operator API.  What a run does is in Collection,    *)
(* which relies on there being one at a time; here it returns a result or   *)
(* an error.                                                                *)
(*                                                                         *)
(* c.mu guards the pointers current and last, so each section under it is   *)
(* one step.  The run that current points to is the named return value of   *)
(* the call that was accepted, and that call writes its result without      *)
(* c.mu: a copy taken meanwhile has any mix of old and new fields, and its  *)
(* Error, a string of two words, may be half written.                       *)
(***************************************************************************)
EXTENDS Naturals

CONSTANTS
  Operators,     \* requests to /api/v1/operator/gc
  Startup,       \* New
  Loop,          \* RunMaintenance
  NoOne,         \* current is nil
  MaxAge,        \* storage.max_age, 0 when age collection is off
  MaxEvents      \* bound on ticks and operator requests

Callers == Operators \cup {Startup, Loop}
Triggers == {"startup", "schedule", "pressure", "operator"}

ASSUME CallersAssumption ==
  /\ Startup # Loop /\ {Startup, Loop} \cap Operators = {}
  /\ NoOne \notin Callers
  /\ MaxAge \in Nat /\ MaxEvents \in Nat

VARIABLES
  nextID,        \* c.nextID
  current,       \* the caller whose run c.current points to
  last,          \* the run c.last points to; nothing writes to it any more
  run,           \* the run of each caller, as it was accepted
  outcome,       \* what its runner returned
  pc,            \* where each caller is
  shown,         \* what this step told a caller of Snapshot or a refused caller of Run
  scheduleTick,  \* the schedule ticker's channel, of capacity one
  pressureTick,  \* the pressure ticker's
  pressure,      \* what storage.Snapshot().Pressure would be (see StorageController)
  serving,       \* New has returned
  stopped,       \* the context of RunMaintenance is done
  events         \* ticks and operator requests so far

slot == <<nextID, current, last>>
calls == <<run, outcome, pc>>
ticks == <<scheduleTick, pressureTick, pressure>>
server == <<serving, stopped>>
coordinatorVars == <<nextID, current, last, run, outcome, pc, shown,
                     scheduleTick, pressureTick, pressure, serving, stopped, events>>

NoRun == [id |-> 0, trigger |-> "none", finished |-> FALSE, result |-> "zero", error |-> "none"]
Nothing == [current |-> NoRun, last |-> NoRun]
NewRun(id, trigger) == [NoRun EXCEPT !.id = id, !.trigger = trigger]

(* The run of c with everything its runner returned.                        *)
Completed(c) == [run[c] EXCEPT !.finished = TRUE, !.result = "counted", !.error = outcome[c]]

(* What a copy of *c.current may hold.                                      *)
Copies(c) ==
  IF pc[c] = "running" THEN {run[c]}
  ELSE [id : {run[c].id}, trigger : {run[c].trigger}, finished : BOOLEAN,
        result : {"zero", "counted"},
        error : IF outcome[c] = "none" THEN {"none"} ELSE {"none", "error", "torn"}]

-----------------------------------------------------------------------------
(* Coordinator.Run.                                                         *)

(* Mutant: a run is accepted beside another.                                *)
AlwaysFree == TRUE

SlotFree == current = NoOne

Accept(c, trigger) ==
  /\ SlotFree
  /\ nextID' = nextID + 1
  /\ run' = [run EXCEPT ![c] = NewRun(nextID + 1, trigger)]
  /\ current' = c
  /\ pc' = [pc EXCEPT ![c] = "running"]
  /\ shown' = Nothing
  /\ UNCHANGED <<last, outcome>>

(* The caller gets a copy of the current run; last is kept for comparison.  *)
Refuse ==
  /\ ~SlotFree
  /\ \E copy \in Copies(current) : shown' = [current |-> copy, last |-> last]
  /\ UNCHANGED <<slot, calls>>

Run(c, trigger) == Accept(c, trigger) \/ Refuse

(* Mutant: the slot is given up before the result is written.               *)
PublishFirst(c, error) ==
  /\ pc[c] = "running"
  /\ outcome' = [outcome EXCEPT ![c] = error]
  /\ current' = NoOne
  /\ last' = run[c]
  /\ pc' = [pc EXCEPT ![c] = "writing"]
  /\ shown' = Nothing
  /\ UNCHANGED <<nextID, run, ticks, server, events>>

(* The runner returns, possibly because its context is done; what follows   *)
(* writes to the run until Publish takes c.mu.                              *)
RunnerReturns(c, error) ==
  /\ pc[c] = "running"
  /\ outcome' = [outcome EXCEPT ![c] = error]
  /\ pc' = [pc EXCEPT ![c] = "writing"]
  /\ shown' = Nothing
  /\ UNCHANGED <<slot, run, ticks, server, events>>

(* Mutant: a run that failed keeps the slot.                                *)
PublishSuccess(c) ==
  /\ pc[c] = "writing"
  /\ current' = IF outcome[c] = "none" THEN NoOne ELSE current
  /\ last' = IF outcome[c] = "none" THEN Completed(c) ELSE last
  /\ pc' = [pc EXCEPT ![c] = IF c = Startup THEN "done" ELSE "idle"]
  /\ serving' = (serving \/ outcome[c] = "none")
  /\ shown' = Nothing
  /\ UNCHANGED <<nextID, run, outcome, ticks, stopped, events>>

(* The run is complete and becomes the last one.  New fails with the error  *)
(* of its run, and then nothing is ever served.                             *)
Publish(c) ==
  /\ pc[c] = "writing"
  /\ current' = NoOne
  /\ last' = Completed(c)
  /\ pc' = [pc EXCEPT ![c] = IF c = Startup THEN "done" ELSE "idle"]
  /\ serving' = (serving \/ outcome[c] = "none")
  /\ shown' = Nothing
  /\ UNCHANGED <<nextID, run, outcome, ticks, stopped, events>>

(* Coordinator.Snapshot, for the operator API and the metrics.              *)
Snapshot ==
  /\ serving
  /\ \E copy \in IF SlotFree THEN {NoRun} ELSE Copies(current) :
       shown' = [current |-> copy, last |-> last]
  /\ UNCHANGED <<slot, calls, ticks, server, events>>

-----------------------------------------------------------------------------
(* The callers.                                                             *)

CollectAtStart ==
  /\ pc[Startup] = "idle"
  /\ Run(Startup, "startup")
  /\ UNCHANGED <<ticks, server, events>>

OperatorGC(o) ==
  /\ serving /\ pc[o] = "idle"
  /\ events < MaxEvents /\ events' = events + 1
  /\ Run(o, "operator")
  /\ UNCHANGED <<ticks, server>>

(* The select of RunMaintenance.                                            *)
Selecting == serving /\ pc[Loop] = "idle"

ScheduledRun ==
  /\ Selecting /\ scheduleTick
  /\ scheduleTick' = FALSE
  /\ Run(Loop, "schedule")
  /\ UNCHANGED <<pressureTick, pressure, server, events>>

PressureRun ==
  /\ Selecting /\ pressureTick
  /\ pressureTick' = FALSE
  /\ IF pressure THEN Run(Loop, "pressure")
                 ELSE shown' = Nothing /\ UNCHANGED <<slot, calls>>
  /\ UNCHANGED <<scheduleTick, pressure, server, events>>

LoopEnds ==
  /\ Selecting /\ stopped
  /\ pc' = [pc EXCEPT ![Loop] = "done"]
  /\ shown' = Nothing
  /\ UNCHANGED <<slot, run, outcome, ticks, server, events>>

(* A ticker drops a tick that the channel has no room for.                  *)
Tick ==
  /\ serving /\ events < MaxEvents /\ events' = events + 1
  /\ \/ ~scheduleTick /\ scheduleTick' = TRUE /\ UNCHANGED pressureTick
     \/ ~pressureTick /\ pressureTick' = TRUE /\ UNCHANGED scheduleTick
  /\ shown' = Nothing
  /\ UNCHANGED <<slot, calls, pressure, server>>

(* Writers, uploads and collections move usage past the high watermark.     *)
UsageChanges ==
  /\ pressure' = ~pressure
  /\ shown' = Nothing
  /\ UNCHANGED <<slot, calls, scheduleTick, pressureTick, server, events>>

(* SIGTERM.                                                                 *)
Stop ==
  /\ serving /\ ~stopped
  /\ stopped' = TRUE
  /\ shown' = Nothing
  /\ UNCHANGED <<slot, calls, ticks, serving, events>>

CoordinatorInit ==
  /\ nextID = 0 /\ current = NoOne /\ last = NoRun
  /\ run = [c \in Callers |-> NoRun]
  /\ outcome = [c \in Callers |-> "none"]
  /\ pc = [c \in Callers |-> IF c = Startup /\ MaxAge = 0 THEN "done" ELSE "idle"]
  /\ shown = Nothing
  /\ scheduleTick = FALSE /\ pressureTick = FALSE /\ pressure \in BOOLEAN
  /\ serving = (MaxAge = 0) /\ stopped = FALSE
  /\ events = 0

RunStep(c) == Publish(c) \/ \E error \in {"none", "error"} : RunnerReturns(c, error)

CoordinatorNext ==
  \/ \E c \in Callers : RunStep(c)
  \/ CollectAtStart
  \/ \E o \in Operators : OperatorGC(o)
  \/ ScheduledRun \/ PressureRun \/ LoopEnds
  \/ Snapshot \/ Tick \/ UsageChanges \/ Stop

CoordinatorSpec == CoordinatorInit /\ [][CoordinatorNext]_coordinatorVars

(* A collection ends (CollectionEnds of Collection) and its caller goes on. *)
(* The select of the loop takes one of the ready cases at random, so none   *)
(* is passed over for ever.                                                 *)
CoordinatorFairness ==
  /\ \A c \in Callers : WF_coordinatorVars(RunStep(c))
  /\ WF_coordinatorVars(CollectAtStart)
  /\ SF_coordinatorVars(ScheduledRun) /\ SF_coordinatorVars(PressureRun)

FairCoordinatorSpec == CoordinatorSpec /\ CoordinatorFairness

-----------------------------------------------------------------------------
(* Properties.                                                              *)

Busy(c) == pc[c] \in {"running", "writing"}

(* At most one collection runs, the one that current points to, from its    *)
(* acceptance until its record is complete: startup, schedule, pressure and *)
(* operators exclude each other (coordinator.go:57-67; docs/                *)
(* operator-experience.md, "Only one collection may run at a time").        *)
RunsDoNotOverlap == \A c \in Callers : Busy(c) => current = c

(* Every accepted run is recorded as the last one, once, in the order in    *)
(* which runs were accepted (coordinator.go:62-79).                         *)
RunsAreRecordedInOrder == [][last' # last => last'.id = last.id + 1]_coordinatorVars

(* What an operator reads: the last run is shown complete, with the error   *)
(* it really ended with, and a current run is a later one than the last,    *)
(* although its other fields are copied while they are written              *)
(* (coordinator.go:69-99).                                                  *)
SnapshotsAreCoherent ==
  /\ shown.last.id # 0 =>
       /\ shown.last.finished /\ shown.last.result = "counted"
       /\ shown.last.error \in {"none", "error"}
       /\ \A c \in Callers : run[c].id = shown.last.id => shown.last.error = outcome[c]
  /\ shown.current.id # 0 =>
       /\ shown.current.id = shown.last.id + 1
       /\ shown.current.trigger \in Triggers

(* A tick of the schedule is honoured: a collection that ends after it is   *)
(* recorded, its own or the one it is coalesced with, unless the server is  *)
(* stopped (server.go:275-304).                                             *)
TicksAreHonoured ==
  \A n \in 0..MaxEvents + 1 :
    (scheduleTick /\ last.id = n) ~> (last.id > n \/ stopped)
=============================================================================
