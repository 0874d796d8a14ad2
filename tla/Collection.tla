----------------------------- MODULE Collection -----------------------------
(***************************************************************************)
(* Garbage collection (internal/httpserver/server.go, collect and           *)
(* collectPressure; internal/cache/store.go, GC, Candidates and             *)
(* RemoveCandidate) running beside the writers of CacheStore.  One          *)
(* collection runs at a time: the maintenance coordinator refuses a second. *)
(*                                                                         *)
(* A collection under pressure removes listed candidates until it has       *)
(* removed what committed usage exceeds the low watermark by; otherwise     *)
(* every store is walked for entries past max_age.  Both report removed     *)
(* bytes to the controller after they have released s.mu.  The order of the *)
(* candidates (least recently used first) and the ages are abstracted: any  *)
(* candidate may come next, any set of complete entries may be too old.     *)
(***************************************************************************)
EXTENDS CacheStore

VARIABLES
  gc,       \* the local state of the running collection
  serving   \* New has returned: requests are handled

collectionVars == <<storeVars, gc, serving>>

(* pending: bytes removed from a store and not yet reported to storage;     *)
(* unreported (aux): bytes removed by walks that failed, which no one will  *)
(* report.                                                                  *)
IdleCollection ==
  [pc |-> "idle", left |-> {}, todo |-> {}, store |-> NoOne, key |-> NoKey, pending |-> 0,
   goal |-> 0, removed |-> 0, candidates |-> {}, unreported |-> 0]

StartedCollection == [IdleCollection EXCEPT !.pc = "collect"]

GCAt(pc) == gc.pc = pc
CanTake(s) == mu[s] = NoOne

(* The run is over; the first one belongs to New.                           *)
FinishRun ==
  /\ gc' = [IdleCollection EXCEPT !.unreported = gc.unreported + gc.pending]
  /\ serving' = TRUE

(* Mutant: only the object counter is lowered.                              *)
UncountObject(k) == objects' = [objects EXCEPT ![StoreOf[k]] = @ - 1] /\ UNCHANGED bytes

(* s.bytes and s.objects lose the entry of k.                               *)
Uncount(k) ==
  /\ bytes' = [bytes EXCEPT ![StoreOf[k]] = @ - meta[k].size]
  /\ objects' = [objects EXCEPT ![StoreOf[k]] = @ - 1]

RemoveBody(k) == body' = [body EXCEPT ![k][meta[k].path] = NoBody]

(* The metadata goes after the body; its removal may fail, which leaves     *)
(* metadata that names no file.                                             *)
RemoveMeta(k) ==
  \/ meta' = [meta EXCEPT ![k] = AbsentMeta]
  \/ Fault("unlink") /\ UNCHANGED meta

-----------------------------------------------------------------------------
(* A tick of a schedule, an operator request or a pressure tick.            *)
StartRun ==
  /\ serving /\ GCAt("idle")
  /\ gc' = [gc EXCEPT !.pc = "collect"]
  /\ UNCHANGED <<storeVars, serving>>

(* collect looks at the pressure once, and collectPressure takes a second   *)
(* snapshot for its goal.                                                   *)
CollectByAge ==
  /\ GCAt("collect")
  /\ ~(HasController /\ Pressure)
  /\ gc' = [gc EXCEPT !.pc = "age", !.left = Stores]
  /\ UNCHANGED <<storeVars, serving>>

CollectUnderPressure ==
  /\ GCAt("collect")
  /\ HasController /\ Pressure
  /\ gc' = [gc EXCEPT !.pc = "snapshot"]
  /\ UNCHANGED <<storeVars, serving>>

-----------------------------------------------------------------------------
(* Collection by age: Store.GC on one store after the other.                *)

LockStore(s) ==
  /\ GCAt("age") /\ s \in gc.left /\ CanTake(s)
  /\ mu' = [mu EXCEPT ![s] = Collector]
  /\ \E old \in SUBSET CompleteIn(s) :
       gc' = [gc EXCEPT !.pc = "walk", !.store = s, !.todo = old, !.left = @ \ {s}]
  /\ UNCHANGED <<controllerVars, disk, activeTemps, counters, writer, crashes, serving>>

AgeUnlink(k) ==
  /\ GCAt("walk") /\ k \in gc.todo
  /\ RemoveBody(k) /\ Uncount(k)
  /\ gc' = [gc EXCEPT !.pc = "walkMeta", !.key = k, !.todo = @ \ {k}, !.pending = @ + meta[k].size]
  /\ UNCHANGED <<controllerVars, meta, bodyTemps, metaTemps, mu, activeTemps, writer, crashes, serving>>

(* The body cannot be removed: the entry is skipped.                        *)
AgeSkip(k) ==
  /\ Fault("unlink")
  /\ GCAt("walk") /\ k \in gc.todo
  /\ gc' = [gc EXCEPT !.todo = @ \ {k}]
  /\ UNCHANGED <<storeVars, serving>>

AgeUnlinkMeta ==
  /\ GCAt("walkMeta")
  /\ RemoveMeta(gc.key)
  /\ gc' = [gc EXCEPT !.pc = "walk", !.key = NoKey]
  /\ UNCHANGED <<controllerVars, body, bodyTemps, metaTemps, mu, activeTemps, counters, writer,
                 crashes, serving>>

(* Mutant: GC returns without its deferred Unlock.                          *)
ReturnLocked ==
  /\ GCAt("walk") /\ gc.todo = {}
  /\ gc' = [gc EXCEPT !.pc = "report", !.store = NoOne]
  /\ UNCHANGED <<storeVars, serving>>

UnlockStore ==
  /\ GCAt("walk") /\ gc.todo = {}
  /\ mu' = [mu EXCEPT ![gc.store] = NoOne]
  /\ gc' = [gc EXCEPT !.pc = "report", !.store = NoOne]
  /\ UNCHANGED <<controllerVars, disk, activeTemps, counters, writer, crashes, serving>>

(* The walk meets an unreadable directory: collect returns the error, and   *)
(* what this store's walk removed is not reported to the controller.        *)
WalkFails ==
  /\ Fault("walk") /\ serving
  /\ GCAt("walk")
  /\ mu' = [mu EXCEPT ![gc.store] = NoOne]
  /\ FinishRun
  /\ UNCHANGED <<controllerVars, disk, activeTemps, counters, writer, crashes>>

(* Mutant: the running total is reported for every store.                   *)
ReportTotal ==
  /\ GCAt("report")
  /\ IF HasController THEN Remove(gc.pending) ELSE UNCHANGED controllerVars
  /\ gc' = [gc EXCEPT !.pc = "age"]
  /\ UNCHANGED <<disk, mu, activeTemps, counters, writer, crashes, serving>>

ReportAge ==
  /\ GCAt("report")
  /\ IF HasController THEN Remove(gc.pending) ELSE UNCHANGED controllerVars
  /\ gc' = [gc EXCEPT !.pc = "age", !.pending = 0]
  /\ UNCHANGED <<disk, mu, activeTemps, counters, writer, crashes, serving>>

AgeDone ==
  /\ GCAt("age") /\ gc.left = {}
  /\ FinishRun
  /\ UNCHANGED storeVars

-----------------------------------------------------------------------------
(* Collection under pressure.                                               *)

TakeSnapshot ==
  /\ GCAt("snapshot")
  /\ LET goal == committedBytes - LowBytes IN
       IF goal <= 0 THEN FinishRun
       ELSE gc' = [gc EXCEPT !.pc = "list", !.goal = goal, !.left = Stores] /\ UNCHANGED serving
  /\ UNCHANGED storeVars

CandidatesOf(s) == {[key |-> k, path |-> meta[k].path, size |-> meta[k].size] : k \in CompleteIn(s)}

ListStore(s) ==
  /\ GCAt("list") /\ s \in gc.left /\ CanTake(s)
  /\ gc' = [gc EXCEPT !.left = @ \ {s}, !.candidates = @ \cup CandidatesOf(s)]
  /\ UNCHANGED <<storeVars, serving>>

ListFails ==
  /\ Fault("walk") /\ serving
  /\ GCAt("list") /\ gc.left # {}
  /\ FinishRun
  /\ UNCHANGED storeVars

ListDone ==
  /\ GCAt("list") /\ gc.left = {}
  /\ gc' = [gc EXCEPT !.pc = "evict"]
  /\ UNCHANGED <<storeVars, serving>>

(* Mutant: a candidate is removed by key, whatever the metadata names now.  *)
SameKey(c) == Parses(c.key)

(* The metadata still names the very generation that was listed.            *)
StillListed(c) ==
  /\ Parses(c.key)
  /\ meta[c.key].path = c.path
  /\ meta[c.key].size = c.size

Evicting(c) ==
  /\ GCAt("evict") /\ gc.removed < gc.goal
  /\ c \in gc.candidates
  /\ CanTake(StoreOf[c.key])

(* RemoveCandidate finds another generation, or no file, and leaves it.     *)
EvictStale(c) ==
  /\ Evicting(c)
  /\ ~(StillListed(c) /\ Exists(c.key, meta[c.key].path))
  /\ gc' = [gc EXCEPT !.candidates = @ \ {c}]
  /\ UNCHANGED <<storeVars, serving>>

EvictSkip(c) ==
  /\ Fault("unlink")
  /\ Evicting(c)
  /\ StillListed(c) /\ Exists(c.key, meta[c.key].path)
  /\ gc' = [gc EXCEPT !.candidates = @ \ {c}]
  /\ UNCHANGED <<storeVars, serving>>

EvictUnlink(c) ==
  /\ Evicting(c)
  /\ StillListed(c) /\ Exists(c.key, meta[c.key].path)
  /\ mu' = [mu EXCEPT ![StoreOf[c.key]] = Collector]
  /\ RemoveBody(c.key) /\ Uncount(c.key)
  /\ gc' = [gc EXCEPT !.pc = "evictMeta", !.candidates = @ \ {c}, !.key = c.key,
                      !.store = StoreOf[c.key], !.pending = c.size]
  /\ UNCHANGED <<controllerVars, meta, bodyTemps, metaTemps, activeTemps, writer, crashes, serving>>

EvictUnlinkMeta ==
  /\ GCAt("evictMeta")
  /\ RemoveMeta(gc.key)
  /\ mu' = [mu EXCEPT ![gc.store] = NoOne]
  /\ gc' = [gc EXCEPT !.pc = "evictReport", !.key = NoKey, !.store = NoOne]
  /\ UNCHANGED <<controllerVars, body, bodyTemps, metaTemps, activeTemps, counters, writer,
                 crashes, serving>>

ReportEvicted ==
  /\ GCAt("evictReport")
  /\ Remove(gc.pending)
  /\ gc' = [gc EXCEPT !.pc = "evict", !.removed = @ + gc.pending, !.pending = 0]
  /\ UNCHANGED <<disk, mu, activeTemps, counters, writer, crashes, serving>>

EvictDone ==
  /\ GCAt("evict")
  /\ gc.removed >= gc.goal \/ gc.candidates = {}
  /\ FinishRun
  /\ UNCHANGED storeVars

(* The context ends: the server shuts down, or the operator's client went   *)
(* away.  New passes a context that never ends.                             *)
CancelRun ==
  /\ serving
  /\ \/ GCAt("age") /\ gc.left # {}
     \/ GCAt("evict") /\ gc.candidates # {}
  /\ FinishRun
  /\ UNCHANGED storeVars

-----------------------------------------------------------------------------
CollectionInit == StoreInit /\ gc = StartedCollection /\ serving = FALSE

CollectionStep ==
  \/ CollectByAge \/ CollectUnderPressure
  \/ \E s \in Stores : LockStore(s) \/ ListStore(s)
  \/ \E k \in Keys : AgeUnlink(k) \/ AgeSkip(k)
  \/ AgeUnlinkMeta \/ UnlockStore \/ ReportAge \/ AgeDone
  \/ TakeSnapshot \/ ListDone
  \/ \E c \in gc.candidates : EvictStale(c) \/ EvictSkip(c) \/ EvictUnlink(c)
  \/ EvictUnlinkMeta \/ ReportEvicted \/ EvictDone
  \/ WalkFails \/ ListFails

WriterStep(w) == PutStep(w) /\ UNCHANGED <<gc, serving>>

Serve(w) == serving /\ Put(w) /\ UNCHANGED <<gc, serving>>

(* The process dies and New runs again, its startup collection included.    *)
Restart == Crash /\ gc' = StartedCollection /\ serving' = FALSE

CollectionNext ==
  \/ \E w \in Holders : Serve(w) \/ WriterStep(w)
  \/ StartRun
  \/ CollectionStep
  \/ CancelRun
  \/ Restart

CollectionSpec == CollectionInit /\ [][CollectionNext]_collectionVars

(* A goroutine that can run does, and filesystem calls return: a writer     *)
(* leaves its commit section.  sync.RWMutex hands s.mu to a waiter          *)
(* eventually, hence strong fairness for the collector, which may find s.mu *)
(* taken over and over.                                                     *)
Fairness ==
  /\ SF_collectionVars(CollectionStep)
  /\ \A w \in Holders : WF_collectionVars(WriterStep(w) /\ writer[w].pc \in CommitPCs)

FairCollectionSpec == CollectionSpec /\ Fairness

-----------------------------------------------------------------------------
(* Properties.                                                              *)

CollectionPCs == {"idle", "collect", "age", "walk", "walkMeta", "report",
                  "snapshot", "list", "evict", "evictMeta", "evictReport"}
ExclusivePCs == {"walk", "walkMeta", "evictMeta"}
Candidates == [key : Keys, path : Paths, size : Nat]
Collections ==
  [pc : CollectionPCs, left : SUBSET Stores, todo : SUBSET Keys, store : Stores \cup {NoOne},
   key : Keys \cup {NoKey}, pending : Nat, goal : Nat, removed : Nat,
   candidates : SUBSET Candidates, unreported : Nat]

CollectorTypeOK ==
  /\ gc \in Collections /\ serving \in BOOLEAN
  /\ \A s \in Stores : mu[s] = Collector <=> gc.pc \in ExclusivePCs /\ gc.store = s

(* The collection's state is well formed, and it holds s.mu exactly in its  *)
(* own exclusive sections (store.go:188, 513).                              *)
CollectionTypeOK == StoreTypeOK /\ CollectorTypeOK

AllStoreBytes == Total(Stores, bytes)

(* The committed bytes are the bytes of all stores plus what the running    *)
(* collection has removed and not reported yet, plus what collections that  *)
(* failed in the middle of a walk will never report: whatever fails, no     *)
(* order of commits, replacements, removals, reports and restarts loses or  *)
(* repeats a byte, and the controller never believes less is stored than is *)
(* (store.go:379-386, server.go:318-327, 364-368).                          *)
LedgerMatchesStores ==
  HasController => committedBytes = AllStoreBytes + gc.pending + gc.unreported

(* A complete entry disappears only in an exclusive section of the          *)
(* collector, and under pressure only the generation that was listed as a   *)
(* candidate: a write that replaced it since survives (store.go:203-206).   *)
(* The one other way out is a replace() of the key that has to remove its   *)
(* destination (store.go:629-633).                                          *)
OnlyCollectedEntriesGo ==
  [][\A k \in Keys : Complete(k) /\ ~Complete(k)' =>
       \/ Retrying(k)'
       \/ /\ mu'[StoreOf[k]] = Collector
          /\ gc'.pc = "evictMeta" =>
               \E c \in gc.candidates : c.key = k /\ c.path = meta[k].path]_collectionVars

(* Every collection ends, although writers keep taking s.mu and adding      *)
(* entries: the coordinator's single slot is freed (server.go:308-376).     *)
CollectionEnds == gc.pc # "idle" ~> gc.pc = "idle"
=============================================================================
