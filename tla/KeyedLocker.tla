----------------------------- MODULE KeyedLocker -----------------------------
(***************************************************************************)
(* The keyed lock that coalesces concurrent misses (keyedLocker, the same   *)
(* code in internal/npmproxy, internal/ociproxy and internal/pypiproxy): a  *)
(* map from cache keys to reference-counted mutexes.  An entry is created   *)
(* by the first request for a key and deleted by the last one to leave.     *)
(*                                                                         *)
(* A section under locker.mu is one step.  Between the steps of one request *)
(* any steps of others may come: in particular between taking a reference   *)
(* and locking the item, and between unlocking the item and dropping the    *)
(* reference.                                                               *)
(***************************************************************************)
EXTENDS Naturals, FiniteSets

CONSTANTS
  Procs,    \* the goroutines that handle requests
  Keys,     \* cache keys
  Items,    \* lockRef objects; those that nothing refers to are free memory
  NoItem,   \* a nil *lockRef
  NoProc    \* an unlocked sync.Mutex

ASSUME ProcsAssumption == IsFiniteSet(Procs) /\ NoProc \notin Procs
ASSUME ItemsAssumption == NoItem \notin Items

VARIABLES
  items,    \* locker.items
  refs,     \* item.refs
  holder,   \* who holds item.mu
  pc,       \* where each request is
  key,      \* the key it asked for
  item      \* the lock object it refers to

lockerVars == <<items, refs, holder, pc, key, item>>

LockerInit ==
  /\ items = [k \in Keys |-> NoItem]
  /\ refs = [i \in Items |-> 0]
  /\ holder = [i \in Items |-> NoProc]
  /\ pc = [p \in Procs |-> "out"]
  /\ key \in [Procs -> Keys]
  /\ item = [p \in Procs |-> NoItem]

-----------------------------------------------------------------------------
(* &lockRef{}: an object nothing refers to, as allocation returns it.       *)
Unreferenced == {i \in Items : /\ \A k \in Keys : items[k] # i
                               /\ \A p \in Procs : item[p] # i}

(* The item that lock(k) works with is i, and locker.items[k] becomes i.    *)
GetOrCreate(k, i) ==
  /\ IF items[k] = NoItem THEN i \in Unreferenced ELSE i = items[k]
  /\ items' = [items EXCEPT ![k] = i]

(* Mutant: the reference is not counted.                                    *)
ReferenceUncounted(p, k) ==
  /\ pc[p] = "out"
  /\ \E i \in Items : GetOrCreate(k, i) /\ item' = [item EXCEPT ![p] = i]
  /\ key' = [key EXCEPT ![p] = k]
  /\ pc' = [pc EXCEPT ![p] = "waiting"]
  /\ UNCHANGED <<refs, holder>>

(* The section of lock(k) under locker.mu.                                  *)
Reference(p, k) ==
  /\ pc[p] = "out"
  /\ \E i \in Items :
       /\ GetOrCreate(k, i)
       /\ refs' = [refs EXCEPT ![i] = @ + 1]
       /\ item' = [item EXCEPT ![p] = i]
  /\ key' = [key EXCEPT ![p] = k]
  /\ pc' = [pc EXCEPT ![p] = "waiting"]
  /\ UNCHANGED holder

(* Mutant: of the waiting requests always the same one is woken, instead of *)
(* the one that waits longest.                                              *)
WakeFavourite(p) ==
  /\ pc[p] = "waiting"
  /\ holder[item[p]] = NoProc
  /\ p = CHOOSE q \in Procs : pc[q] = "waiting" /\ item[q] = item[p]
  /\ holder' = [holder EXCEPT ![item[p]] = p]
  /\ pc' = [pc EXCEPT ![p] = "in"]
  /\ UNCHANGED <<items, refs, key, item>>

(* item.mu.Lock() returns.                                                  *)
LockItem(p) ==
  /\ pc[p] = "waiting"
  /\ holder[item[p]] = NoProc
  /\ holder' = [holder EXCEPT ![item[p]] = p]
  /\ pc' = [pc EXCEPT ![p] = "in"]
  /\ UNCHANGED <<items, refs, key, item>>

(* The unlock function, first half: item.mu.Unlock().                       *)
UnlockItem(p) ==
  /\ pc[p] = "in"
  /\ holder' = [holder EXCEPT ![item[p]] = NoProc]
  /\ pc' = [pc EXCEPT ![p] = "leaving"]
  /\ UNCHANGED <<items, refs, key, item>>

(* Mutants: the entry is deleted by the first request to leave, or never.   *)
DeleteAlways(p) == TRUE
DeleteNever(p) == FALSE

(* item.refs is zero after the decrement.                                   *)
LastReference(p) == refs[item[p]] = 1

(* The unlock function, second half, under locker.mu.                       *)
Unreference(p) ==
  /\ pc[p] = "leaving"
  /\ refs' = [refs EXCEPT ![item[p]] = @ - 1]
  /\ items' = IF LastReference(p) THEN [items EXCEPT ![key[p]] = NoItem] ELSE items
  /\ item' = [item EXCEPT ![p] = NoItem]
  /\ pc' = [pc EXCEPT ![p] = "out"]
  /\ UNCHANGED <<holder, key>>

LockerNext ==
  \E p \in Procs :
    \/ \E k \in Keys : Reference(p, k)
    \/ LockItem(p)
    \/ UnlockItem(p)
    \/ Unreference(p)

LockerSpec == LockerInit /\ [][LockerNext]_lockerVars

(* sync.Mutex hands the lock to a waiter eventually (starvation mode).      *)
(* That a holder unlocks is the usual contract of a lock, assumed here and  *)
(* not ensured by the code around it: a handler writes to its client with   *)
(* the key locked, and the server has no write timeout                      *)
(* (cmd/n0ding/main.go:49-54).  RequestsFinish of NpmProxy does without     *)
(* this assumption.                                                         *)
LockerFairness ==
  \A p \in Procs :
    /\ SF_lockerVars(LockItem(p))
    /\ WF_lockerVars(UnlockItem(p))
    /\ WF_lockerVars(Unreference(p))

FairLockerSpec == LockerSpec /\ LockerFairness

-----------------------------------------------------------------------------
(* The variables have their types.                                          *)
LockerTypeOK ==
  /\ items \in [Keys -> Items \cup {NoItem}]
  /\ refs \in [Items -> Nat]
  /\ holder \in [Items -> Procs \cup {NoProc}]
  /\ pc \in [Procs -> {"out", "waiting", "in", "leaving"}]
  /\ key \in [Procs -> Keys]
  /\ item \in [Procs -> Items \cup {NoItem}]

(* The requests that refer to lock object i.                                *)
Referrers(i) == {p \in Procs : item[p] = i}

(* item.refs is the number of requests between their two sections under     *)
(* locker.mu.                                                               *)
RefsCountReferrers == \A i \in Items : refs[i] = Cardinality(Referrers(i))

(* A request that is not out uses the object the map has for its key, so    *)
(* that requests for one key meet at one mutex.                             *)
ReferrersShareItem ==
  \A p \in Procs : /\ pc[p] = "out" => item[p] = NoItem
                   /\ pc[p] # "out" => item[p] # NoItem /\ items[key[p]] = item[p]

(* Different keys never share a mutex.                                      *)
KeysHaveOwnItem == \A k, l \in Keys : items[k] = items[l] /\ items[k] # NoItem => k = l

(* The map keeps no entry that no request refers to.                        *)
EntriesInUse ==
  \A k \in Keys : items[k] # NoItem =>
    \E p \in Procs : item[p] = items[k] /\ key[p] = k /\ pc[p] # "out"

(* item.mu is held exactly by the request that is in.                       *)
HoldersAreIn ==
  /\ \A p \in Procs : pc[p] = "in" => holder[item[p]] = p
  /\ \A i \in Items : holder[i] # NoProc => pc[holder[i]] = "in" /\ item[holder[i]] = i

(* Two requests are never between lock and unlock for the same key, however *)
(* creation and deletion of the entry interleave with their waiting         *)
(* (npmproxy/proxy.go:351-371).                                             *)
MutualExclusion ==
  \A p, q \in Procs : pc[p] = "in" /\ pc[q] = "in" /\ key[p] = key[q] => p = q

(* The map holds exactly the keys some request is waiting for, using or     *)
(* leaving: entries are neither lost while used nor leaked                  *)
(* (npmproxy/proxy.go:364-369).                                             *)
MapHoldsKeysInUse ==
  \A k \in Keys : items[k] # NoItem <=> \E p \in Procs : pc[p] # "out" /\ key[p] = k

(* Every request that waits for a key gets it.                              *)
WaitersEnter == \A p \in Procs : pc[p] = "waiting" ~> pc[p] = "in"

(* keyedLocker implements a mutex per key; leaving takes effect when the    *)
(* item is unlocked, before the reference is dropped.                       *)
Mutex == INSTANCE PerKeyMutex WITH
           phase <- [p \in Procs |-> IF pc[p] = "leaving" THEN "out" ELSE pc[p]],
           wants <- key

ImplementsMutex == Mutex!MutexSpec
=============================================================================
