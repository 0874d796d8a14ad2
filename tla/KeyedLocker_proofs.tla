-------------------------- MODULE KeyedLocker_proofs --------------------------
(***************************************************************************)
(* Proofs about keyedLocker, for any number of requests, keys and lock      *)
(* objects.  Mutual exclusion rests on one fact that is not visible in it:  *)
(* while a request waits for, holds or leaves a key, the map entry of the   *)
(* key is the very object the request refers to.  That the entry is not     *)
(* deleted under a waiting request needs the reference count to be exact.   *)
(***************************************************************************)
EXTENDS KeyedLocker, FiniteSetTheorems, TLAPS

LockerInv ==
  /\ LockerTypeOK
  /\ RefsCountReferrers
  /\ ReferrersShareItem
  /\ KeysHaveOwnItem
  /\ EntriesInUse
  /\ HoldersAreIn

(***************************************************************************)
(* The requests that refer to an object form a finite set.                  *)
(***************************************************************************)
LEMMA ReferrersFinite ==
  ASSUME NEW i
  PROVE  IsFiniteSet(Referrers(i)) /\ Cardinality(Referrers(i)) \in Nat
<1>1. Referrers(i) \subseteq Procs
  BY DEF Referrers
<1>2. IsFiniteSet(Referrers(i))
  BY <1>1, ProcsAssumption, FS_Subset
<1> QED
  BY <1>2, FS_CardinalityType

(***************************************************************************)
(* No one refers to anything at first.                                      *)
(***************************************************************************)
LEMMA LockerInitInv == LockerInit => LockerInv
<1> SUFFICES ASSUME LockerInit PROVE LockerInv
  OBVIOUS
<1>1. RefsCountReferrers
  <2> SUFFICES ASSUME NEW i \in Items PROVE refs[i] = Cardinality(Referrers(i))
    BY DEF RefsCountReferrers
  <2>1. Referrers(i) = {}
    BY ItemsAssumption DEF LockerInit, Referrers
  <2> QED
    BY <2>1, FS_EmptySet DEF LockerInit
<1>2. LockerTypeOK
  BY DEF LockerInit, LockerTypeOK
<1> QED
  BY <1>1, <1>2 DEF LockerInit, LockerInv, ReferrersShareItem, KeysHaveOwnItem, EntriesInUse, HoldersAreIn

(***************************************************************************)
(* Taking a reference.                                                      *)
(***************************************************************************)
LEMMA ReferenceStep ==
  ASSUME LockerInv, NEW p \in Procs, NEW k \in Keys, Reference(p, k)
  PROVE  LockerInv'
<1> USE DEF LockerInv
<1>1. PICK i \in Items :
        /\ GetOrCreate(k, i)
        /\ refs' = [refs EXCEPT ![i] = @ + 1]
        /\ item' = [item EXCEPT ![p] = i]
  BY DEF Reference
<1>2. /\ pc[p] = "out"
      /\ key' = [key EXCEPT ![p] = k]
      /\ pc' = [pc EXCEPT ![p] = "waiting"]
      /\ holder' = holder
  BY DEF Reference
<1>3. /\ items' = [items EXCEPT ![k] = i]
      /\ items[k] # NoItem => i = items[k]
      /\ items[k] = NoItem => i \in Unreferenced
  BY <1>1 DEF GetOrCreate
<1>4. item[p] = NoItem /\ i # NoItem
  BY <1>2, ItemsAssumption DEF ReferrersShareItem
<1>5. LockerTypeOK'
  BY <1>1, <1>2, <1>3 DEF LockerTypeOK
<1>6. RefsCountReferrers'
  <2> SUFFICES ASSUME NEW j \in Items PROVE refs'[j] = Cardinality(Referrers(j)')
    BY DEF RefsCountReferrers
  <2>1. CASE j = i
    <3>1. Referrers(i)' = Referrers(i) \cup {p} /\ p \notin Referrers(i)
      BY <1>1, <1>4 DEF Referrers, LockerTypeOK
    <3>2. Cardinality(Referrers(i) \cup {p}) = Cardinality(Referrers(i)) + 1
      BY <3>1, ReferrersFinite, FS_AddElement
    <3> QED
      BY <1>1, <2>1, <3>1, <3>2 DEF RefsCountReferrers, LockerTypeOK
  <2>2. CASE j # i
    <3>1. Referrers(j)' = Referrers(j)
      BY <1>1, <1>4, <2>2, ItemsAssumption DEF Referrers, LockerTypeOK
    <3> QED
      BY <1>1, <2>2, <3>1 DEF RefsCountReferrers, LockerTypeOK
  <2> QED
    BY <2>1, <2>2
<1>7. ReferrersShareItem'
  <2>1. \A q \in Procs : q # p => item'[q] = item[q] /\ key'[q] = key[q] /\ pc'[q] = pc[q]
    BY <1>1, <1>2 DEF LockerTypeOK
  <2>2. item'[p] = i /\ key'[p] = k /\ pc'[p] = "waiting" /\ items'[k] = i
    BY <1>1, <1>2, <1>3 DEF LockerTypeOK
  <2>3. \A q \in Procs : pc[q] # "out" => items'[key[q]] = items[key[q]]
    BY <1>3 DEF LockerTypeOK, ReferrersShareItem
  <2> QED
    BY <1>4, <2>1, <2>2, <2>3 DEF ReferrersShareItem
<1>8. KeysHaveOwnItem'
  <2>1. \A l \in Keys : l # k => items'[l] = items[l] /\ items[l] # i
    <3> SUFFICES ASSUME NEW l \in Keys, l # k PROVE items'[l] = items[l] /\ items[l] # i
      OBVIOUS
    <3>1. items'[l] = items[l]
      BY <1>3 DEF LockerTypeOK
    <3>2. CASE items[k] = NoItem
      BY <1>3, <3>1, <3>2 DEF Unreferenced
    <3>3. CASE items[k] # NoItem
      BY <1>3, <3>1, <3>3 DEF KeysHaveOwnItem
    <3> QED
      BY <3>2, <3>3
  <2>2. items'[k] = i
    BY <1>3 DEF LockerTypeOK
  <2> QED
    BY <2>1, <2>2 DEF KeysHaveOwnItem
<1>9. EntriesInUse'
  <2> SUFFICES ASSUME NEW l \in Keys, items'[l] # NoItem
               PROVE  \E q \in Procs : item'[q] = items'[l] /\ key'[q] = l /\ pc'[q] # "out"
    BY DEF EntriesInUse
  <2>1. CASE l = k
    BY <1>1, <1>2, <1>3, <2>1 DEF LockerTypeOK
  <2>2. CASE l # k
    <3>1. items'[l] = items[l]
      BY <1>3, <2>2 DEF LockerTypeOK
    <3>2. PICK q \in Procs : item[q] = items[l] /\ key[q] = l /\ pc[q] # "out"
      BY <3>1 DEF EntriesInUse
    <3>3. q # p
      BY <1>2, <3>2
    <3> QED
      BY <1>1, <1>2, <3>1, <3>2, <3>3 DEF LockerTypeOK
  <2> QED
    BY <2>1, <2>2
<1>10. HoldersAreIn'
  BY <1>1, <1>2, ProcsAssumption DEF HoldersAreIn, LockerTypeOK
<1> QED
  BY <1>5, <1>6, <1>7, <1>8, <1>9, <1>10

(***************************************************************************)
(* Locking and unlocking the item change neither references nor the map.    *)
(***************************************************************************)
LEMMA ItemStep ==
  ASSUME LockerInv, NEW p \in Procs, LockItem(p) \/ UnlockItem(p)
  PROVE  LockerInv'
<1> USE DEF LockerInv
<1>1. /\ items' = items /\ refs' = refs /\ key' = key /\ item' = item
      /\ pc[p] # "out"
      /\ \A q \in Procs : pc'[q] = "out" <=> pc[q] = "out"
  BY DEF LockItem, UnlockItem, LockerTypeOK
<1>2. item[p] \in Items
  BY <1>1 DEF ReferrersShareItem, LockerTypeOK
<1>3. LockerTypeOK'
  BY DEF LockItem, UnlockItem, LockerTypeOK
<1>4. RefsCountReferrers'
  <2>1. \A i \in Items : Referrers(i)' = Referrers(i)
    BY <1>1 DEF Referrers
  <2> QED
    BY <1>1, <2>1 DEF RefsCountReferrers
<1>5. ReferrersShareItem' /\ KeysHaveOwnItem'
  BY <1>1 DEF ReferrersShareItem, KeysHaveOwnItem
<1>6. EntriesInUse'
  BY <1>1 DEF EntriesInUse
<1>7. HoldersAreIn'
  <2>1. CASE LockItem(p)
    BY <1>2, <2>1, ProcsAssumption DEF LockItem, HoldersAreIn, LockerTypeOK
  <2>2. CASE UnlockItem(p)
    BY <1>2, <2>2, ProcsAssumption DEF UnlockItem, HoldersAreIn, LockerTypeOK
  <2> QED
    BY <2>1, <2>2
<1> QED
  BY <1>3, <1>4, <1>5, <1>6, <1>7

(***************************************************************************)
(* Dropping a reference: the entry goes exactly when no one else has one.   *)
(***************************************************************************)
LEMMA UnreferenceStep ==
  ASSUME LockerInv, NEW p \in Procs, Unreference(p)
  PROVE  LockerInv'
<1> USE DEF LockerInv
<1>0. PICK i \in Items : item[p] = i
  BY DEF Unreference, ReferrersShareItem, LockerTypeOK
<1>1. /\ pc[p] = "leaving"
      /\ refs' = [refs EXCEPT ![i] = @ - 1]
      /\ items' = IF LastReference(p) THEN [items EXCEPT ![key[p]] = NoItem] ELSE items
      /\ item' = [item EXCEPT ![p] = NoItem]
      /\ pc' = [pc EXCEPT ![p] = "out"]
      /\ holder' = holder /\ key' = key
  BY <1>0 DEF Unreference
<1>2. i \in Items /\ items[key[p]] = i /\ key[p] \in Keys
  BY <1>0, <1>1 DEF ReferrersShareItem, LockerTypeOK
<1>3. p \in Referrers(i) /\ refs[i] = Cardinality(Referrers(i))
  BY <1>0, <1>2 DEF Referrers, RefsCountReferrers
<1>4. LastReference(p) => Referrers(i) = {p}
  <2> SUFFICES ASSUME LastReference(p) PROVE Referrers(i) = {p}
    OBVIOUS
  <2>1. Cardinality(Referrers(i)) = 1
    BY <1>0, <1>3 DEF LastReference
  <2>2. PICK x : Referrers(i) = {x}
    BY <2>1, ReferrersFinite, FS_Singleton
  <2> QED
    BY <1>3, <2>2
<1>5. ~LastReference(p) => \E q \in Referrers(i) : q # p
  <2> SUFFICES ASSUME \A q \in Referrers(i) : q = p PROVE LastReference(p)
    OBVIOUS
  <2>1. Referrers(i) = {p}
    BY <1>3
  <2> QED
    BY <1>0, <1>3, <2>1, FS_Singleton DEF LastReference
<1>6. refs[i] \in Nat /\ refs[i] # 0
  <2>1. Referrers(i) # {}
    BY <1>3
  <2>2. Cardinality(Referrers(i)) # 0
    BY <2>1, ReferrersFinite, FS_EmptySet
  <2> QED
    BY <1>3, <2>2, ReferrersFinite
<1>7. LockerTypeOK'
  <2>1. refs[i] - 1 \in Nat
    BY <1>6
  <2>2. refs' \in [Items -> Nat]
    BY <1>1, <2>1 DEF LockerTypeOK
  <2> QED
    BY <1>1, <1>2, <2>2 DEF LockerTypeOK
<1>8. RefsCountReferrers'
  <2> SUFFICES ASSUME NEW j \in Items PROVE refs'[j] = Cardinality(Referrers(j)')
    BY DEF RefsCountReferrers
  <2>1. CASE j = i
    <3>1. Referrers(i)' = Referrers(i) \ {p}
      BY <1>0, <1>1, <1>2, ItemsAssumption DEF Referrers, LockerTypeOK
    <3>2. Cardinality(Referrers(i) \ {p}) = Cardinality(Referrers(i)) - 1
      BY <1>3, ReferrersFinite, FS_RemoveElement
    <3> QED
      BY <1>1, <1>2, <1>3, <2>1, <3>1, <3>2 DEF LockerTypeOK
  <2>2. CASE j # i
    <3>1. Referrers(j)' = Referrers(j)
      BY <1>0, <1>1, <2>2, ItemsAssumption DEF Referrers, LockerTypeOK
    <3> QED
      BY <1>1, <2>2, <3>1 DEF RefsCountReferrers, LockerTypeOK
  <2> QED
    BY <2>1, <2>2
<1>9. ASSUME NEW q \in Procs, pc[q] # "out", q # p
      PROVE  items'[key[q]] = items[key[q]]
  <2>1. CASE LastReference(p)
    <3>1. item[q] # i
      BY <1>4, <1>9, <2>1 DEF Referrers
    <3>2. key[q] # key[p]
      BY <1>2, <1>9, <3>1 DEF ReferrersShareItem
    <3> QED
      BY <1>1, <2>1, <3>2 DEF LockerTypeOK
  <2>2. CASE ~LastReference(p)
    BY <1>1, <2>2
  <2> QED
    BY <2>1, <2>2
<1>10. ReferrersShareItem'
  <2>1. item'[p] = NoItem /\ pc'[p] = "out"
    BY <1>1 DEF LockerTypeOK
  <2>2. \A q \in Procs : q # p => item'[q] = item[q] /\ pc'[q] = pc[q] /\ key'[q] = key[q]
    BY <1>1 DEF LockerTypeOK
  <2> QED
    BY <1>9, <2>1, <2>2 DEF ReferrersShareItem
<1>11. KeysHaveOwnItem'
  BY <1>0, <1>1, <1>2 DEF KeysHaveOwnItem, LockerTypeOK
<1>12. EntriesInUse'
  <2> SUFFICES ASSUME NEW l \in Keys, items'[l] # NoItem
               PROVE  \E q \in Procs : item'[q] = items'[l] /\ key'[q] = l /\ pc'[q] # "out"
    BY DEF EntriesInUse
  <2>1. items'[l] = items[l]
    BY <1>1 DEF LockerTypeOK
  <2>2. PICK q \in Procs : item[q] = items[l] /\ key[q] = l /\ pc[q] # "out"
    BY <2>1 DEF EntriesInUse
  <2>3. CASE q # p
    BY <1>1, <2>1, <2>2, <2>3 DEF LockerTypeOK
  <2>4. CASE q = p
    <3>1. ~LastReference(p)
      BY <1>0, <1>1, <1>2, <2>2, <2>4 DEF LockerTypeOK
    <3>2. PICK r \in Referrers(i) : r # p
      BY <1>5, <3>1
    <3>3. r \in Procs /\ item[r] = i /\ pc[r] # "out"
      BY <1>2, <3>2, ItemsAssumption DEF Referrers, ReferrersShareItem
    <3>4. key[r] = l
      BY <1>0, <1>2, <2>2, <2>4, <3>3, ItemsAssumption DEF ReferrersShareItem, KeysHaveOwnItem, LockerTypeOK
    <3>5. item'[r] = items'[l]
      BY <1>0, <1>1, <1>2, <2>1, <2>2, <2>4, <3>2, <3>3 DEF LockerTypeOK
    <3> QED
      BY <1>1, <3>2, <3>3, <3>4, <3>5 DEF LockerTypeOK
  <2> QED
    BY <2>3, <2>4
<1>13. HoldersAreIn'
  BY <1>0, <1>1, <1>2, ProcsAssumption DEF HoldersAreIn, LockerTypeOK
<1> QED
  BY <1>7, <1>8, <1>10, <1>11, <1>12, <1>13

(***************************************************************************)
(* Every step of every request preserves the invariant.                     *)
(***************************************************************************)
LEMMA LockerStepInv == LockerInv /\ [LockerNext]_lockerVars => LockerInv'
<1> SUFFICES ASSUME LockerInv, [LockerNext]_lockerVars PROVE LockerInv'
  OBVIOUS
<1>1. ASSUME NEW p \in Procs, NEW k \in Keys, Reference(p, k) PROVE LockerInv'
  BY <1>1, ReferenceStep
<1>2. ASSUME NEW p \in Procs, LockItem(p) \/ UnlockItem(p) PROVE LockerInv'
  BY <1>2, ItemStep
<1>3. ASSUME NEW p \in Procs, Unreference(p) PROVE LockerInv'
  BY <1>3, UnreferenceStep
<1>4. ASSUME UNCHANGED lockerVars PROVE LockerInv'
  <2>1. \A i : Referrers(i)' = Referrers(i)
    BY <1>4 DEF lockerVars, Referrers
  <2>2. RefsCountReferrers'
    BY <1>4, <2>1 DEF lockerVars, LockerInv, RefsCountReferrers
  <2> QED
    BY <1>4, <2>2 DEF lockerVars, LockerInv, LockerTypeOK, ReferrersShareItem, KeysHaveOwnItem,
                      EntriesInUse, HoldersAreIn
<1> QED
  BY <1>1, <1>2, <1>3, <1>4 DEF LockerNext

(***************************************************************************)
(* The inductive invariant holds in every reachable state.                  *)
(***************************************************************************)
LEMMA LockerInvariant == LockerSpec => []LockerInv
  BY LockerInitInv, LockerStepInv, PTL DEF LockerSpec

(***************************************************************************)
(* Two requests that are in with the same key are one.                      *)
(***************************************************************************)
LEMMA InvExcludes == LockerInv => MutualExclusion
  BY DEF LockerInv, ReferrersShareItem, HoldersAreIn, MutualExclusion

(***************************************************************************)
(* No two requests are between lock and unlock for the same key, for any    *)
(* number of requests and keys (npmproxy/proxy.go:351-371).                 *)
(***************************************************************************)
THEOREM KeyedLockerExcludes == LockerSpec => []MutualExclusion
  BY LockerInvariant, InvExcludes, PTL

(***************************************************************************)
(* The map has an entry for a key exactly while some request uses the key:  *)
(* it cannot leak entries, nor lose one that is in use                      *)
(* (npmproxy/proxy.go:364-369).                                             *)
(***************************************************************************)
THEOREM KeyedLockerMapExact == LockerSpec => []MapHoldsKeysInUse
<1>1. LockerInv => MapHoldsKeysInUse
  BY DEF LockerInv, ReferrersShareItem, EntriesInUse, MapHoldsKeysInUse
<1> QED
  BY <1>1, LockerInvariant, PTL

(***************************************************************************)
(* keyedLocker implements the abstract mutex per key.                       *)
(***************************************************************************)
THEOREM KeyedLockerImplementsMutex == LockerSpec => ImplementsMutex
<1>1. LockerInit => Mutex!MutexInit
  BY DEF LockerInit, Mutex!MutexInit
<1>2. LockerInv /\ [LockerNext]_lockerVars => [Mutex!MutexNext]_Mutex!mutexVars
  <2> SUFFICES ASSUME LockerInv, [LockerNext]_lockerVars
               PROVE  [Mutex!MutexNext]_Mutex!mutexVars
    OBVIOUS
  <2> USE DEF LockerInv, LockerTypeOK
  <2>1. ASSUME NEW p \in Procs, NEW k \in Keys, Reference(p, k) PROVE Mutex!Ask(p, k)
    BY <2>1 DEF Reference, Mutex!Ask
  <2>2. ASSUME NEW p \in Procs, LockItem(p) PROVE Mutex!Enter(p)
    <3>1. \A q \in Procs : pc[q] = "in" => key[q] # key[p]
      BY <2>2, ProcsAssumption DEF LockItem, HoldersAreIn, ReferrersShareItem
    <3> QED
      BY <2>2, <3>1 DEF LockItem, Mutex!Enter
  <2>3. ASSUME NEW p \in Procs, UnlockItem(p) PROVE Mutex!Leave(p)
    BY <2>3 DEF UnlockItem, Mutex!Leave
  <2>4. ASSUME NEW p \in Procs, Unreference(p) PROVE UNCHANGED Mutex!mutexVars
    BY <2>4 DEF Unreference, Mutex!mutexVars
  <2>5. ASSUME UNCHANGED lockerVars PROVE UNCHANGED Mutex!mutexVars
    BY <2>5 DEF lockerVars, Mutex!mutexVars
  <2> QED
    BY <2>1, <2>2, <2>3, <2>4, <2>5 DEF LockerNext, Mutex!MutexNext
<1> QED
  BY <1>1, <1>2, LockerInvariant, PTL DEF LockerSpec, ImplementsMutex, Mutex!MutexSpec
=============================================================================
