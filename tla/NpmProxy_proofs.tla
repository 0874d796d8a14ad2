--------------------------- MODULE NpmProxy_proofs ---------------------------
(***************************************************************************)
(* Proofs about NpmProxy, for any number of requests, keys, users, versions *)
(* and expiries.                                                            *)
(***************************************************************************)
EXTENDS NpmProxy, FiniteSetTheorems, TLAPS

(***************************************************************************)
(* The lock excludes, and a key that is being filled has no entry, or the   *)
(* one that was there when the request went upstream.                       *)
(***************************************************************************)
Exclusive ==
  \A p, q \in Procs : phase[p] = "in" /\ phase[q] = "in" /\ wants[p] = wants[q] => p = q
NothingNewWhileFilling == \A p \in Procs : Fetching(p) => entry[Key(p)] \in {NoEntry, seen[p]}

(***************************************************************************)
(* A fetch is charged to the entry there is, to the fetch that goes on or   *)
(* to a loss.                                                               *)
(***************************************************************************)
Covered(k) == entry[k] # NoEntry \/ \E p \in Procs : Fetching(p) /\ Key(p) = k
FetchesCharged == \A k \in Keys : fetches[k] <= losses[k] + (IF Covered(k) THEN 1 ELSE 0)

(***************************************************************************)
(* The answer a request holds is no older than anything stored under its    *)
(* key, and no newer than what the upstream has.                            *)
(***************************************************************************)
AnswersInOrder ==
  /\ \A k \in Keys : newest[k] <= upstream[k]
  /\ \A p \in Procs : pc[p] \in AnsweredPCs =>
       /\ answer[p].content.version <= upstream[Key(p)]
       /\ Fills(p) => newest[Key(p)] <= answer[p].content.version

(***************************************************************************)
(* Answers are for the user they were asked for, and requests that look     *)
(* into the cache are asked for no one in particular.                       *)
(***************************************************************************)
AnswersAddressed ==
  /\ \A p \in Procs : pc[p] = "lookup" => CacheableRequest(req[p])
  /\ \A p \in Procs : pc[p] \in AnsweredPCs => answer[p].content.givenTo = ForwardedUser(req[p])

-----------------------------------------------------------------------------
(***************************************************************************)
(* The variables of the proxy have their types in every reachable state.    *)
(***************************************************************************)
LEMMA NpmTypeInit == NpmInit => NpmTypeOK
<1> SUFFICES ASSUME NpmInit PROVE NpmTypeOK
  OBVIOUS
<1>1. stats \in [requests : Nat, hits : Nat, misses : Nat, rejected : Nat]
  BY DEF NpmInit
<1>2. req \in [Procs -> Requests] /\ \A p \in Procs : Key(p) \in Keys
  BY DEF NpmInit, Requests, Key
<1> QED
  BY <1>1, <1>2 DEF NpmInit, NpmTypeOK, PCs, LockedPCs, AnsweredPCs

LEMMA NpmTypeStep == NpmTypeOK /\ [NpmNext]_npmVars => NpmTypeOK'
<1> SUFFICES ASSUME NpmTypeOK, [NpmNext]_npmVars PROVE NpmTypeOK'
  OBVIOUS
<1> USE DEF NpmTypeOK, PCs, LockedPCs, AnsweredPCs, Key, At, Goto, lock, locals, aux
<1>1. CASE Reject
  <2>1. stats' \in [requests : Nat, hits : Nat, misses : Nat, rejected : Nat]
    <3> DEFINE t == [stats EXCEPT !.requests = @ + 1]
    <3>1. t \in [requests : Nat, hits : Nat, misses : Nat, rejected : Nat]
      OBVIOUS
    <3>2. stats' = [t EXCEPT !.rejected = @ + 1]
      BY <1>1 DEF Reject
    <3> HIDE DEF t
    <3> QED
      BY <3>1, <3>2
  <2> QED
    BY <1>1, <2>1 DEF Reject
<1>2. ASSUME NEW p \in Procs, NEW r \in Requests, Arrive(p, r) PROVE NpmTypeOK'
  BY <1>2 DEF Arrive
<1>3. ASSUME NEW p \in Procs, LookupHit(p) PROVE NpmTypeOK'
  BY <1>3 DEF LookupHit, ServeHit, Requests
<1>4. ASSUME NEW p \in Procs, LookupMiss(p) PROVE NpmTypeOK'
  BY <1>4 DEF LookupMiss
<1>5. ASSUME NEW p \in Procs, AwaitKey(p) PROVE NpmTypeOK'
  BY <1>5 DEF AwaitKey, Ask, Requests
<1>6. ASSUME NEW p \in Procs, EnterKey(p) PROVE NpmTypeOK'
  BY <1>6 DEF EnterKey, Enter
<1>7. ASSUME NEW p \in Procs, RecheckHit(p) PROVE NpmTypeOK'
  BY <1>7 DEF RecheckHit, ServeHit, Requests
<1>8. ASSUME NEW p \in Procs, Miss(p) PROVE NpmTypeOK'
  BY <1>8 DEF Miss, GoUpstream, Requests
<1>17. ASSUME NEW p \in Procs, RecheckErrs(p) PROVE NpmTypeOK'
  BY <1>17 DEF RecheckErrs, GoUpstream, Requests
<1>18. ASSUME NEW p \in Procs, Send(p) PROVE NpmTypeOK'
  BY <1>18 DEF Send
<1>9. ASSUME NEW p \in Procs, NEW storable \in BOOLEAN, NEW metadata \in BOOLEAN,
             Fetch(p, storable, metadata)
      PROVE  NpmTypeOK'
  BY <1>9, NullAssumption DEF Fetch, Answers, Responses, ForwardedUser, Requests
<1>10. ASSUME NEW p \in Procs, FetchFails(p) PROVE NpmTypeOK'
  BY <1>10 DEF FetchFails, CountLoss, Requests
<1>11. ASSUME NEW p \in Procs, RespondAndStore(p) PROVE NpmTypeOK'
  BY <1>11 DEF RespondAndStore, Reply, Put, Requests, Answers, Responses
<1>12. ASSUME NEW p \in Procs, RespondOnly(p) PROVE NpmTypeOK'
  BY <1>12 DEF RespondOnly, Reply, CountLoss, Requests, Responses
<1>13. ASSUME NEW p \in Procs, Unlock(p) PROVE NpmTypeOK'
  BY <1>13 DEF Unlock, Leave
<1>14. ASSUME NEW k \in Keys, Expire(k) PROVE NpmTypeOK'
  BY <1>14 DEF Expire, Drop
<1>15. ASSUME NEW k \in Keys, Publish(k) PROVE NpmTypeOK'
  BY <1>15 DEF Publish
<1>16. CASE UNCHANGED npmVars
  BY <1>16 DEF npmVars
<1> QED
  BY <1>1, <1>2, <1>3, <1>4, <1>5, <1>6, <1>7, <1>8, <1>9, <1>10, <1>11, <1>12, <1>13, <1>14,
     <1>15, <1>16, <1>17, <1>18 DEF NpmNext, Handle

(***************************************************************************)
(* One request at a time has a key, and nobody else stores under it.        *)
(***************************************************************************)
LEMMA FillStep ==
  ASSUME NpmTypeOK, NpmTypeOK', Exclusive, NothingNewWhileFilling, [NpmNext]_npmVars
  PROVE  Exclusive' /\ NothingNewWhileFilling'
<1> USE DEF NpmTypeOK, PCs, LockedPCs, AnsweredPCs, Key, At, Goto, lock, locals, aux, Fetching, Fills
<1>1. ASSUME NEW p \in Procs, EnterKey(p) PROVE Exclusive' /\ NothingNewWhileFilling'
  BY <1>1 DEF EnterKey, Enter, Exclusive, NothingNewWhileFilling
<1>2. ASSUME NEW p \in Procs, AwaitKey(p) PROVE Exclusive' /\ NothingNewWhileFilling'
  BY <1>2 DEF AwaitKey, Ask, Exclusive, NothingNewWhileFilling
<1>3. ASSUME NEW p \in Procs, Unlock(p) PROVE Exclusive' /\ NothingNewWhileFilling'
  BY <1>3 DEF Unlock, Leave, Exclusive, NothingNewWhileFilling
<1>4. ASSUME NEW p \in Procs, NEW r \in Requests, Arrive(p, r)
      PROVE  Exclusive' /\ NothingNewWhileFilling'
  BY <1>4 DEF Arrive, Exclusive, NothingNewWhileFilling
<1>5. ASSUME NEW p \in Procs, Miss(p) \/ RecheckErrs(p)
      PROVE  Exclusive' /\ NothingNewWhileFilling'
  BY <1>5 DEF Miss, RecheckErrs, GoUpstream, Exclusive, NothingNewWhileFilling
<1>6. ASSUME NEW p \in Procs, RespondAndStore(p) PROVE Exclusive' /\ NothingNewWhileFilling'
  <2>1. Exclusive'
    BY <1>6 DEF RespondAndStore, Reply, Exclusive
  <2>2. ASSUME NEW q \in Procs, Fetching(q)' PROVE entry'[Key(q)'] \in {NoEntry, seen'[q]}
    <3>1. q # p /\ Fetching(q) /\ Key(q)' = Key(q) /\ seen' = seen
      BY <1>6, <2>2 DEF RespondAndStore, Reply
    <3>2. phase[p] = "in" /\ phase[q] = "in" /\ wants[p] = Key(p) /\ wants[q] = Key(q)
      BY <1>6, <3>1 DEF RespondAndStore, Reply
    <3>3. Key(q) # Key(p)
      BY <3>1, <3>2 DEF Exclusive
    <3> QED
      BY <1>6, <3>1, <3>3 DEF RespondAndStore, Put, NothingNewWhileFilling
  <2> QED
    BY <2>1, <2>2 DEF NothingNewWhileFilling
<1>7. ASSUME NEW p \in Procs,
             LookupHit(p) \/ LookupMiss(p) \/ RecheckHit(p) \/ Send(p) \/ FetchFails(p)
               \/ RespondOnly(p)
      PROVE  Exclusive' /\ NothingNewWhileFilling'
  BY <1>7 DEF LookupHit, LookupMiss, RecheckHit, ServeHit, Send, FetchFails, RespondOnly, Reply,
              Exclusive, NothingNewWhileFilling
<1>8. ASSUME NEW p \in Procs, NEW storable \in BOOLEAN, NEW metadata \in BOOLEAN,
             Fetch(p, storable, metadata)
      PROVE  Exclusive' /\ NothingNewWhileFilling'
  BY <1>8 DEF Fetch, Exclusive, NothingNewWhileFilling
<1>9. ASSUME NEW k \in Keys, Expire(k) \/ Publish(k) PROVE Exclusive' /\ NothingNewWhileFilling'
  BY <1>9 DEF Expire, Drop, Publish, Exclusive, NothingNewWhileFilling
<1>10. CASE Reject \/ UNCHANGED npmVars
  BY <1>10 DEF Reject, npmVars, Exclusive, NothingNewWhileFilling
<1> QED
  BY <1>1, <1>2, <1>3, <1>4, <1>5, <1>6, <1>7, <1>8, <1>9, <1>10 DEF NpmNext, Handle

(***************************************************************************)
(* A fetch starts for a key that is not covered or together with a loss,    *)
(* and a key loses its cover only together with a loss.                     *)
(***************************************************************************)
LEMMA ChargeStep ==
  ASSUME NpmTypeOK, NpmTypeOK', Exclusive, NothingNewWhileFilling, FetchesCharged, [NpmNext]_npmVars
  PROVE  FetchesCharged'
<1> USE DEF NpmTypeOK, PCs, LockedPCs, AnsweredPCs, Key, At, Goto, lock, locals, aux, Fetching, Fills
<1>1. ASSUME fetches' = fetches, losses' = losses, \A k \in Keys : Covered(k) => Covered(k)'
      PROVE  FetchesCharged'
  BY <1>1 DEF FetchesCharged
<1>2. ASSUME entry' = entry, fetches' = fetches, losses' = losses,
             \A q \in Procs : Fetching(q) => Fetching(q)' /\ Key(q)' = Key(q)
      PROVE  FetchesCharged'
  BY <1>1, <1>2 DEF Covered
<1>3. ASSUME NEW p \in Procs, Miss(p) PROVE FetchesCharged'
  <2>1. CASE ~Fills(p)
    BY <1>2, <1>3, <2>1 DEF Miss, GoUpstream
  <2>2. CASE Fills(p)
    <3>1. entry[Key(p)] = NoEntry
      BY <1>3, <2>2 DEF Miss, RecheckFails
    <3>2. ASSUME NEW q \in Procs, Fetching(q), Key(q) = Key(p) PROVE FALSE
      <4>1. phase[p] = "in" /\ phase[q] = "in" /\ wants[p] = Key(p) /\ wants[q] = Key(q)
        BY <1>3, <3>2 DEF Miss
      <4>2. q = p
        BY <3>2, <4>1 DEF Exclusive
      <4> QED
        BY <1>3, <3>2, <4>2 DEF Miss
    <3>3. ~Covered(Key(p))
      BY <3>1, <3>2 DEF Covered
    <3>4. fetches[Key(p)] <= losses[Key(p)] /\ Key(p) \in Keys
      BY <3>3 DEF FetchesCharged, Requests
    <3>5. ASSUME NEW k \in Keys, k = Key(p) PROVE Covered(k)'
      <4>1. Fetching(p)' /\ Key(p)' = Key(p)
        BY <1>3, <2>2 DEF Miss, GoUpstream
      <4> QED
        BY <3>5, <4>1 DEF Covered
    <3>6. ASSUME NEW k \in Keys, k # Key(p) PROVE Covered(k) => Covered(k)'
      BY <1>3, <3>6 DEF Miss, GoUpstream, Covered
    <3>7. ASSUME NEW k \in Keys
          PROVE  fetches'[k] <= losses'[k] + (IF Covered(k)' THEN 1 ELSE 0)
      <4>1. fetches' = [fetches EXCEPT ![Key(p)] = @ + 1] /\ losses' = losses
        BY <1>3, <2>2 DEF Miss, GoUpstream
      <4>2. CASE k = Key(p)
        BY <3>4, <3>5, <4>1, <4>2
      <4>3. CASE k # Key(p)
        BY <3>6, <4>1, <4>3 DEF FetchesCharged
      <4> QED
        BY <4>2, <4>3
    <3> QED
      BY <3>7 DEF FetchesCharged
  <2> QED
    BY <2>1, <2>2
<1>11. ASSUME NEW p \in Procs, RecheckErrs(p) PROVE FetchesCharged'
  <2>1. \A k \in Keys : Covered(k) => Covered(k)'
    BY <1>11 DEF RecheckErrs, GoUpstream, Covered
  <2>2. \/ fetches' = fetches /\ losses' = losses
        \/ /\ fetches' = [fetches EXCEPT ![Key(p)] = @ + 1]
           /\ losses' = [losses EXCEPT ![Key(p)] = @ + 1]
    BY <1>11 DEF RecheckErrs, GoUpstream
  <2>3. ASSUME NEW k \in Keys
        PROVE  fetches'[k] <= losses'[k] + (IF Covered(k)' THEN 1 ELSE 0)
    <3>1. fetches[k] <= losses[k] + (IF Covered(k) THEN 1 ELSE 0)
      BY DEF FetchesCharged
    <3>2. fetches[k] \in Nat /\ losses[k] \in Nat
      OBVIOUS
    <3>3. \/ fetches'[k] = fetches[k] /\ losses'[k] = losses[k]
          \/ fetches'[k] = fetches[k] + 1 /\ losses'[k] = losses[k] + 1
      BY <2>2
    <3> QED
      BY <2>1, <3>1, <3>2, <3>3
  <2> QED
    BY <2>3 DEF FetchesCharged
<1>4. ASSUME NEW p \in Procs, FetchFails(p) \/ RespondOnly(p) PROVE FetchesCharged'
  <2>1. CASE ~Fills(p) \/ entry[Key(p)] # NoEntry
    <3>1. entry' = entry /\ fetches' = fetches /\ losses' = losses
      BY <1>4, <2>1 DEF FetchFails, RespondOnly, Reply, CountLoss
    <3>2. \A q \in Procs : q # p => (Fetching(q) => Fetching(q)' /\ Key(q)' = Key(q))
      BY <1>4 DEF FetchFails, RespondOnly, Reply
    <3>3. \A k \in Keys : Covered(k) => Covered(k)'
      BY <2>1, <3>1, <3>2 DEF Covered
    <3> QED
      BY <1>1, <3>1, <3>3
  <2>2. CASE Fills(p) /\ entry[Key(p)] = NoEntry
    <3>1. /\ entry' = entry /\ fetches' = fetches
          /\ losses' = [losses EXCEPT ![Key(p)] = @ + 1]
      BY <1>4, <2>2 DEF FetchFails, RespondOnly, Reply, CountLoss
    <3>2. ASSUME NEW k \in Keys, k # Key(p) PROVE Covered(k) => Covered(k)'
      BY <1>4, <3>2 DEF FetchFails, RespondOnly, Reply, Covered
    <3>3. ASSUME NEW k \in Keys
          PROVE  fetches'[k] <= losses'[k] + (IF Covered(k)' THEN 1 ELSE 0)
      <4>1. CASE k = Key(p)
        BY <3>1, <4>1 DEF FetchesCharged
      <4>2. CASE k # Key(p)
        BY <3>1, <3>2, <4>2 DEF FetchesCharged
      <4> QED
        BY <4>1, <4>2
    <3> QED
      BY <3>3 DEF FetchesCharged
  <2> QED
    BY <2>1, <2>2
<1>5. ASSUME NEW p \in Procs, RespondAndStore(p) PROVE FetchesCharged'
  <2>1. fetches' = fetches /\ losses' = losses
    BY <1>5 DEF RespondAndStore, Reply
  <2>3. ASSUME NEW k \in Keys, k # Key(p), Covered(k) PROVE Covered(k)'
    BY <1>5, <2>3 DEF RespondAndStore, Reply, Put, Covered
  <2>4. ASSUME NEW k \in Keys, Covered(k) PROVE Covered(k)'
    <3>1. CASE k = Key(p)
      BY <1>5, <3>1, NullAssumption DEF RespondAndStore, Reply, Put, Covered, Requests
    <3> QED
      BY <2>3, <2>4, <3>1
  <2> QED
    BY <1>1, <2>1, <2>4
<1>6. ASSUME NEW k \in Keys, Expire(k) PROVE FetchesCharged'
  <2>1. /\ fetches' = fetches /\ losses' = [losses EXCEPT ![k] = @ + 1]
        /\ entry' = [entry EXCEPT ![k] = NoEntry] /\ pc' = pc /\ req' = req
    BY <1>6 DEF Expire, Drop
  <2>2. ASSUME NEW l \in Keys, l # k PROVE Covered(l) => Covered(l)'
    BY <2>1, <2>2 DEF Covered
  <2>3. ASSUME NEW l \in Keys
        PROVE  fetches'[l] <= losses'[l] + (IF Covered(l)' THEN 1 ELSE 0)
    <3>1. CASE l = k
      BY <2>1, <3>1 DEF FetchesCharged
    <3>2. CASE l # k
      BY <2>1, <2>2, <3>2 DEF FetchesCharged
    <3> QED
      BY <3>1, <3>2
  <2> QED
    BY <2>3 DEF FetchesCharged
<1>7. ASSUME NEW p \in Procs,
             LookupHit(p) \/ LookupMiss(p) \/ AwaitKey(p) \/ EnterKey(p) \/ RecheckHit(p) \/ Send(p)
               \/ Unlock(p)
      PROVE  FetchesCharged'
  <2>1. entry' = entry /\ fetches' = fetches /\ losses' = losses
    BY <1>7 DEF LookupHit, LookupMiss, AwaitKey, EnterKey, RecheckHit, Send, Unlock
  <2>2. \A q \in Procs : Fetching(q) => Fetching(q)' /\ Key(q)' = Key(q)
    BY <1>7 DEF LookupHit, LookupMiss, AwaitKey, EnterKey, RecheckHit, Send, Unlock
  <2> QED
    BY <1>2, <2>1, <2>2
<1>8. ASSUME NEW p \in Procs, NEW r \in Requests, Arrive(p, r) PROVE FetchesCharged'
  <2>1. \A q \in Procs : Fetching(q) => Fetching(q)' /\ Key(q)' = Key(q)
    BY <1>8 DEF Arrive
  <2> QED
    BY <1>2, <1>8, <2>1 DEF Arrive
<1>9. ASSUME NEW p \in Procs, NEW storable \in BOOLEAN, NEW metadata \in BOOLEAN,
             Fetch(p, storable, metadata)
      PROVE  FetchesCharged'
  <2>1. \A q \in Procs : Fetching(q) => Fetching(q)' /\ Key(q)' = Key(q)
    BY <1>9 DEF Fetch
  <2> QED
    BY <1>2, <1>9, <2>1 DEF Fetch
<1>10. CASE Reject \/ (\E k \in Keys : Publish(k)) \/ UNCHANGED npmVars
  BY <1>2, <1>10 DEF Reject, Publish, npmVars
<1> QED
  BY <1>3, <1>4, <1>5, <1>6, <1>7, <1>8, <1>9, <1>10, <1>11 DEF NpmNext, Handle

(***************************************************************************)
(* Nobody stores under a key between the moment a request reads the         *)
(* upstream's version and the moment it stores it.                          *)
(***************************************************************************)
LEMMA OrderStep ==
  ASSUME NpmTypeOK, NpmTypeOK', Exclusive, AnswersInOrder, [NpmNext]_npmVars
  PROVE  AnswersInOrder' /\ \A k \in Keys : newest'[k] >= newest[k]
<1> USE DEF NpmTypeOK, PCs, LockedPCs, AnsweredPCs, Key, At, Goto, lock, locals, aux, Fills
<1> DEFINE Goal == AnswersInOrder' /\ \A k \in Keys : newest'[k] >= newest[k]
<1>1. ASSUME NEW p \in Procs, RespondAndStore(p) PROVE Goal
  <2>1. /\ newest' = [newest EXCEPT ![Key(p)] = answer[p].content.version]
        /\ upstream' = upstream /\ req' = req /\ pc[p] \in AnsweredPCs /\ Fills(p)
        /\ answer' = [answer EXCEPT ![p] = NoAnswer]
        /\ pc'[p] \notin AnsweredPCs /\ \A q \in Procs : q # p => pc'[q] = pc[q]
    BY <1>1 DEF RespondAndStore, Reply, MayStore
  <2>2. /\ Key(p) \in Keys /\ answer[p].content.version \in Nat
        /\ answer[p].content.version <= upstream[Key(p)]
        /\ newest[Key(p)] <= answer[p].content.version
    BY <2>1 DEF AnswersInOrder, Responses, Answers, Requests
  <2>3. \A k \in Keys : newest'[k] >= newest[k] /\ newest'[k] <= upstream'[k]
    BY <2>1, <2>2 DEF AnswersInOrder
  <2>4. ASSUME NEW q \in Procs, pc'[q] \in AnsweredPCs
        PROVE  /\ answer'[q].content.version <= upstream'[Key(q)']
               /\ Fills(q)' => newest'[Key(q)'] <= answer'[q].content.version
    <3>1. q # p /\ pc[q] \in AnsweredPCs /\ answer'[q] = answer[q] /\ Key(q)' = Key(q)
      BY <2>1, <2>4
    <3>2. phase[p] = "in" /\ phase[q] = "in" /\ wants[p] = Key(p) /\ wants[q] = Key(q)
      BY <2>1, <3>1
    <3>3. Key(q) # Key(p)
      BY <3>1, <3>2 DEF Exclusive
    <3> QED
      BY <2>1, <3>1, <3>3 DEF AnswersInOrder, CacheableRequest
  <2> QED
    BY <2>3, <2>4 DEF AnswersInOrder
<1>2. ASSUME NEW p \in Procs, NEW storable \in BOOLEAN, NEW metadata \in BOOLEAN,
             Fetch(p, storable, metadata)
      PROVE  Goal
  <2>1. /\ newest' = newest /\ upstream' = upstream /\ req' = req
        /\ \A q \in Procs : q # p => pc'[q] = pc[q]
        /\ \A q \in Procs : q # p => answer'[q] = answer[q]
        /\ answer'[p].content.version = upstream[Key(p)]
    BY <1>2 DEF Fetch
  <2>2. Key(p) \in Keys
    BY DEF Requests
  <2> QED
    BY <2>1, <2>2 DEF AnswersInOrder, CacheableRequest
<1>3. ASSUME NEW p \in Procs, NEW r \in Requests, Arrive(p, r) PROVE Goal
  BY <1>3 DEF Arrive, AnswersInOrder, CacheableRequest
<1>4. ASSUME NEW p \in Procs,
             LookupHit(p) \/ LookupMiss(p) \/ AwaitKey(p) \/ EnterKey(p) \/ RecheckHit(p)
               \/ Miss(p) \/ RecheckErrs(p) \/ Send(p) \/ FetchFails(p) \/ RespondOnly(p)
               \/ Unlock(p)
      PROVE  Goal
  <2>1. /\ newest' = newest /\ upstream' = upstream /\ req' = req
        /\ \A q \in Procs : pc'[q] \in AnsweredPCs =>
             pc[q] \in AnsweredPCs /\ answer'[q] = answer[q]
    BY <1>4 DEF LookupHit, LookupMiss, AwaitKey, EnterKey, RecheckHit, Miss, RecheckErrs, GoUpstream,
                Send, FetchFails, RespondOnly, Reply, Unlock
  <2> QED
    BY <2>1 DEF AnswersInOrder, CacheableRequest
<1>5. ASSUME NEW k \in Keys, Publish(k) PROVE Goal
  <2>1. /\ newest' = newest /\ req' = req /\ pc' = pc /\ answer' = answer
        /\ \A l \in Keys : upstream'[l] >= upstream[l]
    BY <1>5 DEF Publish
  <2>2. \A p \in Procs : Key(p) \in Keys
    BY DEF Requests
  <2>3. \A p \in Procs : pc[p] \in AnsweredPCs => answer[p].content.version \in Nat
    BY DEF Responses, Answers
  <2> QED
    BY <2>1, <2>2, <2>3 DEF AnswersInOrder, CacheableRequest
<1>6. CASE Reject \/ (\E k \in Keys : Expire(k)) \/ UNCHANGED npmVars
  BY <1>6 DEF Reject, Expire, npmVars, AnswersInOrder, CacheableRequest
<1> QED
  BY <1>1, <1>2, <1>3, <1>4, <1>5, <1>6 DEF NpmNext, Handle

(***************************************************************************)
(* A request that uses the cache is asked upstream for no one, so nothing   *)
(* in the cache was given to a user.                                        *)
(***************************************************************************)
LEMMA PrivateStep ==
  ASSUME NpmTypeOK, NpmTypeOK', AnswersAddressed, AnswersStayPrivate, [NpmNext]_npmVars
  PROVE  AnswersAddressed' /\ AnswersStayPrivate'
<1> USE DEF NpmTypeOK, PCs, LockedPCs, AnsweredPCs, Key, At, Goto, lock, locals, aux, AnswersAddressed,
            AnswersStayPrivate, CacheableRequest, ForwardedUser
<1> DEFINE Goal == AnswersAddressed' /\ AnswersStayPrivate'
<1> USE ProxyAssumption, NullAssumption
<1>1. ASSUME NEW p \in Procs, NEW r \in Requests, Arrive(p, r) PROVE Goal
  BY <1>1 DEF Arrive
<1>2. ASSUME NEW p \in Procs, LookupHit(p) \/ RecheckHit(p) PROVE Goal
  BY <1>2 DEF LookupHit, RecheckHit, ServeHit, Requests
<1>3. ASSUME NEW p \in Procs, NEW storable \in BOOLEAN, NEW metadata \in BOOLEAN,
             Fetch(p, storable, metadata)
      PROVE  Goal
  BY <1>3 DEF Fetch
<1>4. ASSUME NEW p \in Procs, RespondAndStore(p) PROVE Goal
  <2>1. answer[p].content.givenTo = Anonymous
    BY <1>4 DEF RespondAndStore, Reply, MayStore
  <2> QED
    BY <1>4, <2>1 DEF RespondAndStore, Reply, Put, Requests
<1>5. ASSUME NEW p \in Procs, RespondOnly(p) PROVE Goal
  BY <1>5 DEF RespondOnly, Reply
<1>6. ASSUME NEW p \in Procs,
             LookupMiss(p) \/ AwaitKey(p) \/ EnterKey(p) \/ Miss(p) \/ RecheckErrs(p) \/ Send(p)
               \/ FetchFails(p) \/ Unlock(p)
      PROVE  Goal
  BY <1>6 DEF LookupMiss, AwaitKey, EnterKey, Miss, RecheckErrs, GoUpstream, Send, FetchFails, Unlock
<1>7. ASSUME NEW k \in Keys, Expire(k) \/ Publish(k) PROVE Goal
  BY <1>7 DEF Expire, Drop, Publish
<1>8. CASE Reject \/ UNCHANGED npmVars
  BY <1>8 DEF Reject, npmVars
<1> QED
  BY <1>1, <1>2, <1>3, <1>4, <1>5, <1>6, <1>7, <1>8 DEF NpmNext, Handle

(***************************************************************************)
(* The requests that are not decided yet are finitely many, however many    *)
(* goroutines there may be, because each of them was counted.               *)
(***************************************************************************)
UndecidedCounted == IsFiniteSet(Undecided) /\ RequestsAreCounted

LEMMA CountInit == NpmInit => UndecidedCounted
<1> SUFFICES ASSUME NpmInit PROVE UndecidedCounted
  OBVIOUS
<1>1. Undecided = {}
  BY DEF NpmInit, Undecided
<1>2. IsFiniteSet(Undecided) /\ Cardinality(Undecided) = 0
  BY <1>1, FS_EmptySet
<1> QED
  BY <1>2 DEF NpmInit, UndecidedCounted, RequestsAreCounted

LEMMA CountStep ==
  ASSUME NpmTypeOK, UndecidedCounted, [NpmNext]_npmVars
  PROVE  UndecidedCounted'
<1> DEFINE Deciding == {"lookup", "await", "waiting", "recheck"}
<1>0. /\ IsFiniteSet(Undecided) /\ Cardinality(Undecided) \in Nat
      /\ stats \in [requests : Nat, hits : Nat, misses : Nat, rejected : Nat]
      /\ stats.requests = stats.hits + stats.misses + stats.rejected + Cardinality(Undecided)
      /\ pc \in [Procs -> PCs]
  BY FS_CardinalityType DEF UndecidedCounted, RequestsAreCounted, NpmTypeOK
<1>1. ASSUME NEW p \in Procs, Undecided' = Undecided \cup {p}, p \notin Undecided,
             stats' = [stats EXCEPT !.requests = @ + 1]
      PROVE  UndecidedCounted'
  <2>1. IsFiniteSet(Undecided') /\ Cardinality(Undecided') = Cardinality(Undecided) + 1
    BY <1>0, <1>1, FS_AddElement
  <2> QED
    BY <1>0, <1>1, <2>1 DEF UndecidedCounted, RequestsAreCounted
<1>2. ASSUME NEW p \in Procs, Undecided' = Undecided \ {p}, p \in Undecided,
             stats'.requests = stats.requests, stats'.rejected = stats.rejected,
             stats'.hits + stats'.misses = stats.hits + stats.misses + 1,
             stats'.hits \in Nat, stats'.misses \in Nat
      PROVE  UndecidedCounted'
  <2>1. IsFiniteSet(Undecided') /\ Cardinality(Undecided') = Cardinality(Undecided) - 1
    BY <1>0, <1>2, FS_RemoveElement
  <2> QED
    BY <1>0, <1>2, <2>1 DEF UndecidedCounted, RequestsAreCounted
<1>3. ASSUME Undecided' = Undecided, UNCHANGED stats PROVE UndecidedCounted'
  BY <1>0, <1>3 DEF UndecidedCounted, RequestsAreCounted
<1>4. ASSUME NEW p \in Procs, NEW there \in PCs, Goto(p, there), UNCHANGED stats,
             pc[p] \in Deciding <=> there \in Deciding
      PROVE  UndecidedCounted'
  <2>1. Undecided' = Undecided
    BY <1>0, <1>4 DEF Goto, Undecided
  <2> QED
    BY <1>3, <1>4, <2>1
<1>5. ASSUME NEW p \in Procs, NEW r \in Requests, Arrive(p, r) PROVE UndecidedCounted'
  <2>1. Undecided' = Undecided \cup {p} /\ p \notin Undecided
    BY <1>0, <1>5 DEF Arrive, Goto, At, Undecided
  <2> QED
    BY <1>1, <1>5, <2>1 DEF Arrive
<1>6. ASSUME NEW p \in Procs, LookupHit(p) \/ RecheckHit(p) \/ Miss(p) \/ RecheckErrs(p)
      PROVE  UndecidedCounted'
  <2>1. Undecided' = Undecided \ {p} /\ p \in Undecided
    BY <1>0, <1>6 DEF LookupHit, RecheckHit, Miss, RecheckErrs, GoUpstream, Goto, At, Undecided
  <2>2. \/ stats' = [stats EXCEPT !.hits = @ + 1]
        \/ stats' = [stats EXCEPT !.misses = @ + 1]
    BY <1>6 DEF LookupHit, RecheckHit, Miss, RecheckErrs, GoUpstream, ServeHit
  <2>3. /\ stats'.requests = stats.requests /\ stats'.rejected = stats.rejected
        /\ stats'.hits + stats'.misses = stats.hits + stats.misses + 1
        /\ stats'.hits \in Nat /\ stats'.misses \in Nat
    BY <1>0, <2>2
  <2> QED
    BY <1>2, <2>1, <2>3
<1>7. ASSUME NEW p \in Procs, LookupMiss(p) \/ AwaitKey(p) \/ EnterKey(p) PROVE UndecidedCounted'
  BY <1>4, <1>7 DEF LookupMiss, AwaitKey, EnterKey, At, PCs
<1>8. ASSUME NEW p \in Procs,
             FetchFails(p) \/ (\E storable, metadata \in BOOLEAN : Fetch(p, storable, metadata))
      PROVE  UndecidedCounted'
  BY <1>4, <1>8 DEF FetchFails, Fetch, At, PCs
<1>9. ASSUME NEW p \in Procs, RespondAndStore(p) \/ RespondOnly(p) \/ Send(p) \/ Unlock(p)
      PROVE  UndecidedCounted'
  BY <1>4, <1>9 DEF RespondAndStore, RespondOnly, Reply, Send, Unlock, At, PCs
<1>10. ASSUME NEW k \in Keys, Expire(k) \/ Publish(k) PROVE UndecidedCounted'
  BY <1>3, <1>10 DEF Expire, Publish, locals, Undecided
<1>11. CASE Reject
  <2>1. Undecided' = Undecided
    BY <1>11 DEF Reject, locals, Undecided
  <2>2. /\ stats'.requests = stats.requests + 1 /\ stats'.rejected = stats.rejected + 1
        /\ stats'.hits = stats.hits /\ stats'.misses = stats.misses
    BY <1>0, <1>11 DEF Reject
  <2> QED
    BY <1>0, <2>1, <2>2 DEF UndecidedCounted, RequestsAreCounted
<1>12. CASE UNCHANGED npmVars
  BY <1>3, <1>12 DEF npmVars, Undecided
<1> QED
  BY <1>5, <1>6, <1>7, <1>8, <1>9, <1>10, <1>11, <1>12 DEF NpmNext, Handle

-----------------------------------------------------------------------------
(***************************************************************************)
(* The inductive invariant of the proxy.                                    *)
(***************************************************************************)
NpmInv ==
  /\ NpmTypeOK
  /\ Exclusive /\ NothingNewWhileFilling /\ FetchesCharged
  /\ AnswersInOrder
  /\ AnswersAddressed /\ AnswersStayPrivate
  /\ UndecidedCounted

LEMMA NpmInvInit == NpmInit => NpmInv
<1> SUFFICES ASSUME NpmInit PROVE NpmInv
  OBVIOUS
<1>1. NpmTypeOK
  BY NpmTypeInit
<1>2. Exclusive /\ NothingNewWhileFilling
  BY DEF NpmInit, Exclusive, NothingNewWhileFilling, Fetching
<1>3. FetchesCharged
  BY DEF NpmInit, FetchesCharged
<1>4. AnswersInOrder
  BY DEF NpmInit, AnswersInOrder, AnsweredPCs
<1>5. AnswersAddressed /\ AnswersStayPrivate
  BY DEF NpmInit, AnswersAddressed, AnswersStayPrivate, AnsweredPCs
<1> QED
  BY <1>1, <1>2, <1>3, <1>4, <1>5, CountInit DEF NpmInv

LEMMA NpmInvStep == NpmInv /\ [NpmNext]_npmVars => NpmInv'
<1> SUFFICES ASSUME NpmInv, [NpmNext]_npmVars PROVE NpmInv'
  OBVIOUS
<1>1. NpmTypeOK'
  BY NpmTypeStep DEF NpmInv
<1>2. Exclusive' /\ NothingNewWhileFilling' /\ FetchesCharged'
  BY <1>1, FillStep, ChargeStep DEF NpmInv
<1>3. AnswersInOrder'
  BY <1>1, OrderStep DEF NpmInv
<1>4. AnswersAddressed' /\ AnswersStayPrivate'
  BY <1>1, PrivateStep DEF NpmInv
<1>5. UndecidedCounted'
  BY CountStep DEF NpmInv
<1> QED
  BY <1>1, <1>2, <1>3, <1>4, <1>5 DEF NpmInv

(***************************************************************************)
(* A request holds its key exactly from the second lookup to the deferred   *)
(* unlock; one request at a time fills a key, and nobody stores anything    *)
(* under the key meanwhile (proxy.go:121-132).                              *)
(***************************************************************************)
THEOREM NpmOneFetcher == NpmSpec => [](NpmTypeOK /\ OneFetcherPerKey)
<1>1. ASSUME NpmInv PROVE OneFetcherPerKey
  <2>1. ASSUME NEW p \in Procs, NEW q \in Procs, Fetching(p), Fetching(q), Key(q) = Key(p)
        PROVE  q = p
    <3>1. phase[p] = "in" /\ phase[q] = "in" /\ wants[p] = Key(p) /\ wants[q] = Key(q)
      BY <1>1, <2>1 DEF NpmInv, NpmTypeOK, Fetching, LockedPCs
    <3> QED
      BY <1>1, <2>1, <3>1 DEF NpmInv, Exclusive
  <2> QED
    BY <1>1, <2>1 DEF NpmInv, NothingNewWhileFilling, OneFetcherPerKey
<1>2. NpmInv => NpmTypeOK /\ OneFetcherPerKey
  BY <1>1 DEF NpmInv
<1> QED
  BY <1>2, NpmInvInit, NpmInvStep, PTL DEF NpmSpec

(***************************************************************************)
(* However many requests come for a cold key, it is fetched once, and once  *)
(* more for every time its entry expired, was collected, could not be       *)
(* stored or could not be read (proxy.go:111-132).                          *)
(***************************************************************************)
THEOREM NpmColdKeyFetchedOnce == NpmSpec => []ColdKeyFetchedOnce
<1>1. ASSUME NpmInv PROVE ColdKeyFetchedOnce
  BY <1>1 DEF NpmInv, NpmTypeOK, FetchesCharged, ColdKeyFetchedOnce
<1> QED
  BY <1>1, NpmInvInit, NpmInvStep, PTL DEF NpmSpec

(***************************************************************************)
(* What the upstream gave to one user is neither stored nor served to       *)
(* another (proxy.go:106-108).                                              *)
(***************************************************************************)
THEOREM NpmAnswersStayPrivate == NpmSpec => []AnswersStayPrivate
<1>1. NpmInv => AnswersStayPrivate
  BY DEF NpmInv
<1> QED
  BY <1>1, NpmInvInit, NpmInvStep, PTL DEF NpmSpec

(***************************************************************************)
(* What is stored under a key never goes back to an older version           *)
(* (proxy.go:121-122, 213, 250).                                            *)
(***************************************************************************)
THEOREM NpmEntriesNeverGoBack == NpmSpec => EntriesNeverGoBack
<1>1. ASSUME NpmInv, [NpmNext]_npmVars PROVE [\A k \in Keys : newest'[k] >= newest[k]]_npmVars
  <2>1. NpmInv'
    BY <1>1, NpmInvStep
  <2> QED
    BY <1>1, <2>1, OrderStep DEF NpmInv
<1> QED
  BY <1>1, NpmInvInit, NpmInvStep, PTL DEF NpmSpec, EntriesNeverGoBack

(***************************************************************************)
(* Every request that was not rejected is counted as one hit or one miss,   *)
(* whichever of the two lookups decides it (proxy.go:90, 115, 125, 131).    *)
(***************************************************************************)
THEOREM NpmRequestsAreCounted == NpmSpec => []RequestsAreCounted
<1>1. NpmInv => RequestsAreCounted
  BY DEF NpmInv, UndecidedCounted
<1> QED
  BY <1>1, NpmInvInit, NpmInvStep, PTL DEF NpmSpec
=============================================================================
