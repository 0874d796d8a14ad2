--------------------------- MODULE OciProxy_proofs ---------------------------
(***************************************************************************)
(* Proofs about OciProxy, for any number of requests, tags, digests and     *)
(* tokens, while tags move, tokens are revoked and entries expire.          *)
(***************************************************************************)
EXTENDS OciProxy, TLAPS

(* One cacheable request at a time has a key.                               *)
Exclusive ==
  \A p, q \in Procs : phase[p] = "in" /\ phase[q] = "in" /\ wants[p] = wants[q] => p = q

(* An entry that a request has opened was verified when it was stored, and  *)
(* the digest of a HEAD that was granted is one the upstream confirmed.     *)
OpenedVerified == \A p \in Procs : opened[p] # NoEntry => opened[p].content = opened[p].digest
HeadsConfirmed ==
  \A p \in Procs : pc[p] \in {"decide", "redecide"} /\ head[p].granted
                       => head[p].digest \in confirmed[p]

(* A fetch is charged to the entry there is, to the fetch that goes on or   *)
(* to a loss.                                                               *)
Fetching(p) == pc[p] \in {"fetch", "respond"} /\ Fills(p)
Covered(k) == entry[k] # NoEntry \/ \E p \in Procs : Fetching(p) /\ Key(p) = k
FetchesCharged == \A k \in Keys : fetches[k] <= losses[k] + (IF Covered(k) THEN 1 ELSE 0)

(* What is stored is no newer than what the upstream has, a digest key has  *)
(* one content, and the digest a request was told when it fetched is no     *)
(* older than anything stored under its key since.                          *)
AnswersInOrder ==
  /\ \A k \in Keys : newest[k] <= upstream[k] /\ (k \notin Tags => upstream[k] = 0)
  /\ \A p \in Procs : pc[p] = "respond" /\ answer[p].digest # NoDigest =>
       /\ answer[p].digest <= upstream[Key(p)]
       /\ Fills(p) => newest[Key(p)] <= answer[p].digest

-----------------------------------------------------------------------------
(* The variables of the proxy have their types at the start.                *)
LEMMA OciTypeInit == OciInit => OciTypeOK
<1> SUFFICES ASSUME OciInit PROVE OciTypeOK
  OBVIOUS
<1>1. Keys # {} /\ Requests # {}
  <2>1. PICK k \in Keys, t \in Tokens : TRUE
    BY OciAssumption DEF Keys
  <2>2. [key |-> k, method |-> "GET", cacheable |-> TRUE, token |-> t] \in Requests
    BY <2>1 DEF Requests
  <2> QED
    BY <2>1, <2>2
<1>2. (CHOOSE k \in Keys : TRUE) \in Keys /\ (CHOOSE r \in Requests : TRUE) \in Requests
  BY <1>1
<1>3. wants \in [Procs -> Keys] /\ req \in [Procs -> Requests]
  BY <1>2 DEF OciInit
<1> HIDE DEF Requests, Keys
<1>4. head \in [Procs -> [granted : BOOLEAN, digest : Digests \cup {NoDigest}]]
  BY DEF OciInit, NoHead
<1>5. served \in [Procs -> [from : {"nothing", "cache", "upstream"}, content : Bodies]]
  BY DEF OciInit, NothingServed, Bodies
<1> QED
  BY <1>3, <1>4, <1>5, OciNullAssumption DEF OciInit, OciTypeOK, OciPCs, LockedPCs, Holds, Digests

(* Every step keeps the types, and a cacheable request holds its key from   *)
(* the second lookup to the deferred unlock (proxy.go:126-149).             *)
LEMMA OciTypeStep == OciTypeOK /\ [OciNext]_ociVars => OciTypeOK'
<1> SUFFICES ASSUME OciTypeOK, [OciNext]_ociVars PROVE OciTypeOK'
  OBVIOUS
<1> USE DEF OciTypeOK, OciPCs, LockedPCs, Holds, Key, At, Goto, lock, locals, external, aux
<1>1. ASSUME NEW p \in Procs, NEW r \in Requests, Arrive(p, r) PROVE OciTypeOK'
  <2>1. NothingServed \in [from : {"nothing", "cache", "upstream"}, content : Bodies]
    BY DEF NothingServed, Bodies
  <2>2. r.cacheable \in BOOLEAN
    BY DEF Requests
  <2> QED
    BY <1>1, <2>1, <2>2 DEF Arrive
<1>2. ASSUME NEW p \in Procs, LookupFinds(p) PROVE OciTypeOK'
  BY <1>2 DEF LookupFinds, Requests
<1>3. ASSUME NEW p \in Procs, LookupMisses(p) PROVE OciTypeOK'
  BY <1>3 DEF LookupMisses
<1>4. ASSUME NEW p \in Procs, NEW d \in {NoDigest, upstream[Key(p)]}, AnswerHead(p, d)
      PROVE  OciTypeOK'
  <2>1. d \in Digests \cup {NoDigest}
    BY DEF Requests
  <2>2. [granted |-> Granted(p), digest |-> d] \in [granted : BOOLEAN, digest : Digests \cup {NoDigest}]
    BY <2>1 DEF Granted
  <2> QED
    BY <1>4, <2>1, <2>2 DEF AnswerHead
<1>5. ASSUME NEW p \in Procs, HeadFails(p) PROVE OciTypeOK'
  BY <1>5 DEF HeadFails, NoHead
<1>6. ASSUME NEW p \in Procs, ServeHit(p) PROVE OciTypeOK'
  <2>1. opened[p] \in Objects
    BY <1>6 DEF ServeHit
  <2>2. [from |-> "cache", content |-> opened[p].content]
          \in [from : {"nothing", "cache", "upstream"}, content : Bodies]
    BY <2>1 DEF Objects
  <2> QED
    BY <1>6, <2>2 DEF ServeHit, NoHead
<1>7. ASSUME NEW p \in Procs, HitRefused(p) PROVE OciTypeOK'
  BY <1>7 DEF HitRefused, NoHead
<1>8. ASSUME NEW p \in Procs, HitRefusedAgain(p) PROVE OciTypeOK'
  BY <1>8 DEF HitRefusedAgain, NoHead, CountFetch, AddLoss, Requests
<1>9. ASSUME NEW p \in Procs, AwaitKey(p) PROVE OciTypeOK'
  BY <1>9 DEF AwaitKey, Ask, Requests
<1>10. ASSUME NEW p \in Procs, EnterKey(p) PROVE OciTypeOK'
  BY <1>10 DEF EnterKey, Enter
<1>11. ASSUME NEW p \in Procs, Miss(p) PROVE OciTypeOK'
  BY <1>11 DEF Miss, CountFetch, Requests
<1>22. ASSUME NEW p \in Procs, RecheckErrs(p) PROVE OciTypeOK'
  BY <1>22 DEF RecheckErrs, CountFetch, AddLoss, Requests
<1>12. ASSUME NEW p \in Procs, NEW b \in {upstream[Key(p)], Corrupt},
              NEW d \in {upstream[Key(p)], NoDigest}, NEW storable \in BOOLEAN,
              NEW large \in BOOLEAN, Fetch(p, b, d, storable, large)
       PROVE  OciTypeOK'
  <2>1. b \in Bodies /\ d \in Digests \cup {NoDigest}
    BY DEF Requests, Bodies, Digests
  <2>2. [body |-> b, digest |-> d, storable |-> storable, large |-> large] \in Answers
    BY <2>1 DEF Answers
  <2> QED
    BY <1>12, <2>2, OciNullAssumption DEF Fetch
<1>13. ASSUME NEW p \in Procs, FetchFails(p) PROVE OciTypeOK'
  BY <1>13 DEF FetchFails, CountLoss, AddLoss, AfterMiss, Requests
<1>14. ASSUME NEW p \in Procs, NEW sent \in BOOLEAN, Reply(p, sent),
              entry' \in [Keys -> Objects \cup {NoEntry}],
              losses' \in [Keys -> Nat], newest' \in [Keys -> Nat]
       PROVE  OciTypeOK'
  <2>1. answer[p] \in Answers
    BY <1>14 DEF Reply
  <2>2. [from |-> "upstream", content |-> answer[p].body]
          \in [from : {"nothing", "cache", "upstream"}, content : Bodies]
    BY <2>1 DEF Answers
  <2>3. /\ served' \in [Procs -> [from : {"nothing", "cache", "upstream"}, content : Bodies]]
        /\ answer' \in [Procs -> Answers \cup {NoAnswer}]
    BY <1>14, <2>2 DEF Reply
  <2> QED
    BY <1>14, <2>3 DEF Reply, AfterMiss
<1>15. ASSUME NEW p \in Procs, StoreObject(p) PROVE OciTypeOK'
  <2>1. Reply(p, TRUE)
    BY <1>15 DEF StoreObject
  <2>2. answer[p] \in Answers /\ Key(p) \in Keys
    BY <2>1 DEF Reply, Requests
  <2>3. expectedDigest(p) \in Digests
    BY <1>15, <2>2 DEF StoreObject, Cacheable, expectedDigest, requestedDigest, Answers, Digests
  <2>4. entry' \in [Keys -> Objects \cup {NoEntry}] /\ newest' \in [Keys -> Nat] /\ losses' = losses
    BY <1>15, <2>2, <2>3 DEF StoreObject, Put, Digests
  <2> QED
    BY <1>14, <2>1, <2>4
<1>16. ASSUME NEW p \in Procs, RefuseManifest(p) \/ SendOnly(p) PROVE OciTypeOK'
  <2>1. Reply(p, FALSE) \/ Reply(p, TRUE)
    BY <1>16 DEF RefuseManifest, SendOnly
  <2>2. Key(p) \in Keys
    BY DEF Requests
  <2>3. entry' = entry /\ newest' = newest /\ CountLoss(p)
    BY <1>16 DEF RefuseManifest, SendOnly
  <2>4. losses' \in [Keys -> Nat]
    BY <2>2, <2>3 DEF CountLoss, AddLoss
  <2> QED
    BY <1>14, <2>1, <2>3, <2>4
<1>18. ASSUME NEW p \in Procs, Unlock(p) PROVE OciTypeOK'
  BY <1>18 DEF Unlock, Leave
<1>17. ASSUME NEW k \in Keys, Expire(k) PROVE OciTypeOK'
  BY <1>17 DEF Expire, Drop
<1>19. ASSUME NEW k \in Keys, MoveTag(k) PROVE OciTypeOK'
  BY <1>19 DEF MoveTag, Digests
<1>20. ASSUME NEW t \in Tokens, ChangeToken(t) PROVE OciTypeOK'
  BY <1>20 DEF ChangeToken
<1>21. CASE UNCHANGED ociVars
  BY <1>21 DEF ociVars
<1> HIDE DEF OciTypeOK, OciPCs, LockedPCs, Holds, Key, At, Goto, lock, locals, external, aux
<1> QED
  BY <1>1, <1>2, <1>3, <1>4, <1>5, <1>6, <1>7, <1>8, <1>9, <1>10, <1>11, <1>12, <1>13, <1>15,
     <1>16, <1>17, <1>18, <1>19, <1>20, <1>21, <1>22 DEF OciNext, Handle

(* The lock excludes: Enter waits until nobody has the key.                 *)
LEMMA ExclusiveStep ==
  ASSUME OciTypeOK, Exclusive, [OciNext]_ociVars
  PROVE  Exclusive'
<1> USE DEF Exclusive
<1>1. ASSUME NEW p \in Procs, AwaitKey(p) PROVE Exclusive'
  BY <1>1 DEF AwaitKey, Ask, OciTypeOK
<1>2. ASSUME NEW p \in Procs, EnterKey(p) PROVE Exclusive'
  BY <1>2 DEF EnterKey, Enter, OciTypeOK
<1>3. ASSUME NEW p \in Procs, Unlock(p) PROVE Exclusive'
  BY <1>3 DEF Unlock, Leave, OciTypeOK
<1>4. CASE UNCHANGED lock
  BY <1>4 DEF lock
<1>5. ASSUME NEW p \in Procs, Handle(p), ~AwaitKey(p), ~Unlock(p) PROVE UNCHANGED lock
  BY <1>5 DEF Handle, LookupFinds, LookupMisses, HeadFails, AnswerHead, ServeHit, HitRefused,
              HitRefusedAgain, Miss, RecheckErrs, FetchFails, Fetch, StoreObject, RefuseManifest,
              SendOnly, Reply
<1>6. CASE \/ \E p \in Procs, r \in Requests : Arrive(p, r)
           \/ \E k \in Keys : Expire(k) \/ MoveTag(k)
           \/ \E t \in Tokens : ChangeToken(t)
           \/ UNCHANGED ociVars
  BY <1>4, <1>6 DEF Arrive, Expire, MoveTag, ChangeToken, ociVars, lock
<1> HIDE DEF Exclusive
<1> QED
  BY <1>1, <1>2, <1>3, <1>4, <1>5, <1>6 DEF OciNext

(* Only what verifies enters the cache, so what a request opened is         *)
(* verified too, and what it sends from the cache is what the upstream      *)
(* confirmed while it was handled.                                          *)
LEMMA ConfirmStep ==
  ASSUME OciTypeOK, CacheHoldsVerified, OpenedVerified, HeadsConfirmed, HitsAreConfirmed,
         [OciNext]_ociVars
  PROVE  CacheHoldsVerified' /\ OpenedVerified' /\ HeadsConfirmed' /\ HitsAreConfirmed'
<1> DEFINE Goal == CacheHoldsVerified' /\ OpenedVerified' /\ HeadsConfirmed' /\ HitsAreConfirmed'
<1> USE DEF CacheHoldsVerified, OpenedVerified, HeadsConfirmed, HitsAreConfirmed, OciTypeOK,
            At, Goto, Key
<1>1. ASSUME NEW p \in Procs, NEW r \in Requests, Arrive(p, r) PROVE Goal
  BY <1>1 DEF Arrive, NothingServed
<1>2. ASSUME NEW p \in Procs, LookupFinds(p) PROVE Goal
  BY <1>2 DEF LookupFinds, Requests
<1>3. ASSUME NEW p \in Procs, LookupMisses(p) \/ AwaitKey(p) \/ EnterKey(p) \/ Unlock(p) PROVE Goal
  BY <1>3 DEF LookupMisses, AwaitKey, EnterKey, Unlock
<1>4. ASSUME NEW p \in Procs, NEW d \in {NoDigest, upstream[Key(p)]}, AnswerHead(p, d) PROVE Goal
  BY <1>4 DEF AnswerHead
<1>5. ASSUME NEW p \in Procs, HeadFails(p) PROVE Goal
  BY <1>5 DEF HeadFails, NoHead
<1>6. ASSUME NEW p \in Procs, ServeHit(p) PROVE Goal
  <2>1. opened[p].content \in confirmed[p]
    BY <1>6 DEF ServeHit, authorizeCacheHit
  <2> QED
    BY <1>6, <2>1 DEF ServeHit
<1>7. ASSUME NEW p \in Procs, HitRefused(p) \/ HitRefusedAgain(p) PROVE Goal
  <2>1. /\ entry' = entry /\ served' = served /\ confirmed' = confirmed
        /\ opened' = [opened EXCEPT ![p] = NoEntry]
        /\ head' = [head EXCEPT ![p] = NoHead]
        /\ \A q \in Procs \ {p} : pc'[q] = pc[q]
    BY <1>7 DEF HitRefused, HitRefusedAgain
  <2> QED
    BY <2>1 DEF NoHead
<1>8. ASSUME NEW p \in Procs, Miss(p) \/ RecheckErrs(p) \/ FetchFails(p) PROVE Goal
  BY <1>8 DEF Miss, RecheckErrs, FetchFails, AfterMiss
<1>9. ASSUME NEW p \in Procs, NEW b \in {upstream[Key(p)], Corrupt},
             NEW d \in {upstream[Key(p)], NoDigest}, NEW storable \in BOOLEAN,
             NEW large \in BOOLEAN, Fetch(p, b, d, storable, large)
      PROVE  Goal
  BY <1>9 DEF Fetch
<1>10. ASSUME NEW p \in Procs, NEW sent \in BOOLEAN, Reply(p, sent)
       PROVE  OpenedVerified' /\ HeadsConfirmed' /\ HitsAreConfirmed'
  BY <1>10 DEF Reply, AfterMiss
<1>11. ASSUME NEW p \in Procs, RefuseManifest(p) \/ SendOnly(p) PROVE Goal
  <2>1. (Reply(p, FALSE) \/ Reply(p, TRUE)) /\ entry' = entry
    BY <1>11 DEF RefuseManifest, SendOnly
  <2> QED
    BY <1>10, <2>1
<1>12. ASSUME NEW p \in Procs, StoreObject(p) PROVE Goal
  <2>1. /\ Reply(p, TRUE)
        /\ entry' = [entry EXCEPT ![Key(p)] = [content |-> answer[p].body, digest |-> expectedDigest(p)]]
        /\ answer[p].body = expectedDigest(p)
    BY <1>12 DEF StoreObject, Put, verifySum
  <2>2. requestedDigest(Key(p)) \in {NoDigest, expectedDigest(p)}
    BY DEF expectedDigest
  <2>3. CacheHoldsVerified'
    BY <2>1, <2>2 DEF requestedDigest
  <2> QED
    BY <1>10, <2>1, <2>3
<1>13. ASSUME NEW k \in Keys, Expire(k) PROVE Goal
  BY <1>13 DEF Expire, Drop, locals
<1>14. CASE \/ \E k \in Keys : MoveTag(k)
            \/ \E t \in Tokens : ChangeToken(t)
            \/ UNCHANGED ociVars
  BY <1>14 DEF MoveTag, ChangeToken, ociVars, locals
<1> HIDE DEF CacheHoldsVerified, OpenedVerified, HeadsConfirmed, HitsAreConfirmed, OciTypeOK,
             At, Goto, Key
<1> QED
  BY <1>1, <1>2, <1>3, <1>4, <1>5, <1>6, <1>7, <1>8, <1>9, <1>11, <1>12, <1>13, <1>14
     DEF OciNext, Handle

(* A fetch starts for a key that is not covered, or together with a loss; a *)
(* key loses its cover only together with a loss.                           *)
LEMMA ChargeStep ==
  ASSUME OciTypeOK, OciTypeOK', Exclusive, FetchesCharged, [OciNext]_ociVars
  PROVE  FetchesCharged'
<1>1. \A p \in Procs : Key(p) \in Keys
  BY DEF OciTypeOK, Requests, Key
<1>2. \A k \in Keys : fetches[k] \in Nat /\ losses[k] \in Nat
  BY DEF OciTypeOK
<1>3. ASSUME fetches' = fetches, losses' = losses, \A k \in Keys : Covered(k) => Covered(k)'
      PROVE  FetchesCharged'
  BY <1>2, <1>3 DEF FetchesCharged
<1>4. ASSUME entry' = entry, \A q \in Procs : Fetching(q) => Fetching(q)' /\ Key(q)' = Key(q)
      PROVE  \A k \in Keys : Covered(k) => Covered(k)'
  BY <1>4 DEF Covered
<1>5. ASSUME NEW x \in Keys, fetches' = fetches, losses' = [losses EXCEPT ![x] = @ + 1],
             \A k \in Keys : k # x /\ Covered(k) => Covered(k)'
      PROVE  FetchesCharged'
  <2>1. ASSUME NEW k \in Keys PROVE fetches'[k] <= losses'[k] + (IF Covered(k)' THEN 1 ELSE 0)
    <3>1. CASE k = x
      <4>1. losses'[k] = losses[k] + 1
        BY <1>5, <3>1 DEF OciTypeOK
      <4> QED
        BY <1>2, <1>5, <4>1 DEF FetchesCharged
    <3>2. CASE k # x
      <4>1. losses'[k] = losses[k]
        BY <1>5, <3>2 DEF OciTypeOK
      <4> QED
        BY <1>2, <1>5, <3>2, <4>1 DEF FetchesCharged
    <3> QED
      BY <3>1, <3>2
  <2> QED
    BY <2>1 DEF FetchesCharged
<1> USE DEF Fetching, Fills, Key, At, Goto
<1>6. ASSUME NEW p \in Procs, Miss(p) PROVE FetchesCharged'
  <2>1. /\ entry[Key(p)] = NoEntry /\ entry' = entry /\ req' = req /\ losses' = losses
        /\ pc[p] = "recheck" /\ pc' = [pc EXCEPT ![p] = "fetch"] /\ CountFetch(p)
    BY <1>6 DEF Miss
  <2>2. \A q \in Procs : Fetching(q) => Fetching(q)' /\ Key(q)' = Key(q)
    BY <2>1 DEF OciTypeOK
  <2>3. \A k \in Keys : Covered(k) => Covered(k)'
    BY <1>4, <2>1, <2>2
  <2>4. CASE ~Fills(p)
    <3>1. fetches' = fetches
      BY <2>1, <2>4 DEF CountFetch
    <3> QED
      BY <1>3, <2>1, <2>3, <3>1
  <2>5. CASE Fills(p)
    <3>1. ASSUME NEW q \in Procs, Fetching(q), Key(q) = Key(p) PROVE FALSE
      <4>1. phase[p] = "in" /\ phase[q] = "in" /\ wants[p] = Key(p) /\ wants[q] = Key(q)
        BY <2>1, <3>1 DEF OciTypeOK, Holds, LockedPCs
      <4> QED
        BY <2>1, <3>1, <4>1 DEF Exclusive
    <3>2. ~Covered(Key(p))
      BY <2>1, <3>1 DEF Covered
    <3>3. fetches[Key(p)] <= losses[Key(p)]
      BY <1>1, <1>2, <3>2 DEF FetchesCharged
    <3>4. Fetching(p)' /\ Key(p)' = Key(p)
      BY <2>1, <2>5 DEF OciTypeOK
    <3>5. ASSUME NEW k \in Keys PROVE fetches'[k] <= losses'[k] + (IF Covered(k)' THEN 1 ELSE 0)
      <4>1. CASE k = Key(p)
        <5>1. fetches'[k] = fetches[k] + 1 /\ losses'[k] = losses[k]
          BY <2>1, <2>5, <4>1 DEF OciTypeOK, CountFetch
        <5>2. Covered(k)'
          BY <3>4, <4>1 DEF Covered
        <5> QED
          BY <1>2, <3>3, <4>1, <5>1, <5>2
      <4>2. CASE k # Key(p)
        <5>1. fetches'[k] = fetches[k] /\ losses'[k] = losses[k]
          BY <2>1, <4>2 DEF OciTypeOK, CountFetch
        <5> QED
          BY <1>2, <2>3, <5>1 DEF FetchesCharged
      <4> QED
        BY <4>1, <4>2
    <3> QED
      BY <3>5 DEF FetchesCharged
  <2> QED
    BY <2>4, <2>5
<1>7. ASSUME NEW p \in Procs, HitRefusedAgain(p) \/ RecheckErrs(p) PROVE FetchesCharged'
  <2>1. /\ entry' = entry /\ req' = req /\ CountFetch(p) /\ AddLoss(p)
        /\ pc[p] \in {"recheck", "redecide"} /\ pc' = [pc EXCEPT ![p] = "fetch"]
    BY <1>7 DEF HitRefusedAgain, RecheckErrs
  <2>2. \A q \in Procs : Fetching(q) => Fetching(q)' /\ Key(q)' = Key(q)
    BY <2>1 DEF OciTypeOK
  <2>3. \A k \in Keys : Covered(k) => Covered(k)'
    BY <1>4, <2>1, <2>2
  <2>4. ASSUME NEW k \in Keys PROVE fetches'[k] <= losses'[k] + (IF Covered(k)' THEN 1 ELSE 0)
    <3>1. \/ fetches'[k] = fetches[k] /\ losses'[k] = losses[k]
          \/ fetches'[k] = fetches[k] + 1 /\ losses'[k] = losses[k] + 1
      BY <2>1 DEF CountFetch, AddLoss, OciTypeOK
    <3> QED
      BY <1>2, <2>3, <3>1 DEF FetchesCharged
  <2> QED
    BY <2>4 DEF FetchesCharged
<1>8. ASSUME NEW p \in Procs, CountLoss(p), entry' = entry, fetches' = fetches,
             \A q \in Procs \ {p} : Fetching(q) => Fetching(q)' /\ Key(q)' = Key(q)
      PROVE  FetchesCharged'
  <2>1. ASSUME NEW k \in Keys, k # Key(p) \/ entry[k] # NoEntry \/ ~Fetching(p), Covered(k)
        PROVE  Covered(k)'
    BY <1>8, <2>1 DEF Covered
  <2>2. CASE entry[Key(p)] # NoEntry \/ ~Fills(p)
    <3>1. losses' = losses
      BY <1>8, <2>2 DEF CountLoss, AddLoss
    <3> QED
      BY <1>3, <1>8, <2>1, <2>2, <3>1
  <2>3. CASE entry[Key(p)] = NoEntry /\ Fills(p)
    <3>1. losses' = [losses EXCEPT ![Key(p)] = @ + 1]
      BY <1>8, <2>3 DEF CountLoss, AddLoss
    <3> QED
      BY <1>1, <1>5, <1>8, <2>1, <3>1
  <2> QED
    BY <2>2, <2>3
<1>9. ASSUME NEW p \in Procs, FetchFails(p) \/ RefuseManifest(p) \/ SendOnly(p)
      PROVE  FetchesCharged'
  <2>1. /\ entry' = entry /\ fetches' = fetches /\ req' = req /\ CountLoss(p)
        /\ pc' = [pc EXCEPT ![p] = AfterMiss(p)]
    BY <1>9 DEF FetchFails, RefuseManifest, SendOnly, Reply
  <2>2. \A q \in Procs \ {p} : Fetching(q) => Fetching(q)' /\ Key(q)' = Key(q)
    BY <2>1 DEF OciTypeOK
  <2> QED
    BY <1>8, <2>1, <2>2
<1>10. ASSUME NEW p \in Procs, StoreObject(p) PROVE FetchesCharged'
  <2>1. /\ fetches' = fetches /\ losses' = losses /\ req' = req
        /\ pc' = [pc EXCEPT ![p] = AfterMiss(p)]
        /\ \E o \in Objects : entry' = [entry EXCEPT ![Key(p)] = o]
    BY <1>10 DEF StoreObject, Reply, Put
  <2>2. \A q \in Procs \ {p} : Fetching(q) => Fetching(q)' /\ Key(q)' = Key(q)
    BY <2>1 DEF OciTypeOK
  <2>3. entry'[Key(p)] # NoEntry /\ \A k \in Keys : entry[k] # NoEntry => entry'[k] # NoEntry
    BY <1>1, <2>1, OciNullAssumption DEF OciTypeOK
  <2>4. \A k \in Keys : Covered(k) => Covered(k)'
    BY <2>2, <2>3 DEF Covered
  <2> QED
    BY <1>3, <2>1, <2>4
<1>11. ASSUME NEW k \in Keys, Expire(k) PROVE FetchesCharged'
  <2>1. /\ fetches' = fetches /\ losses' = [losses EXCEPT ![k] = @ + 1]
        /\ entry' = [entry EXCEPT ![k] = NoEntry] /\ pc' = pc /\ req' = req
    BY <1>11 DEF Expire, Drop, locals
  <2>2. \A l \in Keys : l # k /\ Covered(l) => Covered(l)'
    BY <2>1 DEF Covered, OciTypeOK
  <2> QED
    BY <1>5, <2>1, <2>2
<1>12. ASSUME NEW p \in Procs,
              \/ LookupFinds(p) \/ LookupMisses(p) \/ HeadFails(p) \/ ServeHit(p)
              \/ HitRefused(p) \/ AwaitKey(p) \/ EnterKey(p) \/ Unlock(p)
              \/ \E d \in {NoDigest, upstream[Key(p)]} : AnswerHead(p, d)
              \/ \E b \in {upstream[Key(p)], Corrupt}, d \in {upstream[Key(p)], NoDigest},
                    storable, large \in BOOLEAN : Fetch(p, b, d, storable, large)
       PROVE  FetchesCharged'
  <2>1. /\ entry' = entry /\ fetches' = fetches /\ losses' = losses /\ req' = req
        /\ \E x \in OciPCs : /\ pc' = [pc EXCEPT ![p] = x]
                             /\ pc[p] \in {"fetch", "respond"} => x \in {"fetch", "respond"}
    BY <1>12 DEF LookupFinds, LookupMisses, HeadFails, ServeHit, HitRefused, AwaitKey, EnterKey,
                 Unlock, AnswerHead, Fetch, OciPCs, aux
  <2>2. \A q \in Procs : Fetching(q) => Fetching(q)' /\ Key(q)' = Key(q)
    BY <2>1 DEF OciTypeOK
  <2> QED
    BY <1>3, <1>4, <2>1, <2>2
<1>13. ASSUME NEW p \in Procs, NEW r \in Requests, Arrive(p, r) PROVE FetchesCharged'
  <2>1. /\ entry' = entry /\ fetches' = fetches /\ losses' = losses /\ pc[p] = "idle"
        /\ \A q \in Procs \ {p} : req'[q] = req[q] /\ pc'[q] = pc[q]
    BY <1>13 DEF Arrive, aux, OciTypeOK
  <2>2. \A q \in Procs : Fetching(q) => Fetching(q)' /\ Key(q)' = Key(q)
    BY <2>1
  <2> QED
    BY <1>3, <1>4, <2>1, <2>2
<1>14. CASE \/ \E k \in Keys : MoveTag(k)
            \/ \E t \in Tokens : ChangeToken(t)
            \/ UNCHANGED ociVars
  <2>1. entry' = entry /\ fetches' = fetches /\ losses' = losses /\ req' = req /\ pc' = pc
    BY <1>14 DEF MoveTag, ChangeToken, ociVars, aux, locals
  <2>2. \A q \in Procs : Fetching(q) => Fetching(q)' /\ Key(q)' = Key(q)
    BY <2>1
  <2> QED
    BY <1>3, <1>4, <2>1, <2>2
<1> HIDE DEF Fetching, Fills, Key, At, Goto
<1> QED
  BY <1>6, <1>7, <1>9, <1>10, <1>11, <1>12, <1>13, <1>14 DEF OciNext, Handle

(* Nobody stores under a key between the moment a request is told its       *)
(* digest and the moment it stores it.                                      *)
LEMMA OrderStep ==
  ASSUME OciTypeOK, OciTypeOK', Exclusive, AnswersInOrder, [OciNext]_ociVars
  PROVE  AnswersInOrder' /\ \A k \in Keys : newest'[k] >= newest[k]
<1> DEFINE Goal == AnswersInOrder' /\ \A k \in Keys : newest'[k] >= newest[k]
<1>1. \A p \in Procs : Key(p) \in Keys
  BY DEF OciTypeOK, Requests, Key
<1>2. \A k \in Keys : newest[k] \in Nat /\ upstream[k] \in Nat
  BY DEF OciTypeOK, Digests
<1>3. \A p \in Procs : pc[p] = "respond" => answer[p].digest \in Nat \cup {NoDigest}
  BY DEF OciTypeOK, Answers, Digests
<1>4. ASSUME newest' = newest,
             \A k \in Keys : upstream'[k] \in Nat /\ upstream'[k] >= upstream[k]
                               /\ (k \notin Tags => upstream'[k] = upstream[k]),
             \A q \in Procs : pc'[q] = "respond" =>
               pc[q] = "respond" /\ answer'[q] = answer[q] /\ req'[q] = req[q]
      PROVE  Goal
  <2>1. \A k \in Keys : /\ newest'[k] <= upstream'[k] /\ (k \notin Tags => upstream'[k] = 0)
                        /\ newest'[k] >= newest[k]
    BY <1>2, <1>4 DEF AnswersInOrder
  <2>2. ASSUME NEW q \in Procs, pc'[q] = "respond", answer'[q].digest # NoDigest
        PROVE  /\ answer'[q].digest <= upstream'[Key(q)']
               /\ Fills(q)' => newest'[Key(q)'] <= answer'[q].digest
    <3>1. /\ pc[q] = "respond" /\ answer'[q] = answer[q] /\ Key(q)' = Key(q)
          /\ Fills(q)' <=> Fills(q)
      BY <1>4, <2>2 DEF Key, Fills
    <3>2. answer[q].digest \in Nat /\ Key(q) \in Keys
      BY <1>1, <1>3, <2>2, <3>1
    <3>3. answer[q].digest <= upstream[Key(q)] /\ upstream'[Key(q)] >= upstream[Key(q)]
      BY <1>4, <2>2, <3>1, <3>2 DEF AnswersInOrder
    <3> QED
      BY <1>2, <1>4, <2>2, <3>1, <3>2, <3>3 DEF AnswersInOrder
  <2> QED
    BY <2>1, <2>2 DEF AnswersInOrder
<1> USE DEF At, Goto
<1>5. ASSUME NEW p \in Procs, StoreObject(p) PROVE Goal
  <2> DEFINE d == expectedDigest(p)
  <2>1. /\ newest' = [newest EXCEPT ![Key(p)] = d] /\ upstream' = upstream /\ req' = req
        /\ pc[p] = "respond" /\ Fills(p) /\ d # NoDigest
        /\ answer' = [answer EXCEPT ![p] = NoAnswer] /\ pc' = [pc EXCEPT ![p] = AfterMiss(p)]
    BY <1>5 DEF StoreObject, Reply, Cacheable, external
  <2>2. d \in Nat /\ newest[Key(p)] <= d /\ d <= upstream[Key(p)]
    <3>1. CASE Key(p) \in Tags
      <4>1. d = answer[p].digest
        BY <3>1 DEF expectedDigest, requestedDigest
      <4> QED
        BY <1>3, <2>1, <4>1 DEF AnswersInOrder
    <3>2. CASE Key(p) \notin Tags
      <4>1. d = 0
        BY <3>2 DEF expectedDigest, requestedDigest, NoDigest
      <4> QED
        BY <1>1, <1>2, <3>2, <4>1 DEF AnswersInOrder
    <3> QED
      BY <3>1, <3>2
  <2> HIDE DEF d
  <2>3. /\ newest'[Key(p)] = d
        /\ \A k \in Keys \ {Key(p)} : newest'[k] = newest[k]
    BY <1>1, <2>1 DEF OciTypeOK
  <2>4. \A k \in Keys : newest'[k] >= newest[k] /\ newest'[k] <= upstream'[k]
                        /\ (k \notin Tags => upstream'[k] = 0)
    BY <1>2, <2>1, <2>2, <2>3 DEF AnswersInOrder
  <2>5. ASSUME NEW q \in Procs, pc'[q] = "respond", answer'[q].digest # NoDigest
        PROVE  /\ answer'[q].digest <= upstream'[Key(q)']
               /\ Fills(q)' => newest'[Key(q)'] <= answer'[q].digest
    <3>1. /\ q # p /\ pc[q] = "respond" /\ answer'[q] = answer[q] /\ Key(q)' = Key(q)
          /\ Fills(q)' <=> Fills(q)
      BY <2>1, <2>5 DEF AfterMiss, OciTypeOK, Key, Fills
    <3>2. answer[q].digest <= upstream'[Key(q)']
      BY <2>1, <2>5, <3>1 DEF AnswersInOrder
    <3>3. ASSUME Fills(q) PROVE newest'[Key(q)'] <= answer'[q].digest
      <4>1. phase[p] = "in" /\ phase[q] = "in" /\ wants[p] = Key(p) /\ wants[q] = Key(q)
        BY <2>1, <3>1, <3>3 DEF OciTypeOK, Holds, LockedPCs, Fills
      <4>2. Key(q) # Key(p)
        BY <3>1, <4>1 DEF Exclusive
      <4>3. newest'[Key(q)] = newest[Key(q)]
        BY <1>1, <2>3, <4>2
      <4> QED
        BY <2>5, <3>1, <3>3, <4>3 DEF AnswersInOrder
    <3> QED
      BY <3>1, <3>2, <3>3
  <2> QED
    BY <2>4, <2>5 DEF AnswersInOrder
<1>6. ASSUME NEW p \in Procs, NEW b \in {upstream[Key(p)], Corrupt},
             NEW d \in {upstream[Key(p)], NoDigest}, NEW storable \in BOOLEAN,
             NEW large \in BOOLEAN, Fetch(p, b, d, storable, large)
      PROVE  Goal
  <2>1. /\ newest' = newest /\ upstream' = upstream /\ req' = req
        /\ \A q \in Procs \ {p} : pc'[q] = pc[q] /\ answer'[q] = answer[q]
        /\ answer'[p].digest = d
    BY <1>6 DEF Fetch, external, aux, OciTypeOK
  <2>2. \A q \in Procs : Key(q)' = Key(q) /\ (Fills(q)' <=> Fills(q))
    BY <2>1 DEF Key, Fills
  <2>3. answer'[p].digest # NoDigest =>
          answer'[p].digest <= upstream[Key(p)] /\ newest[Key(p)] <= answer'[p].digest
    BY <1>1, <1>2, <2>1 DEF AnswersInOrder
  <2>4. \A k \in Keys : newest'[k] >= newest[k]
    BY <1>2, <2>1
  <2> QED
    BY <2>1, <2>2, <2>3, <2>4 DEF AnswersInOrder
<1>7. ASSUME NEW p \in Procs,
             \/ LookupFinds(p) \/ LookupMisses(p) \/ HeadFails(p) \/ ServeHit(p)
             \/ HitRefused(p) \/ HitRefusedAgain(p) \/ AwaitKey(p) \/ EnterKey(p) \/ Unlock(p)
             \/ \E d \in {NoDigest, upstream[Key(p)]} : AnswerHead(p, d)
             \/ Miss(p) \/ RecheckErrs(p) \/ FetchFails(p) \/ RefuseManifest(p) \/ SendOnly(p)
      PROVE  Goal
  <2>1. /\ newest' = newest /\ upstream' = upstream /\ req' = req
        /\ \E x \in OciPCs \ {"respond"} : pc' = [pc EXCEPT ![p] = x]
        /\ \A q \in Procs \ {p} : answer'[q] = answer[q]
    <3>1. CASE RefuseManifest(p) \/ SendOnly(p)
      BY <3>1 DEF RefuseManifest, SendOnly, Reply, AfterMiss, OciPCs, external, OciTypeOK
    <3>2. CASE ~(RefuseManifest(p) \/ SendOnly(p))
      BY <1>7, <3>2 DEF LookupFinds, LookupMisses, HeadFails, ServeHit, HitRefused, HitRefusedAgain,
           RecheckErrs, AwaitKey, EnterKey, Unlock, AnswerHead, Miss, FetchFails, AfterMiss, OciPCs,
           external, aux
    <3> QED
      BY <3>1, <3>2
  <2>2. \A q \in Procs : pc'[q] = "respond" =>
          pc[q] = "respond" /\ answer'[q] = answer[q] /\ req'[q] = req[q]
    BY <2>1 DEF OciTypeOK
  <2> QED
    BY <1>2, <1>4, <2>1, <2>2
<1>8. ASSUME NEW p \in Procs, NEW r \in Requests, Arrive(p, r) PROVE Goal
  <2>1. newest' = newest /\ upstream' = upstream
    BY <1>8 DEF Arrive, external, aux
  <2>2. \A q \in Procs : pc'[q] = "respond" =>
          pc[q] = "respond" /\ answer'[q] = answer[q] /\ req'[q] = req[q]
    BY <1>8 DEF Arrive, OciTypeOK
  <2> QED
    BY <1>2, <1>4, <2>1, <2>2
<1>9. ASSUME NEW k \in Keys, MoveTag(k) PROVE Goal
  <2>1. /\ newest' = newest /\ pc' = pc /\ answer' = answer /\ req' = req
        /\ k \in Tags /\ upstream' = [upstream EXCEPT ![k] = @ + 1]
    BY <1>9 DEF MoveTag, aux, locals
  <2>2. \A l \in Keys : upstream'[l] \in Nat /\ upstream'[l] >= upstream[l]
                        /\ (l \notin Tags => upstream'[l] = upstream[l])
    BY <1>2, <2>1 DEF OciTypeOK
  <2> QED
    BY <1>4, <2>1, <2>2
<1>10. CASE \/ \E k \in Keys : Expire(k)
            \/ \E t \in Tokens : ChangeToken(t)
            \/ UNCHANGED ociVars
  <2>1. newest' = newest /\ upstream' = upstream /\ pc' = pc /\ answer' = answer /\ req' = req
    BY <1>10 DEF Expire, ChangeToken, ociVars, aux, locals, external
  <2> QED
    BY <1>2, <1>4, <2>1
<1> HIDE DEF At, Goto
<1> QED
  BY <1>5, <1>6, <1>7, <1>8, <1>9, <1>10 DEF OciNext, Handle

-----------------------------------------------------------------------------
(* The inductive invariant of the proxy.                                    *)
OciInv ==
  /\ OciTypeOK
  /\ Exclusive /\ FetchesCharged /\ AnswersInOrder
  /\ CacheHoldsVerified /\ OpenedVerified /\ HeadsConfirmed /\ HitsAreConfirmed

LEMMA OciInvInit == OciInit => OciInv
<1> SUFFICES ASSUME OciInit PROVE OciInv
  OBVIOUS
<1>1. OciTypeOK
  BY OciTypeInit
<1>2. Exclusive
  BY DEF OciInit, Exclusive
<1>3. FetchesCharged
  BY DEF OciInit, FetchesCharged
<1>4. AnswersInOrder
  BY DEF OciInit, AnswersInOrder
<1>5. CacheHoldsVerified /\ OpenedVerified /\ HeadsConfirmed /\ HitsAreConfirmed
  BY DEF OciInit, CacheHoldsVerified, OpenedVerified, HeadsConfirmed, HitsAreConfirmed, NothingServed
<1> QED
  BY <1>1, <1>2, <1>3, <1>4, <1>5 DEF OciInv

LEMMA OciInvStep == OciInv /\ [OciNext]_ociVars => OciInv'
<1> SUFFICES ASSUME OciInv, [OciNext]_ociVars PROVE OciInv'
  OBVIOUS
<1>1. OciTypeOK'
  BY OciTypeStep DEF OciInv
<1>2. Exclusive' /\ FetchesCharged' /\ AnswersInOrder'
  BY <1>1, ExclusiveStep, ChargeStep, OrderStep DEF OciInv
<1>3. CacheHoldsVerified' /\ OpenedVerified' /\ HeadsConfirmed' /\ HitsAreConfirmed'
  BY ConfirmStep DEF OciInv
<1> QED
  BY <1>1, <1>2, <1>3 DEF OciInv

(* Bytes leave the cache only if the upstream confirmed them to the         *)
(* client's own token while the request was handled, although tags move,    *)
(* tokens are revoked and entries are replaced meanwhile                    *)
(* (proxy.go:127-145, 193-220).                                             *)
THEOREM OciHitsAreConfirmed == OciSpec => [](OciTypeOK /\ HitsAreConfirmed)
<1>1. OciInv => OciTypeOK /\ HitsAreConfirmed
  BY DEF OciInv
<1> QED
  BY <1>1, OciInvInit, OciInvStep, PTL DEF OciSpec

(* What is cached hashes to the digest it is stored and asked for with,     *)
(* whatever the upstream sent (proxy.go:314-404).                           *)
THEOREM OciCacheHoldsVerified == OciSpec => []CacheHoldsVerified
<1>1. OciInv => CacheHoldsVerified
  BY DEF OciInv
<1> QED
  BY <1>1, OciInvInit, OciInvStep, PTL DEF OciSpec

(* However many requests come for a cold key, it is fetched once, and once  *)
(* more for every time its entry expired, could not be stored or was        *)
(* refused by the upstream (proxy.go:136-149).                              *)
THEOREM OciColdKeyFetchedOnce == OciSpec => []ColdKeyFetchedOnce
<1>1. ASSUME OciInv PROVE ColdKeyFetchedOnce
  <2>1. \A k \in Keys : fetches[k] \in Nat /\ losses[k] \in Nat
    BY <1>1 DEF OciInv, OciTypeOK
  <2> QED
    BY <1>1, <2>1 DEF OciInv, FetchesCharged, ColdKeyFetchedOnce
<1> QED
  BY <1>1, OciInvInit, OciInvStep, PTL DEF OciSpec

(* A tag never goes back to content it named before (proxy.go:136-149, 291, *)
(* 371).                                                                    *)
THEOREM OciTagsNeverGoBack == OciSpec => TagsNeverGoBack
<1>1. ASSUME OciInv, [OciNext]_ociVars PROVE [\A k \in Keys : newest'[k] >= newest[k]]_ociVars
  <2>1. OciInv'
    BY <1>1, OciInvStep
  <2> QED
    BY <1>1, <2>1, OrderStep DEF OciInv
<1> QED
  BY <1>1, OciInvInit, OciInvStep, PTL DEF OciSpec, TagsNeverGoBack
=============================================================================
