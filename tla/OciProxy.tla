------------------------------ MODULE OciProxy ------------------------------
(***************************************************************************)
(* The OCI proxy (internal/ociproxy/proxy.go).  It differs from NpmProxy in *)
(* three ways: a cached object is served only after the upstream confirmed, *)
(* in a HEAD request with the client's own token, that the token is good    *)
(* and that the digest is still the cached one; what is stored must hash to *)
(* the digest asked for or announced; and only requests that may use the    *)
(* cache take the keyed lock.                                               *)
(*                                                                         *)
(* Contents are numbers and a content is its own digest; Corrupt stands for *)
(* bytes that hash to no digest in use.  A tag names ever newer contents, a *)
(* digest key names one for good.  Tokens are granted and revoked upstream  *)
(* at any time.  As in NpmProxy the lock is PerKeyMutex and the store       *)
(* EntryCache; Expire is the ttl of a tag or a collection, and a Lookup may *)
(* fail to read an entry that is there.                                     *)
(***************************************************************************)
EXTENDS Integers, FiniteSets

CONSTANTS
  Procs,        \* the goroutines that handle requests
  Tags,         \* keys of manifests asked for by tag
  Manifests,    \* keys of manifests asked for by digest
  Blobs,        \* keys of blobs
  Tokens,       \* what clients send as Authorization
  NoEntry,      \* Lookup finds nothing
  NoAnswer,     \* no response
  MaxRequests,  \* bound on the requests that arrive
  MaxVersions,  \* bound on the contents a tag goes through
  MaxExpiries   \* bound on the entries that expire, per key

ASSUME OciAssumption ==
  /\ Tags \cap Manifests = {} /\ (Tags \cup Manifests) \cap Blobs = {}
  /\ Tags \cup Manifests \cup Blobs # {} /\ Tokens # {}
  /\ {MaxRequests, MaxVersions, MaxExpiries} \subseteq Nat

Keys == Tags \cup Manifests \cup Blobs
NoDigest == -1
Corrupt == -2
Digests == Nat
Bodies == Nat \cup {Corrupt}
Objects == [content : Bodies, digest : Digests]
Answers == [body : Bodies, digest : Digests \cup {NoDigest}, storable : BOOLEAN, large : BOOLEAN]

ASSUME OciNullAssumption == NoEntry \notin Objects /\ NoAnswer \notin Answers

VARIABLES
  entry,      \* what Lookup finds under each key
  phase,      \* each request's part of the keyed lock
  wants,      \* the key it locks
  upstream,   \* the content the upstream has under each key
  allowed,    \* the tokens the upstream accepts
  pc,         \* where each request is
  req,        \* the request
  opened,     \* the entry its Lookup opened
  head,       \* the answer to its HEAD
  answer,     \* the answer to its GET
  served,     \* what the client got, and whether from the cache
  arrivals,   \* bounds the requests
  confirmed,  \* aux: contents the upstream confirmed to this request's token
  fetches,    \* aux: GETs that could fill the cache, per key
  losses,     \* aux: times a key had to be fetched again, per key
  newest      \* aux: the newest content stored under each key

INSTANCE PerKeyMutex
INSTANCE EntryCache WITH Writes <- Objects

lock == <<phase, wants>>
external == <<upstream, allowed>>
aux == <<fetches, losses, newest>>
locals == <<pc, req, opened, head, answer, served, confirmed>>
ociVars == <<entry, phase, wants, upstream, allowed, pc, req, opened, head, answer, served,
             arrivals, confirmed, fetches, losses, newest>>

Requests == [key : Keys, method : {"GET", "HEAD"}, cacheable : BOOLEAN, token : Tokens]

NoHead == [granted |-> FALSE, digest |-> NoDigest]
NothingServed == [from |-> "nothing", content |-> Corrupt]

At(p, where) == pc[p] = where
Goto(p, where) == pc' = [pc EXCEPT ![p] = where]
Key(p) == req[p].key
Granted(p) == req[p].token \in allowed

(* classify: a request by digest names the content it wants.                *)
requestedDigest(k) == IF k \in Tags THEN NoDigest ELSE 0

OciInit ==
  /\ entry = [k \in Keys |-> NoEntry]
  /\ phase = [p \in Procs |-> "out"]
  /\ wants = [p \in Procs |-> CHOOSE k \in Keys : TRUE]
  /\ upstream = [k \in Keys |-> 0]
  /\ allowed = Tokens
  /\ pc = [p \in Procs |-> "idle"]
  /\ req = [p \in Procs |-> CHOOSE r \in Requests : TRUE]
  /\ opened = [p \in Procs |-> NoEntry]
  /\ head = [p \in Procs |-> NoHead]
  /\ answer = [p \in Procs |-> NoAnswer]
  /\ served = [p \in Procs |-> NothingServed]
  /\ arrivals = 0
  /\ confirmed = [p \in Procs |-> {}]
  /\ fetches = [k \in Keys |-> 0]
  /\ losses = [k \in Keys |-> 0]
  /\ newest = [k \in Keys |-> 0]

-----------------------------------------------------------------------------
(* ServeHTTP.  A request with a Range header, with a Cache-Control that     *)
(* forbids it or for another resource is not cacheable and takes no lock.   *)
Arrive(p, r) ==
  /\ At(p, "idle") /\ arrivals < MaxRequests
  /\ arrivals' = arrivals + 1
  /\ req' = [req EXCEPT ![p] = r]
  /\ served' = [served EXCEPT ![p] = NothingServed]
  /\ confirmed' = [confirmed EXCEPT ![p] = {}]
  /\ Goto(p, IF r.cacheable THEN "lookup" ELSE "fetch")
  /\ UNCHANGED <<entry, lock, external, opened, head, answer, aux>>

(* Lookup, before and after the lock: the entry is opened and its digest    *)
(* has to be confirmed.                                                     *)
LookupFinds(p) ==
  /\ At(p, "lookup") \/ At(p, "recheck")
  /\ entry[Key(p)] # NoEntry
  /\ opened' = [opened EXCEPT ![p] = entry[Key(p)]]
  /\ Goto(p, IF At(p, "lookup") THEN "head" ELSE "rehead")
  /\ UNCHANGED <<entry, lock, external, req, head, answer, served, arrivals, confirmed, aux>>

(* It finds nothing, or fails whatever is there.                            *)
LookupMisses(p) ==
  /\ At(p, "lookup")
  /\ Goto(p, "await")
  /\ UNCHANGED <<entry, lock, external, req, opened, head, answer, served, arrivals, confirmed, aux>>

(* authorizeCacheHit: the upstream answers the HEAD with what it has and    *)
(* whom it accepts at this moment; it may leave out the digest, or the      *)
(* request may fail.                                                        *)
AnswerHead(p, digest) ==
  /\ At(p, "head") \/ At(p, "rehead")
  /\ digest \in {NoDigest, upstream[Key(p)]}
  /\ head' = [head EXCEPT ![p] = [granted |-> Granted(p), digest |-> digest]]
  /\ confirmed' = [confirmed EXCEPT ![p] = IF Granted(p) THEN @ \cup {digest} ELSE @]
  /\ Goto(p, IF At(p, "head") THEN "decide" ELSE "redecide")
  /\ UNCHANGED <<entry, lock, external, req, opened, answer, served, arrivals, aux>>

HeadFails(p) ==
  /\ At(p, "head") \/ At(p, "rehead")
  /\ head' = [head EXCEPT ![p] = NoHead]
  /\ Goto(p, IF At(p, "head") THEN "decide" ELSE "redecide")
  /\ UNCHANGED <<entry, lock, external, req, opened, answer, served, arrivals, confirmed, aux>>

(* Mutant: a successful HEAD is enough.                                     *)
GrantedAnyDigest(p) == head[p].granted

authorizeCacheHit(p) ==
  /\ head[p].granted
  /\ head[p].digest # NoDigest
  /\ opened[p].digest = head[p].digest

(* serveHit sends the bytes of the file that was opened.                    *)
ServeHit(p) ==
  /\ At(p, "decide") \/ At(p, "redecide")
  /\ authorizeCacheHit(p)
  /\ served' = [served EXCEPT ![p] = [from |-> "cache", content |-> opened[p].content]]
  /\ opened' = [opened EXCEPT ![p] = NoEntry]
  /\ head' = [head EXCEPT ![p] = NoHead]
  /\ Goto(p, IF At(p, "decide") THEN "idle" ELSE "unlock")
  /\ UNCHANGED <<entry, lock, external, req, answer, arrivals, confirmed, aux>>

(* A request that goes upstream and may fill the key.                       *)
Fills(p) == req[p].cacheable /\ req[p].method = "GET"
CountFetch(p) == fetches' = IF Fills(p) THEN [fetches EXCEPT ![Key(p)] = @ + 1] ELSE fetches
AddLoss(p) == losses' = IF Fills(p) THEN [losses EXCEPT ![Key(p)] = @ + 1] ELSE losses

(* The key stays without an entry after a fetch that could have filled it.  *)
CountLoss(p) == IF entry[Key(p)] = NoEntry THEN AddLoss(p) ELSE UNCHANGED losses

(* The hit is not confirmed: the entry is closed, and the request waits for *)
(* the lock or, if it has it, fetches although there is an entry.           *)
HitRefused(p) ==
  /\ At(p, "decide")
  /\ ~authorizeCacheHit(p)
  /\ opened' = [opened EXCEPT ![p] = NoEntry]
  /\ head' = [head EXCEPT ![p] = NoHead]
  /\ Goto(p, "await")
  /\ UNCHANGED <<entry, lock, external, req, answer, served, arrivals, confirmed, aux>>

HitRefusedAgain(p) ==
  /\ At(p, "redecide")
  /\ ~authorizeCacheHit(p)
  /\ opened' = [opened EXCEPT ![p] = NoEntry]
  /\ head' = [head EXCEPT ![p] = NoHead]
  /\ CountFetch(p) /\ AddLoss(p)
  /\ Goto(p, "fetch")
  /\ UNCHANGED <<entry, lock, external, req, answer, served, arrivals, confirmed, newest>>

AwaitKey(p) ==
  /\ At(p, "await")
  /\ Ask(p, Key(p))
  /\ Goto(p, "waiting")
  /\ UNCHANGED <<entry, external, req, opened, head, answer, served, arrivals, confirmed, aux>>

(* Mutant: a request goes on without waiting for the one that has the key.  *)
EnterAtOnce(p) ==
  /\ At(p, "waiting")
  /\ phase' = [phase EXCEPT ![p] = "in"]
  /\ Goto(p, "recheck")
  /\ UNCHANGED <<entry, wants, external, req, opened, head, answer, served, arrivals, confirmed, aux>>

EnterKey(p) ==
  /\ At(p, "waiting")
  /\ Enter(p)
  /\ Goto(p, "recheck")
  /\ UNCHANGED <<entry, external, req, opened, head, answer, served, arrivals, confirmed, aux>>

Miss(p) ==
  /\ At(p, "recheck")
  /\ entry[Key(p)] = NoEntry
  /\ CountFetch(p)
  /\ Goto(p, "fetch")
  /\ UNCHANGED <<entry, lock, external, req, opened, head, answer, served, arrivals, confirmed,
                 losses, newest>>

(* The second lookup fails although there is an entry, which is fetched     *)
(* again.                                                                   *)
RecheckErrs(p) ==
  /\ At(p, "recheck")
  /\ entry[Key(p)] # NoEntry
  /\ CountFetch(p) /\ AddLoss(p)
  /\ Goto(p, "fetch")
  /\ UNCHANGED <<entry, lock, external, req, opened, head, answer, served, arrivals, confirmed,
                 newest>>

-----------------------------------------------------------------------------
(* serveMiss.                                                               *)

AfterMiss(p) == IF req[p].cacheable THEN "unlock" ELSE "idle"

(* The answer to the GET: the content of the moment or corrupted bytes, and *)
(* a digest header or none.  storable is a 200 with headers that            *)
(* ResponseAllowsStorage accepts; large is a manifest over 16 MiB.          *)
Fetch(p, body, digest, storable, large) ==
  /\ At(p, "fetch")
  /\ Granted(p)
  /\ body \in {upstream[Key(p)], Corrupt}
  /\ digest \in {upstream[Key(p)], NoDigest}
  /\ large => Key(p) \notin Blobs
  /\ answer' = [answer EXCEPT ![p] = [body |-> body, digest |-> digest, storable |-> storable,
                                      large |-> large]]
  /\ Goto(p, "respond")
  /\ UNCHANGED <<entry, lock, external, req, opened, head, served, arrivals, confirmed, aux>>

(* The transport fails, a manifest cannot be read to its end, or the        *)
(* upstream refuses the token and its refusal is passed on.                 *)
FetchFails(p) ==
  /\ At(p, "fetch")
  /\ CountLoss(p)
  /\ Goto(p, AfterMiss(p))
  /\ UNCHANGED <<entry, lock, external, req, opened, head, answer, served, arrivals, confirmed,
                 fetches, newest>>

expectedDigest(p) ==
  IF requestedDigest(Key(p)) # NoDigest THEN requestedDigest(Key(p)) ELSE answer[p].digest

(* The answer goes through cacheManifest or cacheBlob.                      *)
Cacheable(p) == Fills(p) /\ answer[p].storable /\ expectedDigest(p) # NoDigest

(* Mutant: the digest is not verified.                                      *)
TrustUpstream(p) == TRUE

verifySum(p) == answer[p].body = expectedDigest(p)

Reply(p, sent) ==
  /\ At(p, "respond")
  /\ served' = [served EXCEPT ![p] = IF sent THEN [from |-> "upstream", content |-> answer[p].body]
                                     ELSE @]
  /\ answer' = [answer EXCEPT ![p] = NoAnswer]
  /\ Goto(p, AfterMiss(p))
  /\ UNCHANGED <<lock, external, req, opened, head, arrivals, confirmed, fetches>>

(* The object is verified, stored and sent.                                 *)
StoreObject(p) ==
  /\ Reply(p, TRUE)
  /\ Cacheable(p) /\ ~answer[p].large
  /\ verifySum(p)
  /\ Put(Key(p), [content |-> answer[p].body, digest |-> expectedDigest(p)])
  /\ newest' = [newest EXCEPT ![Key(p)] = expectedDigest(p)]
  /\ UNCHANGED losses

(* A manifest that does not verify is answered with an error.               *)
RefuseManifest(p) ==
  /\ Reply(p, FALSE)
  /\ Key(p) \notin Blobs
  /\ Cacheable(p) /\ ~answer[p].large
  /\ ~verifySum(p)
  /\ CountLoss(p)
  /\ UNCHANGED <<entry, newest>>

(* The bytes are sent and not stored: passThrough, a manifest that is too   *)
(* large, a blob that does not verify, or a write that is refused or fails. *)
SendOnly(p) ==
  /\ Reply(p, TRUE)
  /\ Key(p) \notin Blobs /\ Cacheable(p) /\ ~answer[p].large => verifySum(p)
  /\ CountLoss(p)
  /\ UNCHANGED <<entry, newest>>

Unlock(p) ==
  /\ At(p, "unlock")
  /\ Leave(p)
  /\ Goto(p, "idle")
  /\ UNCHANGED <<entry, external, req, opened, head, answer, served, arrivals, confirmed, aux>>

-----------------------------------------------------------------------------
(* The environment.                                                         *)
Expire(k) ==
  /\ losses[k] < MaxExpiries
  /\ Drop(k)
  /\ losses' = [losses EXCEPT ![k] = @ + 1]
  /\ UNCHANGED <<lock, external, locals, arrivals, fetches, newest>>

MoveTag(k) ==
  /\ k \in Tags /\ upstream[k] < MaxVersions
  /\ upstream' = [upstream EXCEPT ![k] = @ + 1]
  /\ UNCHANGED <<entry, lock, allowed, locals, arrivals, aux>>

ChangeToken(t) ==
  /\ allowed' = IF t \in allowed THEN allowed \ {t} ELSE allowed \cup {t}
  /\ UNCHANGED <<entry, lock, upstream, locals, arrivals, aux>>

Handle(p) ==
  \/ LookupFinds(p) \/ LookupMisses(p)
  \/ HeadFails(p) \/ \E digest \in {NoDigest, upstream[Key(p)]} : AnswerHead(p, digest)
  \/ ServeHit(p) \/ HitRefused(p) \/ HitRefusedAgain(p)
  \/ AwaitKey(p) \/ Miss(p) \/ RecheckErrs(p)
  \/ FetchFails(p)
  \/ \E body \in {upstream[Key(p)], Corrupt}, digest \in {upstream[Key(p)], NoDigest},
        storable, large \in BOOLEAN : Fetch(p, body, digest, storable, large)
  \/ StoreObject(p) \/ RefuseManifest(p) \/ SendOnly(p)
  \/ Unlock(p)

OciNext ==
  \/ \E p \in Procs : Handle(p) \/ EnterKey(p) \/ \E r \in Requests : Arrive(p, r)
  \/ \E k \in Keys : Expire(k) \/ MoveTag(k)
  \/ \E t \in Tokens : ChangeToken(t)

OciSpec == OciInit /\ [][OciNext]_ociVars

-----------------------------------------------------------------------------
(* Properties.                                                              *)

OciPCs == {"idle", "lookup", "head", "decide", "await", "waiting", "recheck", "rehead", "redecide",
           "fetch", "respond", "unlock"}
LockedPCs == {"recheck", "rehead", "redecide", "unlock"}
Holds(p) == pc[p] \in LockedPCs \/ (pc[p] \in {"fetch", "respond"} /\ req[p].cacheable)

(* The variables have their types; a cacheable request holds its key from   *)
(* the second lookup to the deferred unlock, another one never does         *)
(* (proxy.go:126-149).                                                      *)
OciTypeOK ==
  /\ entry \in [Keys -> Objects \cup {NoEntry}]
  /\ phase \in [Procs -> {"out", "waiting", "in"}] /\ wants \in [Procs -> Keys]
  /\ upstream \in [Keys -> Digests] /\ allowed \subseteq Tokens
  /\ pc \in [Procs -> OciPCs]
  /\ req \in [Procs -> Requests]
  /\ opened \in [Procs -> Objects \cup {NoEntry}]
  /\ head \in [Procs -> [granted : BOOLEAN, digest : Digests \cup {NoDigest}]]
  /\ answer \in [Procs -> Answers \cup {NoAnswer}]
  /\ served \in [Procs -> [from : {"nothing", "cache", "upstream"}, content : Bodies]]
  /\ confirmed \in [Procs -> SUBSET (Digests \cup {NoDigest})]
  /\ arrivals \in Nat
  /\ fetches \in [Keys -> Nat] /\ losses \in [Keys -> Nat] /\ newest \in [Keys -> Nat]
  /\ \A p \in Procs :
       /\ phase[p] = "in" <=> Holds(p)
       /\ pc[p] \notin {"idle", "fetch", "respond"} => req[p].cacheable
       /\ phase[p] = "waiting" <=> pc[p] = "waiting"
       /\ phase[p] # "out" => wants[p] = Key(p)
       /\ opened[p] # NoEntry <=> pc[p] \in {"head", "rehead", "decide", "redecide"}
       /\ answer[p] # NoAnswer <=> pc[p] = "respond"

(* Bytes come out of the cache only if the upstream confirmed, while this   *)
(* request was handled and with its token, that this very content is what   *)
(* the key names, although the tag may have moved, the token been revoked   *)
(* or the entry been replaced since (proxy.go:127-145, 193-220;             *)
(* docs/architecture.md, "A cached object is served only when that response *)
(* is successful and carries the exact, non-empty cached digest").          *)
HitsAreConfirmed ==
  \A p \in Procs : served[p].from = "cache" => served[p].content \in confirmed[p]

(* What the cache holds hashes to the digest it is stored with, and under a *)
(* digest key to that digest, whatever the upstream sent (proxy.go:314-404; *)
(* docs/architecture.md, "committed only if the calculated digest matches   *)
(* the digest in the request or Docker-Content-Digest").                    *)
CacheHoldsVerified ==
  \A k \in Keys : entry[k] # NoEntry =>
    /\ entry[k].content = entry[k].digest
    /\ requestedDigest(k) \in {NoDigest, entry[k].digest}

(* A cold key is fetched once, and once more for every time its entry       *)
(* expired, could not be stored, could not be read or was refused by the    *)
(* upstream (proxy.go:136-149, 184-191; docs/retention-soak.md, "concurrent *)
(* cold keys produce one upstream GET").                                    *)
ColdKeyFetchedOnce == \A k \in Keys : fetches[k] <= 1 + losses[k]

(* A tag never goes back to content it named before: the GET and the commit *)
(* lie in one critical section of the key (proxy.go:136-149, 291, 371).     *)
TagsNeverGoBack == [][\A k \in Keys : newest'[k] >= newest[k]]_ociVars
=============================================================================
