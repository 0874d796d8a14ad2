------------------------------ MODULE NpmProxy ------------------------------
(***************************************************************************)
(* The npm proxy (internal/npmproxy/proxy.go): how concurrent requests for  *)
(* a key look up the cache, wait for each other on the keyed lock, look     *)
(* again, fetch from the upstream registry and store what they fetched.     *)
(*                                                                         *)
(* The keyed lock is PerKeyMutex, which KeyedLocker implements; the store   *)
(* is EntryCache, which CacheStore and Collection implement.  An entry      *)
(* whose ttl has passed is a miss like one that was collected, so Expire    *)
(* stands for both; a Lookup may also fail to read an entry that is there.  *)
(* The upstream numbers the versions of what it serves under a key, and an  *)
(* answer also records whose credentials it was given for.  Bodies, headers *)
(* and statuses are abstracted to whether the answer is one that may be     *)
(* stored.                                                                  *)
(***************************************************************************)
EXTENDS Naturals, FiniteSets

CONSTANTS
  Procs,                 \* the goroutines that handle requests
  Keys,                  \* cache keys: target URL and Accept header
  Users,                 \* clients that send an Authorization header
  Anonymous,             \* requests without one
  ForwardAuthorization,  \* the repository's forward_authorization
  NoEntry,               \* Lookup finds nothing
  NoAnswer,              \* no response yet
  MaxRequests,           \* bound on the requests that arrive
  MaxVersions,           \* bound on the versions the upstream publishes
  MaxExpiries            \* bound on the entries that expire, per key

ASSUME ProxyAssumption ==
  /\ ForwardAuthorization \in BOOLEAN
  /\ Anonymous \notin Users
  /\ {MaxRequests, MaxVersions, MaxExpiries} \subseteq Nat
Answers == [version : Nat, givenTo : Users \cup {Anonymous}]
Responses == [content : Answers, storable : BOOLEAN]
ASSUME NullAssumption == NoEntry \notin Answers /\ NoAnswer \notin Answers \cup Responses

VARIABLES
  entry,        \* what Lookup finds under each key
  phase,        \* each request's part of the keyed lock
  wants,        \* the key it locks
  upstream,     \* the version the upstream serves under each key
  pc,           \* where each request is
  req,          \* the request
  answer,       \* the upstream's answer to it
  served,       \* what the client got
  stats,        \* requests, hits and misses
  fetches,      \* aux: cacheable GETs sent upstream, per key
  losses,       \* aux: times a key had to be fetched again, per key
  newest,       \* aux: the newest version stored under each key
  seen          \* aux: what lay under the key when the request went upstream

INSTANCE PerKeyMutex
INSTANCE EntryCache WITH Writes <- Answers

lock == <<phase, wants>>
locals == <<pc, req, answer, served, seen>>
aux == <<fetches, losses, newest>>
npmVars == <<entry, phase, wants, upstream, pc, req, answer, served, stats, fetches, losses, newest,
            seen>>

Requests == [key : Keys, method : {"GET", "HEAD"}, bypass : BOOLEAN,
             user : Users \cup {Anonymous}]

At(p, where) == pc[p] = where
Goto(p, where) == pc' = [pc EXCEPT ![p] = where]
Key(p) == req[p].key

-----------------------------------------------------------------------------
(* Whose credentials the upstream sees.                                     *)
ForwardedUser(r) == IF ForwardAuthorization THEN r.user ELSE Anonymous

(* Mutant: authorized requests use the shared cache as well.                *)
IgnoreAuthorization(r) == ~r.bypass

(* The request may use the cache: no Range header, no Cache-Control or      *)
(* Pragma that forbids it, no credentials that would be forwarded.          *)
CacheableRequest(r) == ~r.bypass /\ (~ForwardAuthorization \/ r.user = Anonymous)

(* The answer of p may be stored: answer.storable is a 200 whose headers    *)
(* ResponseAllowsStorage accepts.                                           *)
MayStore(p) == CacheableRequest(req[p]) /\ req[p].method = "GET" /\ answer[p].storable

(* A request whose answer could be stored: the one GET of a cold key.       *)
Fills(p) == CacheableRequest(req[p]) /\ req[p].method = "GET"

NpmInit ==
  /\ entry = [k \in Keys |-> NoEntry]
  /\ phase = [p \in Procs |-> "out"]
  /\ wants \in [Procs -> Keys]
  /\ upstream = [k \in Keys |-> 0]
  /\ pc = [p \in Procs |-> "idle"]
  /\ req \in [Procs -> [key : Keys, method : {"GET"}, bypass : {FALSE}, user : {Anonymous}]]
  /\ answer = [p \in Procs |-> NoAnswer]
  /\ served = [p \in Procs |-> NoAnswer]
  /\ stats = [requests |-> 0, hits |-> 0, misses |-> 0, rejected |-> 0]
  /\ fetches = [k \in Keys |-> 0]
  /\ losses = [k \in Keys |-> 0]
  /\ newest = [k \in Keys |-> 0]
  /\ seen = [p \in Procs |-> NoEntry]

-----------------------------------------------------------------------------
(* ServeHTTP.                                                               *)

(* Another method, or a path that is not the repository's.                  *)
Reject ==
  /\ stats.requests < MaxRequests
  /\ stats' = [stats EXCEPT !.requests = @ + 1, !.rejected = @ + 1]
  /\ UNCHANGED <<entry, lock, upstream, locals, aux>>

Arrive(p, r) ==
  /\ At(p, "idle") /\ stats.requests < MaxRequests
  /\ stats' = [stats EXCEPT !.requests = @ + 1]
  /\ req' = [req EXCEPT ![p] = r]
  /\ served' = [served EXCEPT ![p] = NoAnswer]
  /\ Goto(p, IF CacheableRequest(r) THEN "lookup" ELSE "await")
  /\ UNCHANGED <<entry, lock, upstream, answer, aux, seen>>

ServeHit(p) ==
  /\ entry[Key(p)] # NoEntry
  /\ stats' = [stats EXCEPT !.hits = @ + 1]
  /\ served' = [served EXCEPT ![p] = entry[Key(p)]]

(* The first lookup, without the lock.                                      *)
LookupHit(p) ==
  /\ At(p, "lookup")
  /\ ServeHit(p)
  /\ Goto(p, "sendHit")
  /\ UNCHANGED <<entry, lock, upstream, req, answer, aux, seen>>

(* Mutant: a request is counted as a miss before it waits.                  *)
LookupMissCounted(p) ==
  /\ At(p, "lookup")
  /\ stats' = [stats EXCEPT !.misses = @ + 1]
  /\ Goto(p, "await")
  /\ UNCHANGED <<entry, lock, upstream, req, answer, served, aux, seen>>

(* It finds nothing, or fails whatever is there.                            *)
LookupMiss(p) ==
  /\ At(p, "lookup")
  /\ Goto(p, "await")
  /\ UNCHANGED <<entry, lock, upstream, req, answer, served, stats, aux, seen>>

(* p.locks.lock(key), for cacheable and other requests alike.               *)
AwaitKey(p) ==
  /\ At(p, "await")
  /\ Ask(p, Key(p))
  /\ Goto(p, "waiting")
  /\ UNCHANGED <<entry, upstream, req, answer, served, stats, aux, seen>>

(* Mutant: a request goes on without waiting for the one that has the key.  *)
EnterAtOnce(p) ==
  /\ At(p, "waiting")
  /\ phase' = [phase EXCEPT ![p] = "in"]
  /\ Goto(p, "recheck")
  /\ UNCHANGED <<entry, wants, upstream, req, answer, served, stats, aux, seen>>

EnterKey(p) ==
  /\ At(p, "waiting")
  /\ Enter(p)
  /\ Goto(p, "recheck")
  /\ UNCHANGED <<entry, upstream, req, answer, served, stats, aux, seen>>

(* The second lookup.                                                       *)
RecheckHit(p) ==
  /\ At(p, "recheck")
  /\ CacheableRequest(req[p])
  /\ ServeHit(p)
  /\ Goto(p, "sendLocked")
  /\ UNCHANGED <<entry, lock, upstream, req, answer, aux, seen>>

(* Mutant: a waiter does not look again.                                    *)
NoRecheck(p) == TRUE

RecheckFails(p) == ~CacheableRequest(req[p]) \/ entry[Key(p)] = NoEntry

GoUpstream(p) ==
  /\ stats' = [stats EXCEPT !.misses = @ + 1]
  /\ fetches' = IF Fills(p) THEN [fetches EXCEPT ![Key(p)] = @ + 1] ELSE fetches
  /\ seen' = [seen EXCEPT ![p] = entry[Key(p)]]
  /\ Goto(p, "fetch")
  /\ UNCHANGED <<entry, lock, upstream, req, answer, served, newest>>

Miss(p) ==
  /\ At(p, "recheck")
  /\ RecheckFails(p)
  /\ GoUpstream(p)
  /\ UNCHANGED losses

(* The second lookup fails although there is an entry, which is fetched     *)
(* again.                                                                   *)
RecheckErrs(p) ==
  /\ At(p, "recheck")
  /\ CacheableRequest(req[p]) /\ entry[Key(p)] # NoEntry
  /\ GoUpstream(p)
  /\ losses' = IF Fills(p) THEN [losses EXCEPT ![Key(p)] = @ + 1] ELSE losses

(* The body of a hit goes to the client, who may be slow to read it or stop *)
(* reading; the hit of the second lookup is sent with the key locked, and   *)
(* so is a metadata document.                                               *)
Send(p) ==
  /\ At(p, "sendHit") \/ At(p, "sendLocked")
  /\ Goto(p, IF At(p, "sendHit") THEN "idle" ELSE "unlock")
  /\ UNCHANGED <<entry, lock, upstream, req, answer, served, stats, aux, seen>>

-----------------------------------------------------------------------------
(* serveMiss, with the key locked.                                          *)

(* The upstream answers with the version it has at this moment.  A metadata *)
(* document that may be stored is read to its end and rewritten first; any  *)
(* other answer is streamed.                                                *)
Fetch(p, storable, metadata) ==
  /\ At(p, "fetch")
  /\ metadata => storable /\ Fills(p)
  /\ answer' = [answer EXCEPT ![p] =
       [content |-> [version |-> upstream[Key(p)], givenTo |-> ForwardedUser(req[p])],
        storable |-> storable]]
  /\ Goto(p, IF metadata THEN "metadata" ELSE "respond")
  /\ UNCHANGED <<entry, lock, upstream, req, served, stats, aux, seen>>

(* The key stays without an entry after a fetch that could have filled it.  *)
CountLoss(p) ==
  losses' = IF Fills(p) /\ entry[Key(p)] = NoEntry THEN [losses EXCEPT ![Key(p)] = @ + 1]
            ELSE losses

(* The upstream cannot be reached, times out, breaks off a metadata         *)
(* document, or the client goes away.                                       *)
FetchFails(p) ==
  /\ At(p, "fetch")
  /\ CountLoss(p)
  /\ Goto(p, "unlock")
  /\ UNCHANGED <<entry, lock, upstream, req, answer, served, stats, fetches, newest, seen>>

(* A streamed answer reaches the client before it is committed, a metadata  *)
(* document is committed before it is sent.                                 *)
Reply(p) ==
  /\ At(p, "respond") \/ At(p, "metadata")
  /\ served' = [served EXCEPT ![p] = answer[p].content]
  /\ answer' = [answer EXCEPT ![p] = NoAnswer]
  /\ Goto(p, IF At(p, "respond") THEN "unlock" ELSE "sendLocked")
  /\ UNCHANGED <<lock, upstream, req, stats, fetches, seen>>

(* PutStream or PutBytes commits the entry.                                 *)
RespondAndStore(p) ==
  /\ Reply(p)
  /\ MayStore(p)
  /\ Put(Key(p), answer[p].content)
  /\ newest' = [newest EXCEPT ![Key(p)] = answer[p].content.version]
  /\ UNCHANGED losses

(* The answer is only passed on: it may not be stored, the storage          *)
(* controller refuses it, or the write fails or is cut off.                 *)
RespondOnly(p) ==
  /\ Reply(p)
  /\ CountLoss(p)
  /\ UNCHANGED <<entry, newest>>

(* Mutant: a handler returns without calling unlock.                        *)
ReturnLocked(p) ==
  /\ At(p, "unlock")
  /\ Goto(p, "idle")
  /\ UNCHANGED <<entry, lock, upstream, req, answer, served, stats, aux, seen>>

(* The deferred unlock.                                                     *)
Unlock(p) ==
  /\ At(p, "unlock")
  /\ Leave(p)
  /\ seen' = [seen EXCEPT ![p] = NoEntry]
  /\ Goto(p, "idle")
  /\ UNCHANGED <<entry, upstream, req, answer, served, stats, aux>>

-----------------------------------------------------------------------------
(* The environment: an entry expires or is collected; the upstream          *)
(* publishes a new version.                                                 *)
Expire(k) ==
  /\ losses[k] < MaxExpiries
  /\ Drop(k)
  /\ losses' = [losses EXCEPT ![k] = @ + 1]
  /\ UNCHANGED <<lock, upstream, locals, stats, fetches, newest>>

Publish(k) ==
  /\ upstream[k] < MaxVersions
  /\ upstream' = [upstream EXCEPT ![k] = @ + 1]
  /\ UNCHANGED <<entry, lock, locals, stats, aux>>

Handle(p) ==
  \/ LookupHit(p) \/ LookupMiss(p) \/ AwaitKey(p)
  \/ RecheckHit(p) \/ Miss(p) \/ RecheckErrs(p) \/ Send(p)
  \/ FetchFails(p) \/ \E storable, metadata \in BOOLEAN : Fetch(p, storable, metadata)
  \/ RespondAndStore(p) \/ RespondOnly(p)
  \/ Unlock(p)

NpmNext ==
  \/ Reject
  \/ \E p \in Procs : Handle(p) \/ EnterKey(p) \/ \E r \in Requests : Arrive(p, r)
  \/ \E k \in Keys : Expire(k) \/ Publish(k)

NpmSpec == NpmInit /\ [][NpmNext]_npmVars

(* A handler is writing to its client.  The server has no write timeout     *)
(* (cmd/n0ding/main.go:49-54): a client that stops reading keeps it there.  *)
Sending(p) == pc[p] \in {"sendHit", "sendLocked", "respond"}

(* Any other handler that can go on does: the http.Client gives an upstream *)
(* request five minutes, and local calls return.  Nothing is assumed of the *)
(* clients.  The mutex of a key that is given back again and again is       *)
(* handed to a waiter eventually, as sync.Mutex does and WaitersEnter of    *)
(* KeyedLocker shows for the keyed lock.                                    *)
NpmFairness ==
  \A p \in Procs : WF_npmVars(Handle(p) /\ ~Sending(p)) /\ SF_npmVars(EnterKey(p))

FairNpmSpec == NpmSpec /\ NpmFairness

-----------------------------------------------------------------------------
(* Properties.                                                              *)

PCs == {"idle", "lookup", "sendHit", "await", "waiting", "recheck", "fetch", "respond", "metadata",
        "sendLocked", "unlock"}
LockedPCs == {"recheck", "fetch", "respond", "metadata", "sendLocked", "unlock"}
AnsweredPCs == {"respond", "metadata"}

(* The variables have their types, and a request holds its key exactly from *)
(* the second lookup to the deferred unlock (proxy.go:121-133).             *)
NpmTypeOK ==
  /\ entry \in [Keys -> Answers \cup {NoEntry}]
  /\ phase \in [Procs -> {"out", "waiting", "in"}]
  /\ wants \in [Procs -> Keys]
  /\ upstream \in [Keys -> Nat]
  /\ pc \in [Procs -> PCs]
  /\ req \in [Procs -> Requests]
  /\ answer \in [Procs -> Responses \cup {NoAnswer}]
  /\ served \in [Procs -> Answers \cup {NoAnswer}]
  /\ seen \in [Procs -> Answers \cup {NoEntry}]
  /\ stats \in [requests : Nat, hits : Nat, misses : Nat, rejected : Nat]
  /\ fetches \in [Keys -> Nat] /\ losses \in [Keys -> Nat] /\ newest \in [Keys -> Nat]
  /\ \A p \in Procs :
       /\ phase[p] = "in" <=> pc[p] \in LockedPCs
       /\ phase[p] = "waiting" <=> pc[p] = "waiting"
       /\ phase[p] # "out" => wants[p] = Key(p)
       /\ answer[p] # NoAnswer <=> pc[p] \in AnsweredPCs

Fetching(p) == pc[p] \in {"fetch", "respond", "metadata"} /\ Fills(p)

(* While a request fetches a key to fill it, no other does, and the cache   *)
(* has nothing new for it: no entry, or the one that could not be read.     *)
(* Nobody stores behind the back of the one that holds the key              *)
(* (proxy.go:121-132; docs/architecture.md, "One client fetches and commits *)
(* the body; waiters re-check the cache").                                  *)
OneFetcherPerKey ==
  \A p \in Procs : Fetching(p) =>
    /\ entry[Key(p)] \in {NoEntry, seen[p]}
    /\ \A q \in Procs : Fetching(q) /\ Key(q) = Key(p) => q = p

(* A cold key is fetched once, and once more for every time its entry       *)
(* expired, could not be stored or could not be read, however many requests *)
(* come at the same time (docs/retention-soak.md, "concurrent cold keys     *)
(* produce one upstream GET, one miss, and only hits for waiters").         *)
ColdKeyFetchedOnce == \A k \in Keys : fetches[k] <= 1 + losses[k]

(* What a key holds never goes back to an older version, although the       *)
(* version is read from the upstream long before it is stored: the lock     *)
(* spans both (proxy.go:121-122, 213, 250).                                 *)
EntriesNeverGoBack == [][\A k \in Keys : newest'[k] >= newest[k]]_npmVars

(* With forward_authorization, what the upstream gave to a user is neither  *)
(* stored nor served to anyone else (proxy.go:106-108; docs/architecture.md *)
(* "that response is not read from or written to the shared cache").        *)
AnswersStayPrivate ==
  /\ \A k \in Keys : entry[k] # NoEntry => entry[k].givenTo = Anonymous
  /\ \A p \in Procs : served[p] # NoAnswer => served[p].givenTo = ForwardedUser(req[p])

(* Every request that was not rejected is counted as one hit or one miss    *)
(* once it has been decided (proxy.go:90, 115, 125, 131).                   *)
Undecided == {p \in Procs : pc[p] \in {"lookup", "await", "waiting", "recheck"}}
RequestsAreCounted ==
  stats.requests = stats.hits + stats.misses + stats.rejected + Cardinality(Undecided)

(* q holds p's own client, or p's key, while it writes.                     *)
HoldsUp(q, p) == Sending(q) /\ (q = p \/ (phase[q] = "in" /\ Key(q) = Key(p)))

(* Every request is answered or given up, although requests for a key wait  *)
(* for one another and the one that has it waits for the upstream, except   *)
(* for a client that stops reading for good: it keeps its own request and,  *)
(* if that one holds its key, the requests for the same key, and no others  *)
(* (proxy.go:121-132, 193, 250, 255, 298, 309).                             *)
RequestsFinish ==
  \A p \in Procs :
    \/ pc[p] # "idle" ~> pc[p] = "idle"
    \/ \E q \in Procs : <>[]HoldsUp(q, p)
=============================================================================
