----------------------------- MODULE PypiProxy -----------------------------
(***************************************************************************)
(* The PyPI proxy (internal/pypiproxy/proxy.go): requests for the page of a *)
(* project and for distributions of the upstream, beside the uploads of     *)
(* PrivatePyPI.  A page request first lists the private packages; only if   *)
(* there are none does it use the cache and the upstream, like the file     *)
(* requests that follow the links of an upstream page.                      *)
(*                                                                         *)
(* The store is EntryCache, and the lock of the cache keys a second         *)
(* PerKeyMutex: one keyedLocker serves both, with keys that never meet.     *)
(* Upstream pages are not told apart; a distribution is its content.        *)
(***************************************************************************)
EXTENDS PrivatePyPI

CONSTANTS
  Links,         \* the file links of the upstream's page
  NoDigest,      \* a link or a request without a sha256
  Index,         \* what the upstream serves as the page of the project
  Clients,       \* the Accept and User-Agent headers of clients
  Varies,        \* the Vary headers of the upstream, as sets of header names
  NoEntry        \* Lookup finds nothing

(* A link names an upstream file.  fragment is the sha256 of its URL        *)
(* fragment, hash the one of the JSON object it is in; origin tells whether *)
(* its host is allowed.                                                     *)
Digests == Contents \cup {NoDigest}
ASSUME LinksAssumption ==
  /\ \A l \in Links : /\ l.fragment \in Digests /\ l.hash \in Digests
                      /\ l.origin \in {"allowed", "other"}
  /\ NoDigest \notin Contents /\ Index \notin Contents
ASSUME ClientsAssumption == Clients # {}

VARIABLES
  entry,        \* what Lookup finds under each cache key
  gatePhase,    \* each request's part of the keyed lock
  gateWants,    \* the cache key it locks
  req,          \* the request, once it has left the private packages
  hit           \* what the cache gave it

-----------------------------------------------------------------------------
(* From the links of a page to requests and cache keys.                     *)

(* Mutant: the hash of a JSON object is not carried into the link.          *)
FragmentOnly(l) == l.fragment

(* rewriteJSONHref: the hash of the object is added to the fragment.        *)
LinkDigest(l) == IF l.fragment = NoDigest THEN l.hash ELSE l.fragment

(* A link to another host, or one whose two hashes disagree, is left as it  *)
(* is: the client does not come back to the proxy for it.                   *)
Rewritten(l) ==
  /\ l.origin = "allowed"
  /\ l.hash # NoDigest /\ l.fragment # NoDigest => l.hash = l.fragment

(* The rewritten link, which carries the upstream's URL and the hash.       *)
proxyFileURL(l) == [kind |-> "file", url |-> l.url, digest |-> LinkDigest(l), link |-> l]

(* fileTargetURL: a .metadata request asks for another file of the          *)
(* upstream, and its hash is not the link's.                                *)
MetadataOf(q) == [q EXCEPT !.kind = "metadata", !.digest = NoDigest]
FileRequests ==
  UNION {{proxyFileURL(l), MetadataOf(proxyFileURL(l))} : l \in {m \in Links : Rewritten(m)}}
NoLink == [url |-> NoFile, fragment |-> NoDigest, hash |-> NoDigest, origin |-> "other"]
PageRequest == [kind |-> "simple", url |-> NoFile, digest |-> NoDigest, link |-> NoLink]
Queries == FileRequests \cup {PageRequest}

(* Mutant: the key of a file is its URL.                                    *)
UrlOnly(q, client) == <<q.kind, q.url, client["Accept"], NoDigest>>

(* Mutant: all clients share a page.                                        *)
AcceptIgnored(q, client) == <<q.kind, q.url, "any", q.digest>>

cacheKey(q, client) == <<q.kind, q.url, client["Accept"], q.digest>>

CacheKeys == {cacheKey(q, client) : q \in Queries, client \in Clients}

-----------------------------------------------------------------------------
(* From the headers of an answer to the decision to store it.               *)

Headers == {"Accept", "Accept-Encoding", "User-Agent"}

(* doUpstream sends the headers of the client, but for Accept-Encoding.     *)
Sent(client, header) == IF header = "Accept-Encoding" THEN "identity" ELSE client[header]

(* Mutant: Vary is not looked at.                                           *)
AnyVary(kind) == Headers

(* What serveSimpleMiss and serveFileMiss tell ResponseAllowsStorage.       *)
allowedVary(kind) ==
  IF kind = "simple" THEN {"Accept", "Accept-Encoding"} ELSE {"Accept-Encoding"}

(* The part of ResponseAllowsStorage that depends on the request's kind;    *)
(* what else forbids storage is in FetchOnly.                               *)
ResponseAllowsStorage(kind, vary) == vary \subseteq allowedVary(kind)

(* An entry is a content and what the upstream chose it by.                 *)
Chosen(client, vary) == {<<header, Sent(client, header)>> : header \in vary}
Entries == [content : Contents \cup {Index}, chosen : {Chosen(c, v) : c \in Clients, v \in Varies}]
ASSUME NoEntryAssumption == NoEntry \notin Entries

Gate == INSTANCE PerKeyMutex WITH
          Procs <- Readers, Keys <- CacheKeys, phase <- gatePhase, wants <- gateWants
Cache == INSTANCE EntryCache WITH Keys <- CacheKeys, Writes <- Entries

gate == <<gatePhase, gateWants>>
private == <<controllerVars, dist, sidecar, leftover, upload, phase, wants, published, uncounted>>
proxyVars == <<entry, gatePhase, gateWants, req, hit>>
pypiVars == <<privateVars, proxyVars>>

(* cacheable: no Range header, nothing that bypasses the cache, no          *)
(* credentials that would be forwarded.                                     *)
NoRequest == [query |-> PageRequest, cacheable |-> FALSE, client |-> CHOOSE c \in Clients : TRUE]
Key(r) == cacheKey(req[r].query, req[r].client)
Move(r, pc) == reader' = [reader EXCEPT ![r].pc = pc]

-----------------------------------------------------------------------------
(* serveSimple when the project has no private packages.                    *)
PageFromUpstream(r, client, cacheable) ==
  /\ ReaderAt(r, "upstream")
  /\ req' = [req EXCEPT ![r] = [query |-> PageRequest, cacheable |-> cacheable, client |-> client]]
  /\ Move(r, "lookup")
  /\ UNCHANGED <<private, left, entry, gate, hit>>

(* serveFile.                                                               *)
RequestFile(r, q, client, cacheable) ==
  /\ ReaderAt(r, "idle")
  /\ Spend("files")
  /\ req' = [req EXCEPT ![r] = [query |-> q, cacheable |-> cacheable, client |-> client]]
  /\ Move(r, "lookup")
  /\ UNCHANGED <<private, entry, gate, hit>>

-----------------------------------------------------------------------------
(* serveCached.                                                             *)

Hit(r) == req[r].cacheable /\ entry[Key(r)] # NoEntry

LookupHit(r) ==
  /\ ReaderAt(r, "lookup")
  /\ Hit(r)
  /\ hit' = [hit EXCEPT ![r] = entry[Key(r)]]
  /\ Move(r, "sent")
  /\ UNCHANGED <<private, left, entry, gate, req>>

(* Nothing is found, or the lookup fails whatever is there: the request     *)
(* goes on to wait for the key, in the same step.                           *)
LookupMiss(r) ==
  /\ ReaderAt(r, "lookup")
  /\ Gate!Ask(r, Key(r))
  /\ Move(r, "queued")
  /\ UNCHANGED <<private, left, entry, req, hit>>

EnterKey(r) ==
  /\ ReaderAt(r, "queued")
  /\ Gate!Enter(r)
  /\ Move(r, "recheck")
  /\ UNCHANGED <<private, left, entry, req, hit>>

RecheckHit(r) ==
  /\ ReaderAt(r, "recheck")
  /\ Hit(r)
  /\ hit' = [hit EXCEPT ![r] = entry[Key(r)]]
  /\ Move(r, "unlock")
  /\ UNCHANGED <<private, left, entry, gate, req>>

(* Nothing is found, or the second lookup fails whatever is there.          *)
Miss(r) ==
  /\ ReaderAt(r, "recheck")
  /\ Move(r, "fetch")
  /\ UNCHANGED <<private, left, entry, gate, req, hit>>

-----------------------------------------------------------------------------
(* serveSimpleMiss, serveFileMiss and streamResponse, with the key locked.  *)

(* What the upstream may send for a query: anything, for a file.            *)
Upstream(q) == IF q.kind = "simple" THEN {Index} ELSE Contents

(* Mutant: the body is committed without its hash being compared.           *)
AcceptAll(r, content) == TRUE

(* verifier: the body has the sha256 of the query, if there is one.         *)
Verified(r, content) == req[r].query.digest \in {NoDigest, content}

(* A GET is answered with 200 and headers that allow storage: the body is   *)
(* stored (PutBytes of a rewritten page, PutStreamVerified of a file).      *)
FetchAndStore(r, content, vary) ==
  /\ ReaderAt(r, "fetch") /\ req[r].cacheable
  /\ ResponseAllowsStorage(req[r].query.kind, vary)
  /\ Verified(r, content)
  /\ Cache!Put(Key(r), [content |-> content, chosen |-> Chosen(req[r].client, vary)])
  /\ Move(r, "unlock")
  /\ UNCHANGED <<private, left, gate, req, hit>>

(* Nothing is stored: the upstream fails, its page cannot be read or        *)
(* rewritten, or the answer is only passed on, because it may not be        *)
(* stored, is too large to rewrite, the write is refused or fails, or the   *)
(* hash does not match what the client has already received.                *)
FetchOnly(r) ==
  /\ ReaderAt(r, "fetch")
  /\ Move(r, "unlock")
  /\ UNCHANGED <<private, left, entry, gate, req, hit>>

(* The handler returns; the one that locked the key unlocks it.             *)
Answered(r) ==
  /\ \/ ReaderAt(r, "sent") /\ UNCHANGED gate
     \/ ReaderAt(r, "unlock") /\ Gate!Leave(r)
  /\ reader' = [reader EXCEPT ![r] = IdleReader]
  /\ req' = [req EXCEPT ![r] = NoRequest]
  /\ hit' = [hit EXCEPT ![r] = NoEntry]
  /\ UNCHANGED <<private, left, entry>>

(* An entry expires or is collected.                                        *)
Expire(k) ==
  /\ Cache!Drop(k)
  /\ UNCHANGED <<private, left, reader, gate, req, hit>>

CachedStep(r) ==
  \/ \E client \in Clients, cacheable \in BOOLEAN : PageFromUpstream(r, client, cacheable)
  \/ LookupHit(r) \/ LookupMiss(r)
  \/ RecheckHit(r) \/ Miss(r)
  \/ \E content \in Upstream(req[r].query), vary \in Varies : FetchAndStore(r, content, vary)
  \/ FetchOnly(r) \/ Answered(r)

(* The process dies and starts again: cached entries stay.                  *)
PypiCrash ==
  /\ PrivateCrash
  /\ gatePhase' = [r \in Readers |-> "out"]
  /\ req' = [r \in Readers |-> NoRequest]
  /\ hit' = [r \in Readers |-> NoEntry]
  /\ UNCHANGED <<entry, gateWants>>

PypiInit ==
  /\ PrivateInit
  /\ entry = [k \in CacheKeys |-> NoEntry]
  /\ gatePhase = [r \in Readers |-> "out"]
  /\ gateWants = [r \in Readers |-> CHOOSE k \in CacheKeys : TRUE]
  /\ req = [r \in Readers |-> NoRequest]
  /\ hit = [r \in Readers |-> NoEntry]

PypiNext ==
  \/ PrivateStep /\ UNCHANGED proxyVars
  \/ \E r \in Readers : CachedStep(r) \/ EnterKey(r)
  \/ \E r \in Readers, q \in FileRequests, client \in Clients, cacheable \in BOOLEAN :
        RequestFile(r, q, client, cacheable)
  \/ \E k \in CacheKeys : Expire(k)
  \/ PypiCrash

PypiSpec == PypiInit /\ [][PypiNext]_pypiVars

-----------------------------------------------------------------------------
(* Properties.                                                              *)

BeyondLocal == {"lookup", "queued", "recheck", "fetch", "unlock", "sent"}

(* Once a package of the project has been acknowledged, no request for its  *)
(* page that begins later reaches the cache or the upstream, whatever       *)
(* uploads are rolled back and whichever process serves it (proxy.go:255-   *)
(* 266; docs/pypi-design.md, "A private project shadows an upstream project *)
(* with the same normalized name").                                         *)
PrivateShadowsUpstream ==
  \A r \in Readers : reader[r].known # {} => reader[r].pc \notin BeyondLocal \cup {"upstream"}

(* What the cache serves for a link is the distribution whose sha256 the    *)
(* upstream's page gave, in the link or in the object around it: the hash   *)
(* passes through the rewritten link, the query, the key and the check of   *)
(* the body (proxy.go:613-638, 488-498, 734; docs/pypi-design.md, "so it    *)
(* can verify the body before committing a cached file").                   *)
Promised(l) == {l.fragment, l.hash} \ {NoDigest}
HitsMatchPage ==
  \A r \in Readers :
    hit[r] # NoEntry /\ req[r].query.kind = "file"
      => Promised(req[r].query.link) \subseteq {hit[r].content}

(* A cached answer that the upstream chose by headers of one client is      *)
(* served only to clients that send the same: what may vary is part of the  *)
(* key or is not stored (proxy.go:275, 288, 420, 485, 557, 734;             *)
(* policy.go:147-164).                                                      *)
HitsFitTheClient ==
  \A r \in Readers :
    hit[r] # NoEntry => \A pair \in hit[r].chosen : Sent(req[r].client, pair[1]) = pair[2]
=============================================================================
