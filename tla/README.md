# TLA+ verification of n0ding

n0ding is a self-hosted pull-through cache for npm, PyPI and OCI registries: one Go
process, one directory on disk, one byte budget. This directory holds TLA+ modules
of the parts in which concurrency, failure and accounting meet, TLC configurations
that check them on small instances, and TLAPS proofs of what matters most for every
instance. Paths such as `store.go` are under `src/internal/` of the repository.

## 1. Inventory

### Parts of the system

| Part | State it keeps | Operations | Talks to |
|---|---|---|---|
| storage controller, `storage/controller.go` | committed and reserved bytes, bypass counters, limits | `Reserve`, `Commit`, `Release`, `Remove`, `RecordBypass`, `Snapshot` | called by stores, PyPI uploads, collection, status |
| free space, `storage/free_*.go` | the filesystem | `FreeBytes` | read by stores and uploads before `Reserve` |
| cache store, `cache/store.go` (one per repository) | metadata and body files, temporary files, `s.mu`, `activeTemps`, `bytes`, `objects` | `New`/`Reconcile`, `Lookup`, `PutStreamVerified`, `GC`, `Candidates`, `RemoveCandidate`, `CleanupStaleTemps` | controller; called by proxies and collection |
| collection, `httpserver/server.go` | none of its own between runs | `collect`, `collectPressure`, `RunMaintenance`, `operatorGC` | stores, controller, coordinator |
| coordinator, `maintenance/coordinator.go` | current and last run, next id | `Run`, `Snapshot` | runs `collect` |
| keyed lock, end of each `*proxy/proxy.go` | map of reference-counted mutexes | `lock`, the returned unlock | proxies |
| npm proxy, `npmproxy/proxy.go` | statistics, keyed lock | `ServeHTTP` | store, upstream |
| OCI proxy, `ociproxy/proxy.go` | statistics, keyed lock | `ServeHTTP` with a confirming `HEAD` per hit | store, upstream |
| PyPI proxy, `pypiproxy/proxy.go` | statistics, keyed lock, private packages on disk | Simple pages, files, uploads | store, controller, upstream |
| HTTP policy, `httppolicy/policy.go` | none | which headers pass, what may be cached | proxies |
| server, `httpserver/server.go` | all of the above | start-up, status, metrics, dashboard | |
| configuration, `config/config.go`; entry point, `cmd/n0ding/main.go` | the parsed configuration | `Load`, `Validate`; start and stop | server |

### What is hard

* **Two ledgers.** A store counts its bytes in `s.bytes`; the controller counts all
  bytes in `committedBytes`. They change in different critical sections, and a
  collection reports to the controller after it has left the store's. Every order
  of commits, replacements, removals and reports must keep them in step.
* **Two files per entry.** A commit renames a body, replaces metadata, commits a
  reservation, updates counters and removes the previous body. Any of the calls may
  fail, and the process may die between any two.
* **Readings and lists that age.** Free space is read before `Reserve`; candidates are
  listed before they are removed; an OCI entry is opened before it is confirmed; an
  upstream answer is obtained long before it is stored; a page is put together file by
  file from a directory that uploads change.
* **Uploads in place.** A private package becomes visible with a link, is described by a
  second file and paid for by a third step; each may fail, and what it takes back must be
  its own.
* **One slot.** Start-up, two tickers and operators compete for one collection at a time,
  and readers copy the record of a run while it is written.
* **Waiting.** Requests for one key wait for each other on a lock that is created and
  deleted on demand, while the holder waits for an upstream.

What must hold: usage never grows past the budget and reservations are given back
exactly once (controller); a hit serves the whole result of one write, counters say
what is on disk, running downloads keep their files (store); no byte is lost or
counted twice, only listed generations go, every run ends (collection); one holder
per key, no leaked lock, no lost waiter (keyed lock); one fetch per cold key, no
older version after a newer one, private answers stay private, every request counted
once and finished (npm); bytes leave the cache only if confirmed for this client and
enter it only if they verify (OCI); acknowledged packages stay and are listed, a private
project never falls through to the upstream, and a cached file is the one the page
promised (PyPI); runs exclude each other, are recorded in order, and ticks are honoured
(coordinator).

The list of hazards, each at its line and with its properties, is in `PROJECT.json`.

## 2. Modules

```
ByteSum --- StorageController --- Headroom
                   |
                   +--- CacheStore --- Collection      (refine EntryCache)
                   |
                   +--- PrivatePyPI --- PypiProxy      (use PerKeyMutex and EntryCache)
KeyedLocker  (refines PerKeyMutex)
NpmProxy, OciProxy  (use PerKeyMutex and EntryCache)
Coordinator  (the slot that Collection runs in)
```

`X --- Y`: Y extends X. `MC*` modules give values to constants. `*_proofs` hold proofs;
those of `CacheStore` and `Collection` are together in `Collection_proofs`.

**StorageController.** One action per method, because each runs under `Controller.mu`.
A reservation is its size and whether its `sync.Once` has fired. `Reserve` is
`ReserveGranted` or `ReserveRefused`, according to `Refused`. Arithmetic follows the
code: `MaxInt` stands for `math.MaxInt64`, and `saturatingAdd`, `exceedsAvailable`
and `scaleBasisPoints` are translated as they are. `ByteSum!Total` is the sum of
sizes, defined through a cardinality so that it can be reasoned about without
induction; TLC compares it with the community module's sum.

**Headroom.** The filesystem, and writers that read its free bytes, reserve, write
byte by byte, keep or discard. The removal of a discarded file may fail, which the code
ignores (`DiscardFails`): its bytes stay on the filesystem and its reservation is given back
all the same (`GiveBackLeavingFile`). Other programs on the filesystem and metadata files
are left out: what they use cannot be held against the admission test.

**CacheStore.** Files are functions from keys: metadata is absent, malformed or parsed;
bodies are named by the suffix of the temporary file they were written to, or have the
legacy name. The content of a file is the identity of the write that produced it, so
"metadata of one write, body of another" is visible. A metadata temporary file bears the
suffix of its write's body; `os.CreateTemp` draws its own, but only its owner refers to it.
`PutStreamVerified` is a sequence of steps (admission, temporary files, stream, commit
section, deferred calls in their order), each with its failure. Sections that hold `s.mu`
and touch several files are several steps with `mu` held, so that a crash can cut them;
sections that only read or do one thing are one step, enabled when nobody holds `s.mu`.
`replace()` is steps of its own: a first rename that fails, the removal of the destination
(`RemoveDestination`), and a second rename that succeeds (`ReplaceMeta`) or fails
(`ReplaceFails`), with a crash possible in between. `Crash` is the death of the process and
the next `New`: files stay, memory is rebuilt by `Reconcile`. The constant `Faults` says
which system calls may fail in an instance. Ages are abstracted: any temporary file that is
not active may be old. The bytes of private PyPI packages, which `New` adds to the committed
bytes, are in `PrivatePyPI`.

**Collection.** `collect` and `collectPressure` as steps of one collector beside the
writers. Any set of complete entries may be past `max_age`, and candidates may be taken in
any order, so what is shown holds for the least-recently-used order too. The coordinator
appears as the rule that a run starts only when none is running, which `RunsDoNotOverlap` of
`Coordinator` shows. The start-up collection runs before `serving`; `config.go:264`
guarantees `max_age > 0`, so it always runs. `gc.pending` holds the bytes that were removed
and not reported; `gc.unreported` those of walks that failed, which `collect` never reports.

**KeyedLocker, PerKeyMutex.** Each section under `locker.mu` is one step; locking and
unlocking the item are steps of their own. A lock object is free memory again once
nothing refers to it. `PerKeyMutex` is what the proxies expect, and `KeyedLocker`
implements it with "leaving" mapped to "out".

**EntryCache** is what the proxies expect of a store: a key has the whole result of
one write or nothing. `CacheStore` and `Collection` implement it under the mapping
`Found(k)`: the write whose metadata and body lie under the key, `Torn` if they are
of two writes, which no step of `EntryCache` allows.

**NpmProxy.** A request is a key, a method, whether its headers bypass the cache, and
who sent it. The upstream numbers its versions, and answers record for whom they were
given, with which privacy becomes a state property. An entry past its `ttl` is a miss
like a collected one, and a lookup may fail on an entry that is there, in which case the
handler goes on as if there were none. `losses` counts, per key, how often a fetch was
needed again: the entry expired or was collected, a fetch that could have filled the key
did not, or the second lookup failed (`RecheckErrs`; `seen` is the entry it did not see).
Writes to the client are steps of their own (`Send`), because the key stays locked while
they last: a hit is found and then sent, package metadata is stored and then sent, and a
streamed answer is committed after it was sent.

**OciProxy.** As NpmProxy, with the `HEAD` that confirms a hit, tokens that the upstream
grants and revokes at any time, tags that move, digests that may be missing and bytes
that may be corrupt. A content is its own digest. Lookups may fail here and in PypiProxy
as well.

**PrivatePyPI.** `serveUpload` and `storeLocalPackage` as the filesystem calls they make:
stat, temporary file, link, removal of the temporary file, creation and writing of the
sidecar, commit of the reservation, each with its failure and its rollback, whose removals
may fail as well. Readers run `localPackages` beside them: the directory first, then one
file after the other. `ForeignFile` is the external writer that the comment on `os.Link`
names. `PrivateCrash` is the death of the process and the next start, at which `PrivateSize`
counts what is there. One project is modelled: projects have directories of their own.
`published` records what was answered with 201, `uncounted` the bytes that the ledger
cannot know of until the next start.

**PypiProxy** adds the requests. A page request lists the private packages and only goes on
to cache and upstream if there are none. File requests come from links of an upstream page:
the hash of a link or of the JSON object around it is carried through `rewriteJSONHref`,
the rewritten link, the query and the cache key to the verifier of the body. An entry
records by which headers the upstream chose it (`Chosen`), so that the `Vary` rule of
`httppolicy` and the composition of the key are checked against each other. The upstream
may send anything for a file. One `keyedLocker` serves uploads and cached responses; their
keys differ in the first part, so it appears as two mutexes.

**Coordinator.** The sections of `Run` and `Snapshot` under `c.mu` are steps. Between the
return of the runner and the second section, `Run` writes to the very record that
`current` points to, without the lock: a copy taken then has any mix of old and new
fields (`Copies`), and its error, a string of two words, may be half written. The tickers
are channels of capacity one that drop what they have no room for; `pressure` changes at
any time. A stopped server and a failed start are states in which nothing more has to
happen.

## 3. Runs

| Run | Instance | Shows |
|---|---|---|
| `headroom` | 2 writers, files up to 2 bytes, 4 free, budget 3, headroom 1, MaxInt 4 | reserved = outstanding, usage grows only within the budget, headroom is kept unless a grant used a reading older than a write that was committed or whose file could not be removed |
| `headroom_stale` | the same | it is lost otherwise (a finding) |
| `store` | 1 key, 2 writers, 3 suffixes, 1 crash, I/O and unlink faults | pair integrity, counters, accepted commits, temporary files, accounting of disk use, no entry lost outside the retry of `replace()` |
| `store_crash` | 1 crash, no fault | a body is left that no metadata names (a finding) |
| `collection` | 2 stores with a key each, 1 writer, 1 crash, unlink, replace and walk faults | the ledger is the stores' bytes plus what is not, or never, reported; no commit is refused; only listed generations go |
| `collection_live` | 1 key, 1 writer, I/O and temp-unlink faults, no crash and no unlink fault of a body | every collection ends; no body is left that no metadata names; `EntryCache` is implemented |
| `locker` | 3 requests, 2 keys, 3 lock objects | exclusion, exact map, refinement of `PerKeyMutex`; every waiter enters |
| `npm` | 2 requests, 2 keys, 1 user, 2 versions and 1 expiry per key; clients may stop reading | single fetch, no older version, privacy, counting; every request ends, unless its client or that of the key's holder stops reading |
| `oci` | 2 at a time, 3 in all, a tag and a blob, 1 token | confirmed hits, verified contents, single fetch, tags never go back |
| `pypi` | 2 uploads of 2 filenames, 2 readers, 4 links, 3 clients, I/O and unlink faults, 1 crash or foreign file | acknowledged packages stay and are listed, the ledger is exact, only own files are taken back, private projects shadow the upstream, hits match the page and the client |
| `pypi_crash` | 2 uploads, 1 crash, no fault | the page of a project fails for good (a finding) |
| `coordinator` | 2 operators, start-up, loop, 3 ticks and requests | one run at a time, runs recorded in order, snapshots coherent; ticks are honoured |

**Bounds.** `MaxCrashes`, `MaxRequests`, `MaxVersions`, `MaxExpiries`, `MaxEvents` and
`Budgets` bound what the environment does; everything else is finite by the constants. Two
writers of one key are enough for every race of `PutStreamVerified`: a commit section
excludes all others, so a third writer meets nothing a second does not. Three suffixes give
one generation on disk and one for each writer. In the `store` runs sizes are 1 and 2 with a
budget of 4, so that two writes together fit or not, and bodies are shorter, equal to or
longer than announced. In `oci`, `MaxRequests = 3` with two requests at a time gives a
waiter behind a fetch and one more request after them. In `npm` two requests meet each other
at one key or at two, or follow each other over an expiry; more of them at once is left to
the theorems, which hold for any number. `Budgets` is a set: each behaviour of `pypi` has
one of its members, two uploads beside a page, an upload beside two pages (both with one
crash or foreign file), or a page beside two file requests, so that the cases that meet each
other are together and the product of all of them is not explored. Two uploads suffice
because a filename is locked and different filenames share only the ledger. `MaxEvents = 3`
lets a tick meet a running collection of an operator and a second tick follow. The runs of
the npm and OCI proxies allow deadlock, because an instance stops when `MaxRequests` is used
up; all others check for it. `collection` has a budget of 3 bytes with entries of 1 and
writes of 2, so that a write fits beside one entry and not beside two, and pressure is
reached. `VIEW Observed` leaves out the bypass counters, and in `pypi` the key a handler
locked last, which nothing reads.

**Type invariants** (`HeadroomTypeOK`, `StoreTypeOK`, `CollectionTypeOK`, `LockerTypeOK`,
`NpmTypeOK`, `OciTypeOK`, and `RefsCountReferrers`) are stated for the proofs, which
prove them, and were checked on the same instances; the configurations list what says more.

**Symmetry** is used where the specification treats elements alike and the run
checks no liveness property; the `SYMMETRY` line of each configuration names the sets.

**Fairness.** A goroutine that can take a step does (weak fairness of a handler's steps
and of a writer in its commit section). `sync.Mutex` and `sync.RWMutex` hand over to a
waiter eventually, hence strong fairness for steps that wait for a lock. An upstream
request ends because every `http.Client` has a time limit, five or fifteen minutes
(`npmproxy/proxy.go:69`, `ociproxy/proxy.go:80`). A write to the client is not fair: the
server has no write timeout (`cmd/n0ding/main.go:49-54`), so a client that stops reading
keeps its handler, and the key that the handler has locked, for ever. `RequestsFinish`
therefore says that a request ends or is held up by such a client, its own or the one whose
request has the key; the `npm` run has two keys, so that it would show a key held up by another.
`KeyedLocker` by itself assumes that a holder unlocks, the usual contract of a lock. In
`Coordinator` a run ends
(that is `CollectionEnds`) and its caller goes on; Go's `select` picks one of the ready
cases at random, hence strong fairness for both tickers' cases. Operators, ticks,
snapshots and the stop are not fair: they need not happen.

## 4. Proofs

TLAPS checks the following for all values of the constants that satisfy the ASSUMEs
of the modules; in particular for any number of holders, requests, keys and sizes.

* `StorageController_proofs`: **ReservationsAccounted** and **BudgetNeverOverbooked**.
  The invariant is the type together with `reservedBytes = Total(Holders,
  Outstanding)`. The type alone is not inductive: `reservedBytes` stays non-negative
  in `Commit` and `Release` only because it contains the reservation that is given
  back, and it stays an int64 in `Reserve` because a grant bounds the sum by
  `max_bytes` or by the free bytes read. The lemmas about `Total`, which all the ledgers
  use, come first in this module and rest on the library's facts about finite
  cardinalities.
* `Headroom_proofs`: **HeadroomLedger** and **HeadroomOnFreshReadings**. The second is far
  from inductive. Its invariant says that bytes are conserved between the files in flight
  and the filesystem, that a reading that is still fresh is covered by the free bytes and
  the bytes in flight, and, unless a grant was stale, that free bytes plus bytes in flight
  cover `min_free_bytes` plus everything reserved. A file in flight never exceeds its
  reservation, so the rest stays free. A reading is outdated as soon as a reservation ends
  with its bytes still on the filesystem, whether they were committed or could not be
  removed; until then a file that could not be removed counts as in flight.
* `KeyedLocker_proofs`: **KeyedLockerExcludes**, **KeyedLockerMapExact** and
  **KeyedLockerImplementsMutex**. Exclusion is not inductive: it needs that referrers
  of a key share the object in the map, that no two keys share one, that `refs` is the
  number of referrers (so that the last one deletes) and that the holder of an object
  is the request that is in.
* `NpmProxy_proofs`: **NpmOneFetcher**, **NpmColdKeyFetchedOnce**,
  **NpmAnswersStayPrivate**, **NpmEntriesNeverGoBack** and **NpmRequestsAreCounted**, from
  the invariant `NpmInv`: the lock excludes; a key that is being filled has no entry but the
  one its second lookup failed on; every fetch is charged to an entry, to the fetch that
  goes on or to a loss; an answer that is held is no older than what is stored under its
  key; requests that use the cache are asked for no one; the requests that are not counted
  yet are those that no lookup has decided. The proxy is specified with `PerKeyMutex`, so
  that **KeyedLockerImplementsMutex** carries the results over to the real lock.
* `OciProxy_proofs`: **OciHitsAreConfirmed**, **OciCacheHoldsVerified**,
  **OciColdKeyFetchedOnce** and **OciTagsNeverGoBack** from `OciInv`. What a request has
  opened is as verified as what is stored, although the entry may be gone; a `HEAD` that
  was answered names content that the upstream really granted to this token during this
  request; and an answer that a request holds is no older than what is stored under its key,
  because the lock is held from before the fetch until after the store.
* `Coordinator_proofs`: **CoordinatorExcludes**, **CoordinatorSnapshotsCoherent** and
  **CoordinatorRecordsInOrder**. Exclusion alone says nothing of numbers: the invariant
  adds that the slot belongs to the run accepted last and not recorded yet, that no two
  callers have a run of one number, and that the last run has the error its own caller's
  runner returned, which a later runner does not disturb because its run has another number.
* `PypiProxy_proofs`: **PypiAcknowledgedStay** and **PypiTakesBackOwn** from `PackagesInv`:
  an upload that has linked its distribution and not committed finds its own content there,
  nothing acknowledged, and no second upload in the same place. The argument does not use
  the keyed lock, which is given up before the commit: `os.Link` refuses an existing
  name, and that is enough. **PypiPagesComplete** and **PypiPrivateShadows** add `ReadersInv`:
  what a request knew to be acknowledged is on its page or still to be read.
  **PypiHitsMatchPage** and **PypiHitsFitTheClient** add `HitsInv`: an entry has the content
  its key names and was chosen by nothing but what is in the key or is sent alike for every
  client. All hold for any number of crashes and with every fault.
  **PypiLedgerIsExact** adds the ledger: committed bytes are those of the files of finished
  uploads, reserved bytes cover the rest, up to `uncounted`. It is proved under
  `[]FilesFit`: the files of the directory fit an int64. Beyond that the code's
  saturating addition loses bytes and nothing could be exact.
* `Collection_proofs`, about `CacheStore` alone (`Store...`) and with the collector beside
  it (`Collection...`), in four layers.
  1. `FilesInv` and `CollectionInv`: whoever is in a critical section holds `s.mu`;
     generations in use are distinct; a file bears the content of the write its name says
     (but for the legacy name, whose body only ever disappears); what a write remembers of
     the entry it replaces is true while it holds `s.mu`. Hence
     **StoreHitsServeOneWrite**, **StoreActiveTempsSurvive** and **CollectionExclusive**,
     and, because a step changes at most one key and leaves the result of one write or
     nothing, **CollectionImplementsEntryCache**. The npm, OCI and PyPI proxies are
     specified with `EntryCache`, so their theorems hold over the real stores. No
     hypothesis is needed: any fault, any number of crashes.
  2. `AccountsInv` and `DebtInv`: a write that has replaced the metadata has not yet updated
     the counters, so in between its key is still *booked* with the entry it replaced.
     Counters cover what is booked, and the ledger is the sum of the counters plus the debt
     of the collection (`gc.pending + gc.unreported`). From it **StoreCommitNeverRefused**,
     **StoreUseIsAccounted**, **StoreEntryNeverLost**, **CollectionLedger**,
     **CollectionUseIsAccounted**, **CollectionRemovesOnlyListed** and **CollectionType**.
     These are proved under `[]BytesFit(0)` or `[]DebtFits`: the bytes of the stores and of
     the debt fit an int64, without which saturating addition loses bytes. **StoreBytesFit**
     and **CollectionBytesFit** show that with `max_bytes` set this has to be asked of the
     first start only, because `Reserve` keeps usage within the budget from then on. With
     `min_free_bytes` alone nothing in the code bounds the sum (only disks do), and the
     hypothesis stays. `EntryNeverLost` names its one exception itself: a `replace()` that
     has removed its destination and then dies, or fails once more.
  3. Counters that equal what is booked: **StoreCountersMatchDisk** and
     **CollectionCountersMatchDisk**, assuming `~Fault("replace")`. The assumption is
     needed: a `replace()` whose second rename fails as well takes an entry away and leaves
     the counters too high (section 5).
  4. **CollectionLeavesNoOrphans**, assuming no crash and no failing removal or replacement,
     from the invariant that a body no metadata names is one that a write in its critical
     section made or is about to remove. `store_crash` shows what one crash does; a removal
     that fails leaves its body by definition.

The hypotheses are met: TLC finds `DebtFits` and `DebtInv` true in every state of
`collection`, `BytesFit(0)` in every state of `store` and `FilesFit` in every state of
`pypi`; `store` has no `replace` fault, and `collection_live` has neither crashes nor
faults of `replace` and of the removal of a body.

Only model-checked: the four liveness properties `CollectionEnds`, `WaitersEnter`,
`RequestsFinish` and `TicksAreHonoured`, because fairness and ENABLED are outside the
prover. Every invariant and action property of a passing run is a theorem. That every OCI
request ends is not checked; its handler waits for the same lock, the same kind of
upstream calls and its client as the npm handler does. That `ByteSum!Total` is the sum that a fold over the set
would compute needs induction over sets, which the installed provers do not do; TLC
compares the two, and the proofs use only what `Total` is defined to be.

## 5. Findings

* `headroom_stale`: free space is read before `Reserve` and outside its lock. A commit
  in between makes the reading stale, and `min_free_bytes` is not kept, although
  `docs/configuration.md:111-114` says that parallel downloads cannot overbook the
  same bytes.
* `store_crash`: a kill between the two renames of a commit leaves a body that is not a
  temporary file, has no metadata, and is never removed; `docs/retention-soak.md:92-93`
  expects no orphan file.
* `pypi_crash`: the sidecar of an upload is written in place. A kill between its creation
  and its writing leaves one that does not parse, and `localPackages` then fails for the
  whole project, acknowledged packages included; a repeated upload is refused as a
  duplicate, so it stays that way. `docs/pypi-design.md:43-54` calls uploads persistent
  and exposed through project pages.

Three more observations that no run states as a violation. When its first rename fails,
`replace()` removes the metadata it wants to replace and renames again (`store.go:625-636`):
a process that dies in between has lost a complete entry (`EntryNeverLost` has this
exception), although `docs/configuration.md:94-95` says that a refetched entry "atomically
replaces the same cache key". If the second rename fails too, the entry is lost without a
crash, and the counters and the ledger, which `LedgerMatchesStores` shows to agree, keep
counting it until the next start. A walk that fails halfway leaves what it removed in the
ledger until then (`gc.unreported`). And what the operator API shows of the *current* run
while it ends may be torn, its error text included, because `Run` writes it without `c.mu`
(`coordinator.go:71-76`); `SnapshotsAreCoherent` shows that the last run, its identity and
the order are not affected.

## 6. Not modelled

The syntax of npm, Simple HTML and JSON documents (the links of a page and their hashes
are modelled, the text around them is not); header filtering, redirects and the directives
of `httppolicy` other than `Vary`, which are a choice of the environment; `serveLocalFile`,
which reads one file of a private project; the statistics of the OCI and PyPI proxies; the
order and the ages of collection candidates; the configuration parser, whose limits are the
ASSUMEs of `StorageController`; status, metrics and dashboard pages; authentication of
operators and uploads; installers and scripts. Several PyPI projects beside each other: they
share the ledger only, as two filenames do.

Read errors of files that are intact, inside the store: `PutStreamVerified` takes a previous
entry that it cannot read for none (`store.go:354-357`), and `Reconcile` skips one. Either
would make the counters differ from what is on disk, so `CountersMatchDisk` is about disks
that can be read. The proxies' models do have lookups that fail. A private PyPI file that
cannot be read ends the request with a 500.

`CleanupStaleTemps` has one caller, start-up (`server.go:102-103`), before there are
downloads. `CacheStore` lets it run at any time: `ActiveTempsSurvive` is the contract of the
method, which `activeTemps` is there to keep, and not a race that the server has today.

## 7. Plan

1. *Retention*: ages, access times and least-recently-used order, and what pressure does
   to age collection (`server.go:309`, `339`): does a collection under pressure always bring
   usage to the low watermark, and do old entries always go?
2. *HttpPolicy*: the admission of requests and responses as operators, checked against a
   reference over all small header sets.
3. Proofs: the safety part of the waiting arguments, i.e. that the order in which locks
   are taken has no cycle (a collector or a write that waits for `s.mu` holds nothing that
   its holder needs), and the refinement of `EntryCache` by `CacheStore` alone.
