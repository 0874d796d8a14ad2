----------------------------- MODULE CacheStore -----------------------------
(***************************************************************************)
(* The cache stores of the repositories (internal/cache/store.go) over one  *)
(* storage controller: the directory on disk, the in-memory usage counters, *)
(* and PutStreamVerified as a sequence of steps that other writers, a       *)
(* failing filesystem call or the death of the process may come between.    *)
(*                                                                         *)
(* An entry is a metadata file <hash>.json that names a body file, either   *)
(* <hash>.body (entries of older releases) or <hash>.body.<suffix>, a       *)
(* generation whose suffix is that of the temporary file it was written to. *)
(* What a file says is abstracted to an identity: the content of a body and *)
(* of a metadata file is the write that produced it.                        *)
(*                                                                         *)
(* s.mu is an RWMutex.  A section that holds it exclusively and that a      *)
(* crash may cut in two is several steps; one that only reads (Lookup,      *)
(* Candidates, Reconcile) or that does one thing is a single step, possible *)
(* when no one holds s.mu.  Ages and access times are not kept here: which  *)
(* entries a collection selects is any set of complete ones.                *)
(***************************************************************************)
EXTENDS StorageController

CONSTANTS
  Stores,       \* the repositories' stores
  Keys,         \* cache keys, each standing for its shard path
  StoreOf,      \* the store a key belongs to
  Gens,         \* suffixes os.CreateTemp may draw
  Legacy,       \* the body path without a suffix
  NoPath,       \* no path
  NoKey,        \* no key
  NoOne,        \* s.mu is free
  Collector,    \* the goroutine that collects garbage
  Faults,       \* which system calls may fail: see Fault
  MaxCrashes,   \* bound on the number of crashes
  StartSizes    \* sizes of the bodies found at the first start

ASSUME StoresAssumption ==
  IsFiniteSet(Stores) /\ IsFiniteSet(Keys) /\ StoreOf \in [Keys -> Stores]
ASSUME NamesAssumption ==
  /\ Legacy \notin Gens /\ NoPath \notin Gens \cup {Legacy}
  /\ NoKey \notin Keys
  /\ NoOne \notin Holders \cup {Collector} /\ Collector \notin Holders
ASSUME StartAssumption == StartSizes \subseteq 0..MaxInt
ASSUME FaultsAssumption == Faults \subseteq {"io", "unlink", "unlinkTemp", "replace", "walk"}

VARIABLES
  meta,         \* disk: the metadata file of each key
  body,         \* disk: the body files of each key
  bodyTemps,    \* disk: the .body-* temporary files of each key's directory
  metaTemps,    \* disk: the .metadata-* temporary files
  mu,           \* who holds s.mu exclusively
  activeTemps,  \* s.activeTemps: the temporary files of running writes
  bytes,        \* s.bytes
  objects,      \* s.objects
  writer,       \* the local state of each PutStreamVerified call
  crashes       \* how often the process died

disk == <<meta, body, bodyTemps, metaTemps>>
counters == <<bytes, objects>>
storeVars == <<controllerVars, meta, body, bodyTemps, metaTemps, mu, activeTemps,
               bytes, objects, writer, crashes>>

(* io: creating, writing or renaming a file, the first rename of replace()  *)
(* included; replace: its second one too, after it removed the destination; *)
(* unlink: removing a body or a metadata file; unlinkTemp: removing a       *)
(* temporary file; walk: reading a directory.  A file that is there and     *)
(* whole can always be read.                                                *)
Fault(kind) == kind \in Faults

KeysOf(s) == {k \in Keys : StoreOf[k] = s}
Paths == Gens \cup {Legacy}

-----------------------------------------------------------------------------
(* Files.                                                                   *)

NoBody == [size |-> 0, content |-> NoPath]
Exists(k, p) == body[k][p] # NoBody

AbsentMeta == [state |-> "absent", path |-> NoPath, size |-> 0, content |-> NoPath]
MalformedMeta == [AbsentMeta EXCEPT !.state = "malformed"]
ParsedMeta(p, n, c) == [state |-> "parsed", path |-> p, size |-> n, content |-> c]

(* readMetadata and bodyPathForEntry succeed: the metadata parses and names *)
(* a body file of its own key.                                              *)
Parses(k) == meta[k].state = "parsed"

(* The entry is complete: the named body exists and has the recorded size.  *)
Complete(k) ==
  /\ Parses(k)
  /\ Exists(k, meta[k].path)
  /\ body[k][meta[k].path].size = meta[k].size

CompleteIn(s) == {k \in KeysOf(s) : Complete(k)}

(* The bytes of the complete entry of each key, as Reconcile adds them up.  *)
EntryBytes == [k \in Keys |-> IF Complete(k) THEN meta[k].size ELSE 0]

(* What Reconcile finds in store s.                                         *)
ReconciledBytes(s) == Total(KeysOf(s), EntryBytes)
ReconciledObjects(s) == Cardinality(CompleteIn(s))

(* What Lookup answers for a fresh entry, under s.mu.RLock.                 *)
LookupOutcome(k) ==
  CASE meta[k].state = "absent"       -> "miss"
    [] meta[k].state = "malformed"    -> "error"
    [] Parses(k) /\ ~Exists(k, meta[k].path) -> "miss"
    [] Complete(k)                    -> "hit"
    [] OTHER                          -> "error"

-----------------------------------------------------------------------------
(* A write.                                                                 *)

IdleWriter == [pc |-> "idle", key |-> NoKey, gen |-> NoPath, length |-> 0, written |-> 0,
               prevPath |-> NoPath, prevBytes |-> 0, prevValid |-> FALSE]

At(w, pc) == writer[w].pc = pc
Goto(w, pc) == writer' = [writer EXCEPT ![w].pc = pc]
StoreUsed(w) == StoreOf[writer[w].key]
Free(s) == mu[s] = NoOne

BeginWrite(w, k, length) ==
  writer' = [writer EXCEPT ![w] = [IdleWriter EXCEPT !.pc = "create", !.key = k, !.length = length]]

(* A response of known length is granted a reservation.  Without limits     *)
(* there is no controller and nothing to ask.                               *)
PutAdmitted(w, k, length, free) ==
  /\ At(w, "idle")
  /\ length > 0
  /\ IF HasController THEN ReserveGranted(w, length, free) ELSE UNCHANGED controllerVars
  /\ BeginWrite(w, k, length)
  /\ UNCHANGED <<disk, mu, activeTemps, counters, crashes>>

(* The reservation is refused: the response is streamed to the client only. *)
PutRefused(w, length, free) ==
  /\ At(w, "idle")
  /\ length > 0
  /\ ReserveRefused(w, length, free)
  /\ UNCHANGED <<disk, mu, activeTemps, counters, writer, crashes>>

(* The length is not known and there is a controller.                       *)
PutUnknownLength(w) ==
  /\ At(w, "idle")
  /\ HasController
  /\ RecordBypass(0)
  /\ UNCHANGED <<disk, mu, activeTemps, counters, writer, crashes>>

(* A suffix no file of the key and no running write uses (O_EXCL, random).  *)
FreshGens(k) ==
  {g \in Gens : /\ ~Exists(k, g) /\ meta[k].path # g
                /\ g \notin bodyTemps[k] \cup metaTemps[k]
                /\ \A w \in Holders : writer[w].gen # g}

(* Mutant: the temporary file is registered after s.mu is released.         *)
RegisterLate(k, kind, g) == UNCHANGED activeTemps

Register(k, kind, g) == activeTemps' = [activeTemps EXCEPT ![k] = @ \cup {<<kind, g>>}]

CreateBodyTemp(w, g) ==
  LET k == writer[w].key IN
  /\ At(w, "create") /\ Free(StoreUsed(w))
  /\ g \in FreshGens(k)
  /\ bodyTemps' = [bodyTemps EXCEPT ![k] = @ \cup {g}]
  /\ Register(k, "body", g)
  /\ writer' = [writer EXCEPT ![w].pc = "stream", ![w].gen = g]
  /\ UNCHANGED <<controllerVars, meta, body, metaTemps, mu, counters, crashes>>

CreateBodyTempFails(w) ==
  /\ Fault("io")
  /\ At(w, "create") /\ Free(StoreUsed(w))
  /\ Goto(w, "release")
  /\ UNCHANGED <<controllerVars, disk, mu, activeTemps, counters, crashes>>

(* Mutant: the cached copy is not bounded by the reservation.               *)
NeverOverflows(w, n) == FALSE

(* boundedCacheWriter stops caching, not streaming, past the limit.         *)
Overflows(w, n) == HasController /\ n > writer[w].length

StreamBody(w, n) ==
  /\ At(w, "stream")
  /\ ~Overflows(w, n)
  /\ writer' = [writer EXCEPT ![w].pc = "describe", ![w].written = n]
  /\ UNCHANGED <<controllerVars, disk, mu, activeTemps, counters, crashes>>

(* What of a stream that overflows or is cut off has reached the file.      *)
Partial(w) == {m \in {0} \cup Sizes : ~Overflows(w, m)}

StreamOverflows(w, n, m) ==
  /\ At(w, "stream")
  /\ Overflows(w, n) /\ m \in Partial(w)
  /\ RecordBypass(n)
  /\ writer' = [writer EXCEPT ![w].pc = "dropBody", ![w].written = m]
  /\ UNCHANGED <<disk, mu, activeTemps, counters, crashes>>

(* The upstream or the client goes away, the file cannot be written, or     *)
(* verify rejects what was received.                                        *)
StreamFails(w, m) ==
  /\ At(w, "stream")
  /\ m \in Partial(w)
  /\ writer' = [writer EXCEPT ![w].pc = "dropBody", ![w].written = m]
  /\ UNCHANGED <<controllerVars, disk, mu, activeTemps, counters, crashes>>

CreateMetaTemp(w) ==
  LET k == writer[w].key IN
  /\ At(w, "describe") /\ Free(StoreUsed(w))
  /\ metaTemps' = [metaTemps EXCEPT ![k] = @ \cup {writer[w].gen}]
  /\ Register(k, "metadata", writer[w].gen)
  /\ Goto(w, "lock")
  /\ UNCHANGED <<controllerVars, meta, body, bodyTemps, mu, counters, crashes>>

CreateMetaTempFails(w) ==
  /\ Fault("io")
  /\ At(w, "describe") /\ Free(StoreUsed(w))
  /\ Goto(w, "dropBody")
  /\ UNCHANGED <<controllerVars, disk, mu, activeTemps, counters, crashes>>

WriteMetaTempFails(w) ==
  /\ Fault("io")
  /\ At(w, "lock")
  /\ Goto(w, "dropMeta")
  /\ UNCHANGED <<controllerVars, disk, mu, activeTemps, counters, crashes>>

(* Mutant: the size the metadata records is taken for the previous body's.  *)
TrustMetadata(k) == meta[k].size

PreviousBytes(k) == EntryBytes[k]

(* The commit section: s.mu is taken and the previous entry read.           *)
LockCommit(w) ==
  LET k == writer[w].key IN
  /\ At(w, "lock") /\ Free(StoreUsed(w))
  /\ mu' = [mu EXCEPT ![StoreUsed(w)] = w]
  /\ writer' = [writer EXCEPT ![w].pc = "rename",
                              ![w].prevPath = meta[k].path,
                              ![w].prevBytes = PreviousBytes(k),
                              ![w].prevValid = Complete(k)]
  /\ UNCHANGED <<controllerVars, disk, activeTemps, counters, crashes>>

(* Mutant: every write of a key uses the same body file.                    *)
FixedPath(g) == Legacy

generationPath(g) == g

RenameBody(w) ==
  LET k == writer[w].key
      g == writer[w].gen IN
  /\ At(w, "rename")
  /\ bodyTemps' = [bodyTemps EXCEPT ![k] = @ \ {g}]
  /\ body' = [body EXCEPT ![k][generationPath(g)] = [size |-> writer[w].written, content |-> g]]
  /\ Goto(w, "replace")
  /\ UNCHANGED <<controllerVars, meta, metaTemps, mu, activeTemps, counters, crashes>>

(* Mutant: the commit section is left without Unlock.                       *)
LeaveCommitLocked(w) == UNCHANGED mu /\ Goto(w, "dropMeta")

(* The deferred Unlock of the commit section, and the next deferred call.   *)
LeaveCommit(w) ==
  /\ mu' = [mu EXCEPT ![StoreUsed(w)] = NoOne]
  /\ Goto(w, "dropMeta")

RenameBodyFails(w) ==
  /\ Fault("io")
  /\ At(w, "rename")
  /\ LeaveCommit(w)
  /\ UNCHANGED <<controllerVars, disk, activeTemps, counters, crashes>>

(* os.Remove of a body file whose error is ignored: it may fail.            *)
Unlink(k, p) ==
  \/ body' = [body EXCEPT ![k][p] = NoBody]
  \/ Fault("unlink") /\ Exists(k, p) /\ UNCHANGED body

(* Chtimes or replace() fails and the generation is removed again: the      *)
(* metadata is as it was, or its removal was for nothing.                   *)
ReplaceFails(w) ==
  /\ \/ At(w, "replace") /\ Fault("io")
     \/ At(w, "retry") /\ Fault("replace")
  /\ Unlink(writer[w].key, generationPath(writer[w].gen))
  /\ LeaveCommit(w)
  /\ UNCHANGED <<controllerVars, meta, bodyTemps, metaTemps, activeTemps, counters, crashes>>

(* The first rename of replace() fails and its destination is there: it is  *)
(* removed before the second rename.                                        *)
RemoveDestination(w) ==
  LET k == writer[w].key IN
  /\ Fault("io") \/ Fault("replace")
  /\ At(w, "replace")
  /\ meta[k].state # "absent"
  /\ meta' = [meta EXCEPT ![k] = AbsentMeta]
  /\ Goto(w, "retry")
  /\ UNCHANGED <<controllerVars, body, bodyTemps, metaTemps, mu, activeTemps, counters, crashes>>

(* A rename of replace() succeeds.                                          *)
ReplaceMeta(w) ==
  LET k == writer[w].key
      g == writer[w].gen IN
  /\ At(w, "replace") \/ At(w, "retry")
  /\ meta' = [meta EXCEPT ![k] = ParsedMeta(generationPath(g), writer[w].written, g)]
  /\ metaTemps' = [metaTemps EXCEPT ![k] = @ \ {g}]
  /\ Goto(w, "commit")
  /\ UNCHANGED <<controllerVars, body, bodyTemps, mu, activeTemps, counters, crashes>>

(* Mutant: s.bytes grows by the new size although an entry was replaced.    *)
AddWithoutReplaced(w) == bytes[StoreUsed(w)] + writer[w].written

BytesAfterPut(w) == bytes[StoreUsed(w)] + writer[w].written - writer[w].prevBytes

(* Mutant: the previous generation is left behind.                          *)
KeepPrevious(w) == UNCHANGED body

RemovePrevious(w) ==
  IF writer[w].prevPath \notin {NoPath, generationPath(writer[w].gen)}
  THEN Unlink(writer[w].key, writer[w].prevPath)
  ELSE UNCHANGED body

(* reservation.Commit, then the counters and the previous body file; or,    *)
(* if the commit is refused, only the new generation goes.                  *)
FinishPut(w) ==
  LET s == StoreUsed(w) IN
  /\ At(w, "commit")
  /\ IF HasController THEN Commit(w, writer[w].written, writer[w].prevBytes)
                      ELSE UNCHANGED controllerVars
  /\ IF HasController /\ ~CommitAccepted(w, writer[w].written, writer[w].prevBytes)
     THEN /\ Unlink(writer[w].key, generationPath(writer[w].gen))
          /\ UNCHANGED counters
     ELSE /\ bytes' = [bytes EXCEPT ![s] = BytesAfterPut(w)]
          /\ objects' = [objects EXCEPT ![s] = IF writer[w].prevValid THEN @ ELSE @ + 1]
          /\ RemovePrevious(w)
  /\ LeaveCommit(w)
  /\ UNCHANGED <<meta, bodyTemps, metaTemps, activeTemps, crashes>>

(* The deferred calls, last registered first.  A temporary file is removed  *)
(* (if the rename did not consume it) before it leaves activeTemps, which   *)
(* takes s.mu; the removal is moved to that step.                           *)
DropMetaTemp(w) ==
  LET k == writer[w].key IN
  /\ At(w, "dropMeta") /\ Free(StoreUsed(w))
  /\ \/ metaTemps' = [metaTemps EXCEPT ![k] = @ \ {writer[w].gen}]
     \/ Fault("unlinkTemp") /\ UNCHANGED metaTemps
  /\ activeTemps' = [activeTemps EXCEPT ![k] = @ \ {<<"metadata", writer[w].gen>>}]
  /\ Goto(w, "dropBody")
  /\ UNCHANGED <<controllerVars, meta, body, bodyTemps, mu, counters, crashes>>

DropBodyTemp(w) ==
  LET k == writer[w].key IN
  /\ At(w, "dropBody") /\ Free(StoreUsed(w))
  /\ \/ bodyTemps' = [bodyTemps EXCEPT ![k] = @ \ {writer[w].gen}]
     \/ Fault("unlinkTemp") /\ UNCHANGED bodyTemps
  /\ activeTemps' = [activeTemps EXCEPT ![k] = @ \ {<<"body", writer[w].gen>>}]
  /\ Goto(w, "release")
  /\ UNCHANGED <<controllerVars, meta, body, metaTemps, mu, counters, crashes>>

ReleasePut(w) ==
  /\ At(w, "release")
  /\ IF HasController THEN Release(w) ELSE UNCHANGED controllerVars
  /\ writer' = [writer EXCEPT ![w] = IdleWriter]
  /\ UNCHANGED <<disk, mu, activeTemps, counters, crashes>>

Put(w) ==
  \/ \E k \in Keys, length \in Sizes, free \in FreeReadings : PutAdmitted(w, k, length, free)
  \/ \E length \in Sizes, free \in FreeReadings : PutRefused(w, length, free)
  \/ PutUnknownLength(w)

PutStep(w) ==
  \/ \E g \in Gens : CreateBodyTemp(w, g)
  \/ CreateBodyTempFails(w)
  \/ \E n \in Sizes : StreamBody(w, n) \/ \E m \in Partial(w) : StreamOverflows(w, n, m)
  \/ \E m \in Partial(w) : StreamFails(w, m)
  \/ CreateMetaTemp(w) \/ CreateMetaTempFails(w) \/ WriteMetaTempFails(w)
  \/ LockCommit(w)
  \/ RenameBody(w) \/ RenameBodyFails(w)
  \/ ReplaceMeta(w) \/ RemoveDestination(w) \/ ReplaceFails(w)
  \/ FinishPut(w)
  \/ DropMetaTemp(w) \/ DropBodyTemp(w) \/ ReleasePut(w)

-----------------------------------------------------------------------------
(* Startup and repair.                                                      *)

TempFiles(k) == ({"body"} \X bodyTemps[k]) \cup ({"metadata"} \X metaTemps[k])

RemoveTemps(old) ==
  /\ bodyTemps' = [k \in Keys |-> {g \in bodyTemps[k] : <<k, <<"body", g>>>> \notin old}]
  /\ metaTemps' = [k \in Keys |-> {g \in metaTemps[k] : <<k, <<"metadata", g>>>> \notin old}]

InactiveTemps(s) == UNION {{k} \X (TempFiles(k) \ activeTemps[k]) : k \in KeysOf(s)}

(* CleanupStaleTemps removes the old ones of the temporary files that no    *)
(* running write owns.  The server calls it at startup only; the method     *)
(* itself is safe at any time.                                              *)
CleanupStaleTemps(s) ==
  /\ Free(s)
  /\ \E old \in SUBSET InactiveTemps(s) : RemoveTemps(old)
  /\ UNCHANGED <<controllerVars, meta, body, mu, activeTemps, counters, writer, crashes>>

(* The memory of a server that New built from the disk it found: the        *)
(* counters come from Reconcile and the committed bytes from their sum.     *)
FreshCounters ==
  /\ bytes' = [s \in Stores |-> ReconciledBytes(s)]
  /\ objects' = [s \in Stores |-> ReconciledObjects(s)]
FreshController ==
  /\ committedBytes' = IF HasController THEN Min(Total(Keys, EntryBytes), MaxInt) ELSE 0
  /\ reservedBytes' = 0
  /\ reservation' = [h \in Holders |-> SpentReservation]
  /\ bypassObjects' = 0
  /\ bypassBytes' = 0
FreshProcess ==
  /\ mu' = [s \in Stores |-> NoOne]
  /\ activeTemps' = [k \in Keys |-> {}]
  /\ writer' = [w \in Holders |-> IdleWriter]

(* The process dies and is started again; files stay as they are, except    *)
(* for the temporary ones that have become stale.                           *)
Crash ==
  /\ crashes < MaxCrashes
  /\ crashes' = crashes + 1
  /\ FreshCounters /\ FreshController /\ FreshProcess
  /\ \E old \in SUBSET UNION {{k} \X TempFiles(k) : k \in Keys} : RemoveTemps(old)
  /\ UNCHANGED <<meta, body>>

(* What may lie under a key when the server starts: nothing, unreadable     *)
(* metadata, or an entry of an older release that is complete, has lost its *)
(* body or has one of the wrong size.                                       *)
FilesAtStart ==
  {<<AbsentMeta, NoBody>>, <<MalformedMeta, NoBody>>}
    \cup {<<ParsedMeta(Legacy, n, Legacy), b>> :
             n \in StartSizes, b \in {NoBody} \cup [size : StartSizes, content : {Legacy}]}

StoreInit ==
  /\ \E files \in [Keys -> FilesAtStart] :
       /\ meta = [k \in Keys |-> files[k][1]]
       /\ body = [k \in Keys |-> [p \in Paths |-> IF p = Legacy THEN files[k][2] ELSE NoBody]]
  /\ bodyTemps = [k \in Keys |-> {}]
  /\ metaTemps = [k \in Keys |-> {}]
  /\ mu = [s \in Stores |-> NoOne]
  /\ activeTemps = [k \in Keys |-> {}]
  /\ bytes = [s \in Stores |-> ReconciledBytes(s)]
  /\ objects = [s \in Stores |-> ReconciledObjects(s)]
  /\ writer = [w \in Holders |-> IdleWriter]
  /\ crashes = 0
  /\ committedBytes = IF HasController THEN Min(Total(Keys, EntryBytes), MaxInt) ELSE 0
  /\ reservedBytes = 0
  /\ reservation = [h \in Holders |-> SpentReservation]
  /\ bypassObjects = 0
  /\ bypassBytes = 0

StoreNext ==
  \/ \E w \in Holders : Put(w) \/ PutStep(w)
  \/ \E s \in Stores : CleanupStaleTemps(s)
  \/ Crash

StoreSpec == StoreInit /\ [][StoreNext]_storeVars

-----------------------------------------------------------------------------
(* Properties.                                                              *)

WriterPCs == {"idle", "create", "stream", "describe", "lock", "rename", "replace", "retry",
              "commit", "dropMeta", "dropBody", "release"}
CommitPCs == {"rename", "replace", "retry", "commit"}

Metas == [state : {"absent", "malformed", "parsed"}, path : Paths \cup {NoPath}, size : Nat,
          content : Paths \cup {NoPath}]
Bodies == [size : Nat, content : Paths \cup {NoPath}]
Writers == [pc : WriterPCs, key : Keys \cup {NoKey}, gen : Gens \cup {NoPath}, length : 0..MaxInt,
            written : 0..MaxInt, prevPath : Paths \cup {NoPath}, prevBytes : Nat, prevValid : BOOLEAN]

DiskTypeOK ==
  /\ meta \in [Keys -> Metas]
  /\ \A k \in Keys : meta[k].path = NoPath <=> ~Parses(k)
  /\ body \in [Keys -> [Paths -> Bodies]]
  /\ bodyTemps \in [Keys -> SUBSET Gens] /\ metaTemps \in [Keys -> SUBSET Gens]

(* s.mu is held by exactly the writer that is in its commit section.        *)
WritersTypeOK ==
  /\ writer \in [Holders -> Writers]
  /\ activeTemps \in [Keys -> SUBSET ({"body", "metadata"} \X Gens)]
  /\ mu \in [Stores -> Holders \cup {Collector, NoOne}]
  /\ \A w \in Holders :
       /\ At(w, "idle") <=> writer[w].key = NoKey
       /\ writer[w].pc \in CommitPCs => mu[StoreUsed(w)] = w
  /\ \A s \in Stores : mu[s] \in Holders => writer[mu[s]].pc \in CommitPCs /\ StoreUsed(mu[s]) = s

(* The variables have their types, and writers hold s.mu in their commit    *)
(* section only (store.go:349-350).                                         *)
StoreTypeOK ==
  /\ ControllerTypeOK /\ DiskTypeOK /\ WritersTypeOK
  /\ bytes \in [Stores -> Nat] /\ objects \in [Stores -> Nat]
  /\ crashes \in Nat

(* A lookup that hits returns the body of the very write its metadata came  *)
(* from, whatever crashed, failed or ran between the two renames            *)
(* (store.go:98-140, 363-378).                                              *)
HitsServeOneWrite ==
  \A k \in Keys : Free(StoreOf[k]) /\ LookupOutcome(k) = "hit"
                    => body[k][meta[k].path].content = meta[k].content

(* While s.mu is free, the O(1) usage counters are what Reconcile would     *)
(* count on disk: "counts only complete, parseable, size-matched bodies"    *)
(* (store.go:383-386; docs/retention-policy.md).                            *)
CountersMatchDisk ==
  \A s \in Stores : Free(s) => /\ bytes[s] = ReconciledBytes(s)
                                /\ objects[s] = ReconciledObjects(s)

(* The refusal of reservation.Commit after the metadata was replaced        *)
(* (store.go:379-382) cannot happen: a refusal there would leave metadata   *)
(* without a body and lose the entry it replaced.                           *)
CommitNeverRefused ==
  \A w \in Holders : At(w, "commit") /\ HasController
                        => CommitAccepted(w, writer[w].written, writer[w].prevBytes)

(* replace() has removed the metadata of k and is about to rename again.    *)
Retrying(k) == \E w \in Holders : At(w, "retry") /\ writer[w].key = k

(* There is a complete entry, or the rename that brings one is next.        *)
Kept(k) == Complete(k) \/ Retrying(k)

(* A write that succeeds, fails or dies never takes a complete entry away,  *)
(* but for one whose replace() had to remove its destination and then died  *)
(* or failed again (store.go:363-390, 625-636).                             *)
EntryNeverLost ==
  [][\A k \in Keys :
       Kept(k) => Kept(k)' \/ (Retrying(k) /\ (crashes' # crashes \/ Fault("replace")))]_storeVars

(* No body file is left that its metadata does not name, once the section   *)
(* that put it there is over (store.go:370-390; docs/retention-soak.md).    *)
NoOrphanBodies ==
  \A k \in Keys : Free(StoreOf[k]) => \A p \in Paths : Exists(k, p) => meta[k].path = p

(* The temporary files of a running write stay until the write has renamed  *)
(* or removed them, whenever a cleanup runs (store.go:260-265, 488-491).    *)
ActiveTempsSurvive ==
  \A w \in Holders :
    /\ writer[w].pc \in {"stream", "describe", "lock", "rename"}
          => writer[w].gen \in bodyTemps[writer[w].key]
    /\ writer[w].pc \in {"lock", "rename", "replace", "retry"}
          => writer[w].gen \in metaTemps[writer[w].key]

(* The stores implement EntryCache: what Lookup would find under a key      *)
(* changes from one whole write to another or to nothing, one key at a      *)
(* time, and never to a body of one write under the metadata of another     *)
(* (store.go:98-140, 185-217, 349-390, 549-557).                            *)
Torn == "torn"
Found(k) ==
  IF ~Complete(k) THEN NoPath
  ELSE IF body[k][meta[k].path].content = meta[k].content THEN meta[k].content ELSE Torn
Abstract == INSTANCE EntryCache WITH
              Writes <- Paths, NoEntry <- NoPath, entry <- [k \in Keys |-> Found(k)]
ImplementsEntryCache == Abstract!CacheSpec

(* The bytes a running write has on disk outside any complete entry.        *)
InFlight ==
  [w \in Holders |-> IF \/ writer[w].pc \in {"replace", "retry"}
                        \/ writer[w].pc \notin {"idle", "create", "release"}
                             /\ writer[w].gen \in bodyTemps[writer[w].key]
                     THEN writer[w].written ELSE 0]

(* Complete entries and writes in flight together never use more than the   *)
(* ledger of the controller has committed and reserved: the reservation     *)
(* outlives the temporary file, and a commit is counted before the section  *)
(* ends (store.go:246-251, 272-282, 379-383).                               *)
DiskUseIsAccounted ==
  HasController =>
    Total(Keys, EntryBytes) + Total(Holders, InFlight) <= committedBytes + reservedBytes
=============================================================================
