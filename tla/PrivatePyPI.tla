---------------------------- MODULE PrivatePyPI ----------------------------
(***************************************************************************)
(* The private packages of a PyPI repository (internal/pypiproxy/proxy.go): *)
(* serveUpload and storeLocalPackage as a sequence of filesystem calls that *)
(* readers, other uploads and the death of the process may come between,    *)
(* and localPackages, which builds the page of a project from the           *)
(* directory.                                                               *)
(*                                                                         *)
(* One project.  A distribution is its content, which also stands for its   *)
(* hash; a sidecar (<filename>.json) is the hash it records.  Uploads       *)
(* reserve from the storage controller; the cached responses that share it  *)
(* are in Collection.  The keyed lock is PerKeyMutex: the keys of uploads   *)
(* ("private", project, filename) are never those of cached responses.      *)
(***************************************************************************)
EXTENDS StorageController

CONSTANTS
  Readers,      \* the requests for the project's page
  Files,        \* distribution filenames
  Contents,     \* what is uploaded
  SizeOf,       \* its size
  NoFile,       \* there is no such file
  Torn,         \* a sidecar that does not parse
  Faults,       \* "io": file operations fail; "unlink": removals do
  Budgets       \* bounds on what happens, one of which holds for a behaviour

ASSUME PackagesAssumption ==
  /\ HasController
  /\ IsFiniteSet(Files)
  /\ SizeOf \in [Contents -> Nat]
  /\ {NoFile, Torn} \cap Contents = {} /\ NoFile # Torn
ASSUME PackageBounds ==
  /\ Faults \subseteq {"io", "unlink"}
  /\ Budgets \subseteq [uploads : Nat, pages : Nat, files : Nat, mishaps : Nat]

VARIABLES
  dist,        \* disk: the distribution under each filename
  sidecar,     \* disk: its metadata
  leftover,    \* disk: bytes of .upload-* files that no upload will remove
  upload,      \* the local state of each upload
  phase,       \* its part of the keyed lock
  wants,       \* the filename it locks
  reader,      \* the local state of each request for the page
  published,   \* aux: what was acknowledged under each filename
  uncounted,   \* aux: bytes that came or stayed unknown to the ledger since the start
  left         \* bounds the uploads that are admitted, the requests for the page and
               \* for upstream files, and the crashes and foreign files

INSTANCE PerKeyMutex WITH Procs <- Holders, Keys <- Files

files == <<dist, sidecar, leftover>>
lock == <<phase, wants>>
aux == <<published, uncounted, left>>
privateVars == <<controllerVars, dist, sidecar, leftover, upload, phase, wants, reader,
                 published, uncounted, left>>

Fault(kind) == kind \in Faults
At(h, pc) == upload[h].pc = pc
Goto(h, pc) == upload' = [upload EXCEPT ![h].pc = pc]
File(h) == upload[h].file
Content(h) == upload[h].content
Size(h) == SizeOf[Content(h)]
Spend(what) == left[what] > 0 /\ left' = [left EXCEPT ![what] = @ - 1]

IdleUpload == [pc |-> "idle", file |-> NoFile, content |-> NoFile]

(* known (aux): what was acknowledged when the directory was read.          *)
IdleReader == [pc |-> "idle", todo |-> {}, file |-> NoFile, page |-> {}, known |-> {}]
Acknowledged == {<<f, published[f]>> : f \in {g \in Files : published[g] # NoFile}}

-----------------------------------------------------------------------------
(* serveUpload: the reservation and the form.                               *)

(* The request is a multipart form around the file: its length is larger.   *)
UploadAdmitted(h, f, c, length, free) ==
  /\ At(h, "idle")
  /\ length > SizeOf[c]
  /\ ReserveGranted(h, length, free)
  /\ upload' = [upload EXCEPT ![h] = [pc |-> "form", file |-> f, content |-> c]]
  /\ Spend("uploads")
  /\ UNCHANGED <<files, lock, reader, published, uncounted>>

(* 507; a length of -1, of a chunked request, is always refused.            *)
UploadRefused(h, length, free) ==
  /\ At(h, "idle")
  /\ ReserveRefused(h, length, free)
  /\ UNCHANGED <<files, upload, lock, reader, aux>>

(* The handler returns: the deferred Release.                               *)
Return(h) ==
  /\ Release(h)
  /\ upload' = [upload EXCEPT ![h] = IdleUpload]

(* The body ends early, or name or filename are missing or unsafe.          *)
BadForm(h) ==
  /\ At(h, "form")
  /\ Return(h)
  /\ UNCHANGED <<files, lock, reader, aux>>

LockFile(h) ==
  /\ At(h, "form")
  /\ Ask(h, File(h))
  /\ Goto(h, "waiting")
  /\ UNCHANGED <<controllerVars, files, reader, aux>>

EnterFile(h) ==
  /\ At(h, "waiting")
  /\ Enter(h)
  /\ Goto(h, "stat")
  /\ UNCHANGED <<controllerVars, files, reader, aux>>

-----------------------------------------------------------------------------
(* storeLocalPackage, with the filename locked.                             *)

(* An upload that fails unlocks, answers and releases its reservation; the  *)
(* three deferred calls are one step.                                       *)
Fail(h) == Leave(h) /\ Return(h)

(* Mutant: every error removes the target.                                  *)
ConflictCleansUp(h) ==
  /\ At(h, "stat")
  /\ dist[File(h)] # NoFile
  /\ dist' = [dist EXCEPT ![File(h)] = NoFile]
  /\ Fail(h)
  /\ UNCHANGED <<sidecar, leftover, reader, aux>>

(* Mutant: a repeated upload refreshes the metadata.                        *)
RefreshMetadata(h) ==
  /\ At(h, "stat")
  /\ dist[File(h)] # NoFile
  /\ sidecar' = [sidecar EXCEPT ![File(h)] = Content(h)]
  /\ Fail(h)
  /\ UNCHANGED <<dist, leftover, reader, aux>>

(* 409: the distribution exists.                                            *)
StatConflict(h) ==
  /\ At(h, "stat")
  /\ dist[File(h)] # NoFile
  /\ Fail(h)
  /\ UNCHANGED <<files, reader, aux>>

CopyToTemp(h) ==
  /\ At(h, "stat")
  /\ dist[File(h)] = NoFile
  /\ Goto(h, "link")
  /\ UNCHANGED <<controllerVars, files, lock, reader, aux>>

(* Whether a file whose removal is tried, its error ignored, stays for good. *)
MayStay == IF Fault("unlink") THEN BOOLEAN ELSE {FALSE}
BytesIf(h, stays) == IF stays THEN Size(h) ELSE 0

(* The deferred removal of the temporary file.                              *)
DropTemp(h) ==
  \E stays \in MayStay :
    /\ leftover' = leftover + BytesIf(h, stays)
    /\ uncounted' = uncounted + BytesIf(h, stays)

(* os.Remove(target).                                                       *)
TakeBack(h, stays) ==
  dist' = [dist EXCEPT ![File(h)] = IF stays THEN @ ELSE NoFile]

(* The directory, the temporary file or the link cannot be made.            *)
StoreFails(h) ==
  /\ Fault("io")
  /\ \/ At(h, "stat") /\ UNCHANGED <<leftover, uncounted>>
     \/ At(h, "link") /\ DropTemp(h)
  /\ Fail(h)
  /\ UNCHANGED <<dist, sidecar, reader, published, left>>

(* Mutant: the temporary file is renamed onto the target.                   *)
RenameIntoPlace(h) ==
  /\ At(h, "link")
  /\ dist' = [dist EXCEPT ![File(h)] = Content(h)]
  /\ Goto(h, "linked")
  /\ UNCHANGED <<controllerVars, sidecar, leftover, lock, reader, aux>>

Link(h) ==
  /\ At(h, "link")
  /\ dist[File(h)] = NoFile
  /\ dist' = [dist EXCEPT ![File(h)] = Content(h)]
  /\ Goto(h, "linked")
  /\ UNCHANGED <<controllerVars, sidecar, leftover, lock, reader, aux>>

(* 409: someone else put the file there since the stat.                     *)
LinkConflict(h) ==
  /\ At(h, "link")
  /\ dist[File(h)] # NoFile
  /\ DropTemp(h)
  /\ Fail(h)
  /\ UNCHANGED <<dist, sidecar, reader, published, left>>

RemoveTemp(h) ==
  /\ At(h, "linked")
  /\ Goto(h, "describe")
  /\ UNCHANGED <<controllerVars, files, lock, reader, aux>>

(* The target is taken back, and the deferred call tries once more.         *)
RemoveTempFails(h) ==
  /\ Fault("unlink")
  /\ At(h, "linked")
  /\ \E temp, target \in MayStay :
       /\ TakeBack(h, target)
       /\ leftover' = leftover + BytesIf(h, temp)
       /\ uncounted' = uncounted + BytesIf(h, temp) + BytesIf(h, target)
  /\ Fail(h)
  /\ UNCHANGED <<sidecar, reader, published, left>>

(* os.WriteFile: the sidecar is created or truncated, then written.         *)
OpenSidecar(h) ==
  /\ At(h, "describe")
  /\ sidecar' = [sidecar EXCEPT ![File(h)] = Torn]
  /\ Goto(h, "sidecar")
  /\ UNCHANGED <<controllerVars, dist, leftover, lock, reader, aux>>

WriteSidecar(h) ==
  /\ At(h, "sidecar")
  /\ sidecar' = [sidecar EXCEPT ![File(h)] = Content(h)]
  /\ Leave(h)
  /\ Goto(h, "commit")
  /\ UNCHANGED <<controllerVars, dist, leftover, reader, aux>>

(* Mutant: the distribution stays although its sidecar could not be written. *)
KeepUndescribed(h) ==
  /\ Fault("io")
  /\ upload[h].pc \in {"describe", "sidecar"}
  /\ Fail(h)
  /\ UNCHANGED <<files, reader, aux>>

(* The target is taken back, a sidecar that was opened is not.              *)
WriteSidecarFails(h) ==
  /\ Fault("io")
  /\ upload[h].pc \in {"describe", "sidecar"}
  /\ \E target \in MayStay :
       /\ TakeBack(h, target)
       /\ uncounted' = uncounted + BytesIf(h, target)
  /\ Fail(h)
  /\ UNCHANGED <<sidecar, leftover, reader, published, left>>

(* The reservation is committed after the package can be listed: 201, or,   *)
(* if it is refused, both files go.                                         *)
CommitUpload(h) ==
  /\ At(h, "commit")
  /\ Commit(h, Size(h), 0)
  /\ IF CommitAccepted(h, Size(h), 0)
     THEN /\ published' = [published EXCEPT ![File(h)] = Content(h)]
          /\ UNCHANGED <<dist, sidecar>>
     ELSE /\ dist' = [dist EXCEPT ![File(h)] = NoFile]
          /\ sidecar' = [sidecar EXCEPT ![File(h)] = NoFile]
          /\ UNCHANGED published
  /\ upload' = [upload EXCEPT ![h] = IdleUpload]
  /\ UNCHANGED <<leftover, lock, reader, uncounted, left>>

UploadStep(h) ==
  \/ BadForm(h) \/ LockFile(h)
  \/ StatConflict(h) \/ CopyToTemp(h) \/ StoreFails(h)
  \/ Link(h) \/ LinkConflict(h)
  \/ RemoveTemp(h) \/ RemoveTempFails(h)
  \/ OpenSidecar(h) \/ WriteSidecar(h) \/ WriteSidecarFails(h)
  \/ CommitUpload(h)

-----------------------------------------------------------------------------
(* localPackages.  Files are read in any order.                             *)

ReaderAt(r, pc) == reader[r].pc = pc
ListFails(r) == reader' = [reader EXCEPT ![r] = [IdleReader EXCEPT !.pc = "error"]]

ReadDirectory(r) ==
  /\ ReaderAt(r, "idle")
  /\ reader' = [reader EXCEPT ![r] =
       [IdleReader EXCEPT !.pc = "list", !.todo = {f \in Files : dist[f] # NoFile},
                          !.known = Acknowledged]]
  /\ Spend("pages")
  /\ UNCHANGED <<controllerVars, files, upload, lock, published, uncounted>>

(* The next file has a sidecar: it is listed as that says.  A sidecar that  *)
(* does not parse fails the whole page.                                     *)
ReadSidecar(r, f) ==
  /\ ReaderAt(r, "list") /\ f \in reader[r].todo
  /\ sidecar[f] # NoFile
  /\ IF sidecar[f] = Torn THEN ListFails(r)
     ELSE reader' = [reader EXCEPT ![r].todo = @ \ {f}, ![r].page = @ \cup {<<f, sidecar[f]>>}]
  /\ UNCHANGED <<controllerVars, files, upload, lock, aux>>

(* Without a sidecar the file itself is opened and hashed.                  *)
NoSidecar(r, f) ==
  /\ ReaderAt(r, "list") /\ f \in reader[r].todo
  /\ sidecar[f] = NoFile
  /\ reader' = [reader EXCEPT ![r].pc = "hash", ![r].file = f]
  /\ UNCHANGED <<controllerVars, files, upload, lock, aux>>

HashFile(r) ==
  LET f == reader[r].file IN
  /\ ReaderAt(r, "hash")
  /\ dist[f] # NoFile
  /\ reader' = [reader EXCEPT ![r].pc = "list", ![r].file = NoFile, ![r].todo = @ \ {f},
                              ![r].page = @ \cup {<<f, dist[f]>>}]
  /\ UNCHANGED <<controllerVars, files, upload, lock, aux>>

(* Mutant: a page that cannot be built is left to the upstream.             *)
FallThrough(r) ==
  /\ ReaderAt(r, "hash")
  /\ dist[reader[r].file] = NoFile
  /\ reader' = [reader EXCEPT ![r].pc = "upstream"]
  /\ UNCHANGED <<controllerVars, files, upload, lock, aux>>

(* The distribution was taken back since the directory was read: 500.       *)
HashFails(r) ==
  /\ ReaderAt(r, "hash")
  /\ dist[reader[r].file] = NoFile
  /\ ListFails(r)
  /\ UNCHANGED <<controllerVars, files, upload, lock, aux>>

(* A project with private packages gets their page, any other goes on to    *)
(* the upstream.                                                            *)
Listed(r) ==
  /\ ReaderAt(r, "list") /\ reader[r].todo = {}
  /\ reader' = [reader EXCEPT ![r].pc = IF reader[r].page # {} THEN "local" ELSE "upstream"]
  /\ UNCHANGED <<controllerVars, files, upload, lock, aux>>

(* The page or the error is sent.                                           *)
SendPage(r) ==
  /\ reader[r].pc \in {"local", "error"}
  /\ reader' = [reader EXCEPT ![r] = IdleReader]
  /\ UNCHANGED <<controllerVars, files, upload, lock, aux>>

ListingStep(r) ==
  \/ \E f \in Files : ReadSidecar(r, f) \/ NoSidecar(r, f)
  \/ HashFile(r) \/ HashFails(r) \/ Listed(r) \/ SendPage(r)

-----------------------------------------------------------------------------
(* Someone else puts a file into the directory (the comment on os.Link).    *)
ForeignFile(f, c) ==
  /\ dist[f] = NoFile
  /\ dist' = [dist EXCEPT ![f] = c]
  /\ uncounted' = uncounted + SizeOf[c]
  /\ Spend("mishaps")
  /\ UNCHANGED <<controllerVars, sidecar, leftover, upload, lock, reader, published>>

DistBytes(f) == IF dist[f] = NoFile THEN 0 ELSE SizeOf[dist[f]]
TempBytes(h) == IF upload[h].pc \in {"link", "linked"} THEN Size(h) ELSE 0

(* Mutant: temporary files are skipped.                                     *)
DistributionsOnly == Total(Files, [f \in Files |-> DistBytes(f)])

(* What PrivateSize adds up: every regular file but the sidecars, temporary *)
(* ones included.                                                           *)
PrivateSize ==
  Total(Files, [f \in Files |-> DistBytes(f)]) + leftover + Total(Holders, [h \in Holders |-> TempBytes(h)])

(* The process dies and is started again: temporary files stay for good,    *)
(* and New counts what PrivateSize finds.                                   *)
PrivateCrash ==
  /\ Spend("mishaps")
  /\ leftover' = leftover + Total(Holders, [h \in Holders |-> TempBytes(h)])
  /\ committedBytes' = Min(PrivateSize, MaxInt)
  /\ reservedBytes' = 0
  /\ reservation' = [h \in Holders |-> SpentReservation]
  /\ bypassObjects' = 0 /\ bypassBytes' = 0
  /\ upload' = [h \in Holders |-> IdleUpload]
  /\ phase' = [h \in Holders |-> "out"]
  /\ reader' = [r \in Readers |-> IdleReader]
  /\ uncounted' = 0
  /\ UNCHANGED <<dist, sidecar, wants, published>>

-----------------------------------------------------------------------------
(* The first start, on an empty directory.                                  *)
PrivateInit ==
  /\ dist = [f \in Files |-> NoFile]
  /\ sidecar = [f \in Files |-> NoFile]
  /\ leftover = 0
  /\ upload = [h \in Holders |-> IdleUpload]
  /\ MutexInit
  /\ reader = [r \in Readers |-> IdleReader]
  /\ published = [f \in Files |-> NoFile]
  /\ uncounted = 0
  /\ left \in Budgets
  /\ committedBytes = 0 /\ reservedBytes = 0
  /\ reservation = [h \in Holders |-> SpentReservation]
  /\ bypassObjects = 0 /\ bypassBytes = 0

UploadRequest(h) ==
  \/ \E f \in Files, c \in Contents, length \in Sizes, free \in FreeReadings :
        UploadAdmitted(h, f, c, length, free)
  \/ \E length \in Requests, free \in FreeReadings : UploadRefused(h, length, free)

PrivateStep ==
  \/ \E h \in Holders : UploadRequest(h) \/ UploadStep(h) \/ EnterFile(h)
  \/ \E r \in Readers : ReadDirectory(r) \/ ListingStep(r)
  \/ \E f \in Files, c \in Contents : ForeignFile(f, c)

-----------------------------------------------------------------------------
(* Properties.                                                              *)

(* The upload has put the distribution of its filename there, and has not   *)
(* committed its reservation yet.                                           *)
Uncommitted(h) == upload[h].pc \in {"linked", "describe", "sidecar", "commit"}

(* What was acknowledged with 201 under a filename is what is there, for    *)
(* good: no conflict, rollback of another upload or crash takes it away or  *)
(* changes it (proxy.go:954-1013, 821-826; docs/pypi-design.md, "They are   *)
(* persistent artifacts").                                                  *)
AcknowledgedPackagesStay ==
  \A f \in Files : published[f] # NoFile => dist[f] = published[f] /\ sidecar[f] = published[f]

(* A distribution is never overwritten, and only the upload that put it     *)
(* there takes it away again, before it is acknowledged: a file that        *)
(* appeared between the stat and the link survives (proxy.go:992-1003).     *)
OnlyOwnFilesAreTakenBack ==
  [][\A f \in Files : dist[f] # NoFile /\ dist'[f] # dist[f] =>
       /\ dist'[f] = NoFile
       /\ \E h \in Holders : Uncommitted(h) /\ File(h) = f /\ Content(h) = dist[f]]_privateVars

(* Committed bytes are exactly those of the distributions whose uploads are *)
(* over and of leftover temporary files, but for what came or stayed behind *)
(* the ledger's back since the start; an upload in flight uses no more than *)
(* it reserved, and its commit is never refused (proxy.go:786, 821,         *)
(* 170-192).                                                                *)
UncommittedBytes(h) == IF Uncommitted(h) THEN Size(h) ELSE 0
PrivateLedgerIsExact ==
  /\ committedBytes + uncounted + Total(Holders, [h \in Holders |-> UncommittedBytes(h)])
       = Total(Files, [f \in Files |-> DistBytes(f)]) + leftover
  /\ \A h \in Holders : upload[h].pc \notin {"idle", "form"}
       => ~reservation[h].done /\ CommitAccepted(h, Size(h), 0)

(* A page of private packages lists every package that was acknowledged     *)
(* before the directory was read, with its hash, although files come and go *)
(* while it is put together (proxy.go:1016-1058).                           *)
PagesAreComplete ==
  \A r \in Readers : ReaderAt(r, "local") => reader[r].known \subseteq reader[r].page

(* An acknowledged package can be listed when no upload is running: no      *)
(* other distribution of its project has a sidecar that does not parse,     *)
(* which would fail the page of the whole project (docs/pypi-design.md:43-  *)
(* 45 "exposed through PEP 503 HTML and PEP 691 JSON project pages";        *)
(* proxy.go:1009, 1031-1034).                                               *)
ProjectStaysListable ==
  (\A h \in Holders : At(h, "idle")) /\ Acknowledged # {}
     => \A f \in Files : dist[f] # NoFile => sidecar[f] # Torn
=============================================================================
