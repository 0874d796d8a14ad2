-------------------------- MODULE PypiProxy_proofs --------------------------
(***************************************************************************)
(* Proofs about PrivatePyPI and PypiProxy, for any number of uploads,       *)
(* requests, filenames, contents and clients, with every fault, foreign     *)
(* files and any number of crashes.                                         *)
(***************************************************************************)
EXTENDS PypiProxy, StorageController_proofs

UploadPCs == {"idle", "form", "waiting", "stat", "link", "linked", "describe", "sidecar", "commit"}
UploadRecords == [pc : UploadPCs, file : Files \cup {NoFile}, content : Contents \cup {NoFile}]

PackagesTypeOK ==
  /\ dist \in [Files -> Contents \cup {NoFile}]
  /\ sidecar \in [Files -> Contents \cup {NoFile, Torn}]
  /\ published \in [Files -> Contents \cup {NoFile}]
  /\ upload \in [Holders -> UploadRecords]
  /\ \A h \in Holders : upload[h].pc # "idle" => File(h) \in Files /\ Content(h) \in Contents

(* An upload that has linked its distribution and not committed is alone    *)
(* with its filename, although it gives up the lock before it commits.      *)
LinkedAlone ==
  \A h \in Holders : Uncommitted(h) =>
    /\ dist[File(h)] = Content(h)
    /\ published[File(h)] = NoFile
    /\ At(h, "commit") => sidecar[File(h)] = Content(h)
    /\ \A g \in Holders : Uncommitted(g) /\ File(g) = File(h) => g = h

PackagesInv == PackagesTypeOK /\ LinkedAlone /\ AcknowledgedPackagesStay

(* Only the upload that linked a distribution takes it away.                *)
TakesOwn ==
  \A f \in Files : dist[f] # NoFile /\ dist'[f] # dist[f] =>
    /\ dist'[f] = NoFile
    /\ \E h \in Holders : Uncommitted(h) /\ File(h) = f /\ Content(h) = dist[f]

(* What was acknowledged stays acknowledged.                                *)
KeepsPublished == \A f \in Files : published[f] # NoFile => published'[f] = published[f]

PackagesStep == PackagesInv' /\ TakesOwn /\ KeepsPublished

-----------------------------------------------------------------------------
(* The packages.                                                            *)

(* The first start finds an empty directory and no upload.                  *)
LEMMA PackagesInit == PypiInit => PackagesInv
<1> SUFFICES ASSUME PypiInit PROVE PackagesInv
  OBVIOUS
<1> USE PackagesAssumption DEF PypiInit, PrivateInit, IdleUpload
<1>1. PackagesTypeOK
  BY DEF PackagesTypeOK, UploadRecords, UploadPCs
<1>2. LinkedAlone
  BY DEF LinkedAlone, Uncommitted
<1>3. AcknowledgedPackagesStay
  BY DEF AcknowledgedPackagesStay
<1> QED
  BY <1>1, <1>2, <1>3 DEF PackagesInv

(* An upload that has put nothing into place goes on, or ends.              *)
LEMMA BeforeLink ==
  ASSUME PackagesInv, NEW h \in Holders, NEW v \in UploadRecords,
         v.pc \in {"idle", "form", "waiting", "stat", "link"},
         v.pc # "idle" => v.file \in Files /\ v.content \in Contents,
         upload' = [upload EXCEPT ![h] = v],
         UNCHANGED <<dist, sidecar, published>>
  PROVE  PackagesStep
<1> USE DEF PackagesInv
<1>1. PackagesTypeOK'
  BY DEF PackagesTypeOK, File, Content
<1>2. upload'[h].pc = v.pc /\ \A g \in Holders \ {h} : upload'[g] = upload[g]
  BY DEF PackagesTypeOK
<1>3. LinkedAlone'
  BY <1>2 DEF LinkedAlone, Uncommitted, At, File, Content
<1>4. AcknowledgedPackagesStay'
  BY DEF AcknowledgedPackagesStay
<1>5. TakesOwn /\ KeepsPublished
  BY DEF TakesOwn, KeepsPublished
<1> QED
  BY <1>1, <1>3, <1>4, <1>5 DEF PackagesStep

(* An upload that has linked its distribution fails: it takes the file back *)
(* if it can, and leaves a sidecar as it is (proxy.go:1000-1012).           *)
LEMMA RolledBack ==
  ASSUME PackagesInv, NEW h \in Holders, Uncommitted(h), NEW stays,
         TakeBack(h, stays),
         upload' = [upload EXCEPT ![h] = IdleUpload],
         UNCHANGED <<sidecar, published>>
  PROVE  PackagesStep
<1> USE PackagesAssumption DEF PackagesInv
<1>0. File(h) \in Files /\ dist[File(h)] = Content(h) /\ published[File(h)] = NoFile
  BY DEF PackagesTypeOK, Uncommitted, LinkedAlone
<1>1. IdleUpload \in UploadRecords
  BY DEF IdleUpload, UploadRecords, UploadPCs
<1>2. upload'[h].pc = "idle" /\ \A g \in Holders \ {h} : upload'[g] = upload[g]
  BY DEF PackagesTypeOK, IdleUpload
<1>3. \A f \in Files : dist'[f] = dist[f] \/ (f = File(h) /\ dist'[f] = NoFile)
  BY DEF TakeBack, PackagesTypeOK
<1>4. PackagesTypeOK'
  BY <1>0, <1>1, <1>2 DEF PackagesTypeOK, TakeBack, File, Content
<1>5. \A g \in Holders : Uncommitted(g)' => Uncommitted(g) /\ g # h /\ File(g) # File(h)
  BY <1>2 DEF LinkedAlone, Uncommitted, File
<1>6. LinkedAlone'
  <2> SUFFICES ASSUME NEW g \in Holders, Uncommitted(g)'
               PROVE  /\ dist'[File(g)'] = Content(g)'
                      /\ published'[File(g)'] = NoFile
                      /\ At(g, "commit")' => sidecar'[File(g)'] = Content(g)'
                      /\ \A k \in Holders : Uncommitted(k)' /\ File(k)' = File(g)' => k = g
    BY DEF LinkedAlone
  <2>1. Uncommitted(g) /\ g # h /\ File(g) # File(h) /\ upload'[g] = upload[g]
    BY <1>2, <1>5
  <2>2. File(g) \in Files
    BY <2>1 DEF PackagesTypeOK, Uncommitted
  <2> QED
    BY <1>2, <1>3, <1>5, <2>1, <2>2 DEF LinkedAlone, Uncommitted, At, File, Content
<1>7. AcknowledgedPackagesStay'
  BY <1>0, <1>3 DEF AcknowledgedPackagesStay
<1>8. TakesOwn
  BY <1>0, <1>3 DEF TakesOwn
<1>9. KeepsPublished
  BY DEF KeepsPublished
<1> QED
  BY <1>4, <1>6, <1>7, <1>8, <1>9 DEF PackagesStep

(* Link succeeds only where there is nothing, so nobody else has linked the *)
(* filename and nothing was acknowledged under it (proxy.go:994).           *)
LEMMA LinkKeepsPackages ==
  ASSUME PackagesInv, NEW h \in Holders, Link(h)
  PROVE  PackagesStep
<1> USE PackagesAssumption DEF PackagesInv
<1>0. File(h) \in Files /\ Content(h) \in Contents /\ dist[File(h)] = NoFile
      /\ upload[h] \in UploadRecords
  BY DEF Link, At, PackagesTypeOK
<1>1. dist' = [dist EXCEPT ![File(h)] = Content(h)] /\ UNCHANGED <<sidecar, published>>
  BY DEF Link, aux
<1>2. /\ upload'[h] = [upload[h] EXCEPT !.pc = "linked"]
      /\ \A g \in Holders \ {h} : upload'[g] = upload[g]
      /\ upload' \in [Holders -> UploadRecords]
  BY <1>0 DEF Link, Goto, PackagesTypeOK, UploadRecords, UploadPCs
<1>3. File(h)' = File(h) /\ Content(h)' = Content(h) /\ upload'[h].pc = "linked"
  BY <1>0, <1>2 DEF File, Content, UploadRecords
<1>4. published[File(h)] = NoFile /\ \A g \in Holders : Uncommitted(g) => File(g) # File(h)
  BY <1>0 DEF AcknowledgedPackagesStay, LinkedAlone, PackagesTypeOK, Uncommitted
<1>5. PackagesTypeOK'
  BY <1>0, <1>1, <1>2, <1>3 DEF PackagesTypeOK, File, Content
<1>6. LinkedAlone'
  <2> SUFFICES ASSUME NEW g \in Holders, Uncommitted(g)'
               PROVE  /\ dist'[File(g)'] = Content(g)'
                      /\ published'[File(g)'] = NoFile
                      /\ At(g, "commit")' => sidecar'[File(g)'] = Content(g)'
                      /\ \A k \in Holders : Uncommitted(k)' /\ File(k)' = File(g)' => k = g
    BY DEF LinkedAlone
  <2>1. CASE g = h
    BY <1>0, <1>1, <1>2, <1>3, <1>4, <2>1 DEF Uncommitted, At, File, PackagesTypeOK
  <2>2. CASE g # h
    <3>1. upload'[g] = upload[g] /\ Uncommitted(g) /\ File(g) # File(h)
      BY <1>2, <1>4, <2>2 DEF Uncommitted
    <3>2. File(g) \in Files /\ File(g)' = File(g) /\ Content(g)' = Content(g)
      BY <3>1 DEF Uncommitted, PackagesTypeOK, File, Content
    <3>3. /\ dist'[File(g)'] = Content(g)'
          /\ published'[File(g)'] = NoFile
          /\ At(g, "commit")' => sidecar'[File(g)'] = Content(g)'
      BY <1>1, <3>1, <3>2 DEF LinkedAlone, At, PackagesTypeOK
    <3>4. ASSUME NEW k \in Holders, Uncommitted(k)', File(k)' = File(g)' PROVE k = g
      <4>1. k # h /\ upload'[k] = upload[k]
        BY <1>2, <1>3, <3>1, <3>2, <3>4
      <4> QED
        BY <3>1, <3>2, <3>4, <4>1 DEF LinkedAlone, Uncommitted, File
    <3> QED
      BY <3>3, <3>4
  <2> QED
    BY <2>1, <2>2
<1>7. AcknowledgedPackagesStay'
  BY <1>1, <1>4 DEF AcknowledgedPackagesStay, PackagesTypeOK
<1>8. TakesOwn /\ KeepsPublished
  BY <1>0, <1>1 DEF TakesOwn, KeepsPublished, PackagesTypeOK
<1> QED
  BY <1>5, <1>6, <1>7, <1>8 DEF PackagesStep

(* The upload describes its distribution: no sidecar but its own changes    *)
(* (proxy.go:1000-1009).                                                    *)
LEMMA DescribeKeepsPackages ==
  ASSUME PackagesInv, NEW h \in Holders, Uncommitted(h),
         NEW pc \in {"describe", "sidecar", "commit"},
         NEW s \in Contents \cup {NoFile, Torn}, pc = "commit" => s = Content(h),
         Goto(h, pc), sidecar' = [sidecar EXCEPT ![File(h)] = s],
         UNCHANGED <<dist, published>>
  PROVE  PackagesStep
<1> USE PackagesAssumption DEF PackagesInv
<1>0. File(h) \in Files /\ Content(h) \in Contents /\ published[File(h)] = NoFile
      /\ upload[h] \in UploadRecords
  BY DEF Uncommitted, LinkedAlone, PackagesTypeOK
<1>1. /\ upload'[h] = [upload[h] EXCEPT !.pc = pc]
      /\ \A g \in Holders \ {h} : upload'[g] = upload[g]
      /\ upload' \in [Holders -> UploadRecords]
  BY <1>0 DEF Goto, PackagesTypeOK, UploadRecords, UploadPCs
<1>2. /\ \A g \in Holders : File(g)' = File(g) /\ Content(g)' = Content(g)
      /\ \A g \in Holders : Uncommitted(g)' => Uncommitted(g)
      /\ upload'[h].pc = pc
  BY <1>0, <1>1 DEF File, Content, Uncommitted, UploadRecords
<1>3. PackagesTypeOK'
  BY <1>0, <1>1, <1>2 DEF PackagesTypeOK
<1>4. \A g \in Holders : Uncommitted(g) /\ g # h => File(g) # File(h) /\ File(g) \in Files
  BY DEF LinkedAlone, PackagesTypeOK, Uncommitted
<1>5. LinkedAlone'
  <2> SUFFICES ASSUME NEW g \in Holders, Uncommitted(g)'
               PROVE  /\ dist'[File(g)'] = Content(g)'
                      /\ published'[File(g)'] = NoFile
                      /\ At(g, "commit")' => sidecar'[File(g)'] = Content(g)'
                      /\ \A k \in Holders : Uncommitted(k)' /\ File(k)' = File(g)' => k = g
    BY DEF LinkedAlone
  <2>1. Uncommitted(g) /\ File(g)' = File(g) /\ Content(g)' = Content(g)
    BY <1>2
  <2>2. At(g, "commit")' => sidecar'[File(g)'] = Content(g)'
    <3>1. CASE g = h
      BY <1>0, <1>2, <2>1, <3>1 DEF At, PackagesTypeOK
    <3>2. CASE g # h
      BY <1>1, <1>4, <2>1, <3>2 DEF At, LinkedAlone, PackagesTypeOK
    <3> QED
      BY <3>1, <3>2
  <2> QED
    BY <1>2, <2>1, <2>2 DEF LinkedAlone
<1>6. AcknowledgedPackagesStay'
  BY <1>0 DEF AcknowledgedPackagesStay, PackagesTypeOK
<1>7. TakesOwn /\ KeepsPublished
  BY DEF TakesOwn, KeepsPublished
<1> QED
  BY <1>3, <1>5, <1>6, <1>7 DEF PackagesStep

(* The commit acknowledges what the upload linked and described, or takes   *)
(* both files back (proxy.go:821-829).                                      *)
LEMMA CommitKeepsPackages ==
  ASSUME PackagesInv, NEW h \in Holders, CommitUpload(h)
  PROVE  PackagesStep
<1> USE PackagesAssumption DEF PackagesInv
<1>0. /\ Uncommitted(h) /\ File(h) \in Files /\ Content(h) \in Contents
      /\ dist[File(h)] = Content(h) /\ sidecar[File(h)] = Content(h)
      /\ published[File(h)] = NoFile
  BY DEF CommitUpload, At, Uncommitted, LinkedAlone, PackagesTypeOK
<1>1. \/ /\ published' = [published EXCEPT ![File(h)] = Content(h)]
         /\ UNCHANGED <<dist, sidecar>>
      \/ /\ dist' = [dist EXCEPT ![File(h)] = NoFile]
         /\ sidecar' = [sidecar EXCEPT ![File(h)] = NoFile]
         /\ UNCHANGED published
  BY DEF CommitUpload
<1>2. /\ upload'[h] = IdleUpload /\ upload'[h].pc = "idle"
      /\ \A g \in Holders \ {h} : upload'[g] = upload[g]
      /\ upload' \in [Holders -> UploadRecords]
  BY DEF CommitUpload, PackagesTypeOK, IdleUpload, UploadRecords, UploadPCs
<1>3. PackagesTypeOK'
  BY <1>0, <1>1, <1>2 DEF PackagesTypeOK, File, Content
<1>4. \A g \in Holders : Uncommitted(g)' =>
        Uncommitted(g) /\ g # h /\ File(g) # File(h) /\ File(g) \in Files /\ upload'[g] = upload[g]
  BY <1>0, <1>2 DEF LinkedAlone, Uncommitted, File, PackagesTypeOK
<1>5. LinkedAlone'
  <2> SUFFICES ASSUME NEW g \in Holders, Uncommitted(g)'
               PROVE  /\ dist'[File(g)'] = Content(g)'
                      /\ published'[File(g)'] = NoFile
                      /\ At(g, "commit")' => sidecar'[File(g)'] = Content(g)'
                      /\ \A k \in Holders : Uncommitted(k)' /\ File(k)' = File(g)' => k = g
    BY DEF LinkedAlone
  <2>1. Uncommitted(g) /\ g # h /\ File(g) # File(h) /\ File(g) \in Files /\ upload'[g] = upload[g]
    BY <1>4
  <2> QED
    BY <1>1, <1>4, <2>1 DEF LinkedAlone, Uncommitted, At, File, Content, PackagesTypeOK
<1>6. AcknowledgedPackagesStay'
  BY <1>0, <1>1 DEF AcknowledgedPackagesStay, PackagesTypeOK
<1>7. TakesOwn /\ KeepsPublished
  BY <1>0, <1>1 DEF TakesOwn, KeepsPublished, PackagesTypeOK
<1> QED
  BY <1>3, <1>5, <1>6, <1>7 DEF PackagesStep

(* Every step of an upload (proxy.go:768-830, 954-1013).                    *)
LEMMA UploadKeepsPackages ==
  ASSUME PackagesInv, NEW h \in Holders, UploadRequest(h) \/ UploadStep(h) \/ EnterFile(h)
  PROVE  PackagesStep
<1> USE PackagesAssumption DEF aux, files
<1>0. /\ upload[h] \in UploadRecords /\ IdleUpload \in UploadRecords /\ IdleUpload.pc = "idle"
      /\ \A pc \in UploadPCs : [upload[h] EXCEPT !.pc = pc] \in UploadRecords
      /\ \A pc \in UploadPCs : [upload[h] EXCEPT !.pc = pc].pc = pc
      /\ upload \in [Holders -> UploadRecords]
      /\ UNCHANGED upload => upload' = [upload EXCEPT ![h] = upload[h]]
  BY DEF PackagesInv, PackagesTypeOK, UploadRecords, UploadPCs, IdleUpload
<1>a. ASSUME NEW pc \in {"waiting", "stat", "link"}, upload[h].pc # "idle", Goto(h, pc),
             UNCHANGED <<dist, sidecar, published>>
      PROVE  PackagesStep
  <2> DEFINE v == [upload[h] EXCEPT !.pc = pc]
  <2>1. upload' = [upload EXCEPT ![h] = v]
    BY <1>a DEF Goto
  <2>2. v \in UploadRecords /\ v.pc = pc
    BY <1>0 DEF UploadPCs
  <2>3. v.file \in Files /\ v.content \in Contents
    BY <1>0, <1>a DEF PackagesInv, PackagesTypeOK, File, Content, UploadRecords
  <2> HIDE DEF v
  <2> QED
    BY <1>a, <2>1, <2>2, <2>3, BeforeLink
<1>b. ASSUME upload' = [upload EXCEPT ![h] = IdleUpload], UNCHANGED <<dist, sidecar, published>>
      PROVE  PackagesStep
  BY <1>0, <1>b, BeforeLink
<1>1. ASSUME NEW f \in Files, NEW c \in Contents, NEW length \in Sizes, NEW free \in FreeReadings,
             UploadAdmitted(h, f, c, length, free)
      PROVE  PackagesStep
  <2> DEFINE v == [pc |-> "form", file |-> f, content |-> c]
  <2>1. v \in UploadRecords /\ v.pc = "form" /\ v.file = f /\ v.content = c
    BY DEF UploadRecords, UploadPCs
  <2>2. upload' = [upload EXCEPT ![h] = v] /\ UNCHANGED <<dist, sidecar, published>>
    BY <1>1 DEF UploadAdmitted
  <2> HIDE DEF v
  <2> QED
    BY <2>1, <2>2, BeforeLink
<1>2. ASSUME NEW length \in Requests, NEW free \in FreeReadings, UploadRefused(h, length, free)
      PROVE  PackagesStep
  <2>1. upload[h].pc = "idle" /\ UNCHANGED <<upload, dist, sidecar, published>>
    BY <1>2 DEF UploadRefused, At
  <2> QED
    BY <1>0, <2>1, BeforeLink
<1>3. CASE BadForm(h)
  BY <1>b, <1>3 DEF BadForm, Return
<1>4. CASE LockFile(h)
  BY <1>a, <1>4 DEF LockFile, At
<1>5. CASE EnterFile(h)
  BY <1>a, <1>5 DEF EnterFile, At
<1>6. CASE StatConflict(h)
  BY <1>b, <1>6 DEF StatConflict, Fail, Return
<1>7. CASE CopyToTemp(h)
  BY <1>a, <1>7 DEF CopyToTemp, At
<1>8. CASE StoreFails(h)
  BY <1>b, <1>8 DEF StoreFails, Fail, Return
<1>9. CASE Link(h)
  BY <1>9, LinkKeepsPackages
<1>10. CASE LinkConflict(h)
  BY <1>b, <1>10 DEF LinkConflict, Fail, Return
<1>11. CASE RemoveTemp(h)
  <2>1. Uncommitted(h) /\ Goto(h, "describe") /\ UNCHANGED <<dist, sidecar, published>>
    BY <1>11 DEF RemoveTemp, At, Uncommitted
  <2>2. /\ File(h) \in Files /\ sidecar[File(h)] \in Contents \cup {NoFile, Torn}
        /\ sidecar' = [sidecar EXCEPT ![File(h)] = sidecar[File(h)]]
    BY <2>1 DEF PackagesInv, PackagesTypeOK, Uncommitted
  <2> QED
    BY <2>1, <2>2, DescribeKeepsPackages
<1>12. CASE RemoveTempFails(h)
  <2>1. PICK target \in MayStay : TakeBack(h, target)
    BY <1>12 DEF RemoveTempFails
  <2> QED
    BY <1>12, <2>1, RolledBack DEF RemoveTempFails, Fail, Return, At, Uncommitted
<1>13. CASE OpenSidecar(h)
  BY <1>13, DescribeKeepsPackages DEF OpenSidecar, At, Uncommitted
<1>14. CASE WriteSidecar(h)
  <2>1. Content(h) \in Contents
    BY <1>14 DEF WriteSidecar, At, PackagesInv, PackagesTypeOK
  <2> QED
    BY <1>14, <2>1, DescribeKeepsPackages DEF WriteSidecar, At, Uncommitted
<1>15. CASE WriteSidecarFails(h)
  <2>1. PICK target \in MayStay : TakeBack(h, target)
    BY <1>15 DEF WriteSidecarFails
  <2> QED
    BY <1>15, <2>1, RolledBack DEF WriteSidecarFails, Fail, Return, Uncommitted
<1>16. CASE CommitUpload(h)
  BY <1>16, CommitKeepsPackages
<1> QED
  BY <1>1, <1>2, <1>3, <1>4, <1>5, <1>6, <1>7, <1>8, <1>9, <1>10, <1>11, <1>12, <1>13,
     <1>14, <1>15, <1>16 DEF UploadRequest, UploadStep

(* Someone else's file lands only where there is none.                      *)
LEMMA ForeignFileKeepsPackages ==
  ASSUME PackagesInv, NEW f \in Files, NEW c \in Contents, ForeignFile(f, c)
  PROVE  PackagesStep
<1> USE PackagesAssumption DEF PackagesInv, ForeignFile
<1>1. PackagesTypeOK'
  BY DEF PackagesTypeOK, File, Content
<1>2. LinkedAlone'
  BY DEF LinkedAlone, PackagesTypeOK, Uncommitted, At, File, Content
<1>3. AcknowledgedPackagesStay' /\ TakesOwn /\ KeepsPublished
  BY DEF AcknowledgedPackagesStay, TakesOwn, KeepsPublished, PackagesTypeOK
<1> QED
  BY <1>1, <1>2, <1>3 DEF PackagesStep

(* The process dies: the uploads are forgotten, the files stay.             *)
LEMMA CrashKeepsPackages ==
  ASSUME PackagesInv, PrivateCrash
  PROVE  PackagesStep
<1> USE DEF PackagesInv, PrivateCrash
<1>1. \A h \in Holders : upload'[h] = IdleUpload /\ upload'[h].pc = "idle"
  BY DEF IdleUpload
<1>2. PackagesTypeOK'
  BY <1>1 DEF PackagesTypeOK, IdleUpload, UploadRecords, UploadPCs
<1>3. LinkedAlone'
  BY <1>1 DEF LinkedAlone, Uncommitted
<1>4. AcknowledgedPackagesStay' /\ TakesOwn /\ KeepsPublished
  BY DEF AcknowledgedPackagesStay, TakesOwn, KeepsPublished
<1> QED
  BY <1>2, <1>3, <1>4 DEF PackagesStep

(* Readers and the cached path write no file of a project.                  *)
LEMMA UntouchedPackages ==
  ASSUME PackagesInv, UNCHANGED <<dist, sidecar, upload, published>>
  PROVE  PackagesStep
<1> USE DEF PackagesInv
<1>1. PackagesTypeOK' /\ LinkedAlone'
  BY DEF PackagesTypeOK, LinkedAlone, Uncommitted, At, File, Content
<1>2. AcknowledgedPackagesStay' /\ TakesOwn /\ KeepsPublished
  BY DEF AcknowledgedPackagesStay, TakesOwn, KeepsPublished
<1> QED
  BY <1>1, <1>2 DEF PackagesStep

-----------------------------------------------------------------------------
(* The pages.                                                               *)

ReaderPCs == {"idle", "list", "hash", "local", "error", "upstream"} \cup BeyondLocal
Pairs == Files \X Contents
ReaderRecords ==
  [pc : ReaderPCs, todo : SUBSET Files, file : Files \cup {NoFile}, page : SUBSET Pairs,
   known : SUBSET Pairs]

(* What a request knew to be acknowledged when it read the directory is on  *)
(* its page or still to be read, and a request that knew of a package       *)
(* never leaves for the cache.                                              *)
OnTheWay(x) ==
  /\ x.pc \in {"list", "hash"} => \A p \in x.known : p[1] \in x.todo \/ p \in x.page
  /\ x.pc = "hash" => x.file \in Files
  /\ x.pc = "local" => x.known \subseteq x.page
  /\ x.pc \in BeyondLocal \cup {"upstream", "idle"} => x.known = {}

ReadersInv ==
  /\ reader \in [Readers -> ReaderRecords]
  /\ \A r \in Readers : reader[r].known \subseteq Acknowledged /\ OnTheWay(reader[r])

(* No request is being served when the server starts.                       *)
LEMMA ReadersInit == PypiInit => ReadersInv
<1> SUFFICES ASSUME PypiInit PROVE ReadersInv
  OBVIOUS
<1>1. \A r \in Readers : reader[r] = IdleReader
  BY DEF PypiInit, PrivateInit
<1>2. IdleReader \in ReaderRecords /\ IdleReader.known = {} /\ IdleReader.pc = "idle"
  BY DEF IdleReader, ReaderRecords, ReaderPCs
<1>3. OnTheWay(IdleReader)
  BY <1>2 DEF OnTheWay
<1>4. reader \in [Readers -> ReaderRecords]
  BY <1>2 DEF PypiInit, PrivateInit
<1> QED
  BY <1>1, <1>2, <1>3, <1>4 DEF ReadersInv

(* What is acknowledged stays acknowledged.                                 *)
LEMMA AcknowledgedGrows ==
  ASSUME PackagesInv, KeepsPublished
  PROVE  Acknowledged \subseteq Acknowledged'
  BY DEF KeepsPublished, Acknowledged

(* A package that was acknowledged can be read, with a sidecar that says    *)
(* what it is (proxy.go:1009, 1029).                                        *)
LEMMA AcknowledgedIsThere ==
  ASSUME PackagesInv, NEW p \in Acknowledged
  PROVE  p = <<p[1], p[2]>> /\ p \in Pairs /\ sidecar[p[1]] = p[2] /\ dist[p[1]] = p[2]
         /\ p[2] \in Contents
<1>1. PICK f \in Files : published[f] # NoFile /\ p = <<f, published[f]>>
  BY DEF Acknowledged
<1>2. sidecar[f] = published[f] /\ dist[f] = published[f] /\ published[f] \in Contents
  BY <1>1 DEF PackagesInv, AcknowledgedPackagesStay, PackagesTypeOK
<1> QED
  BY <1>1, <1>2 DEF Pairs

(* A step of one request, with nothing acknowledged forgotten.              *)
LEMMA OneReader ==
  ASSUME ReadersInv, Acknowledged \subseteq Acknowledged',
         NEW r \in Readers, NEW x \in ReaderRecords,
         x.known \subseteq Acknowledged, OnTheWay(x),
         reader' = [reader EXCEPT ![r] = x]
  PROVE  ReadersInv'
<1>1. reader' \in [Readers -> ReaderRecords]
  BY DEF ReadersInv
<1>2. ASSUME NEW q \in Readers
      PROVE  reader'[q].known \subseteq Acknowledged' /\ OnTheWay(reader'[q])
  <2>1. CASE q = r
    <3>1. reader'[q] = x
      BY <2>1 DEF ReadersInv
    <3> QED
      BY <3>1
  <2>2. CASE q # r
    <3>1. reader'[q] = reader[q]
      BY <2>2 DEF ReadersInv
    <3> QED
      BY <3>1 DEF ReadersInv
  <2> QED
    BY <2>1, <2>2
<1> QED
  BY <1>1, <1>2 DEF ReadersInv

(* A step of no request, with nothing acknowledged forgotten.               *)
LEMMA NoReader ==
  ASSUME ReadersInv, Acknowledged \subseteq Acknowledged', UNCHANGED reader
  PROVE  ReadersInv'
<1>1. ASSUME NEW q \in Readers
      PROVE  reader'[q].known \subseteq Acknowledged' /\ OnTheWay(reader'[q])
  BY DEF ReadersInv
<1> QED
  BY <1>1 DEF ReadersInv

(* A request that knows of nothing goes where it likes.                     *)
LEMMA UnknowingReader ==
  ASSUME ReadersInv, Acknowledged \subseteq Acknowledged',
         NEW r \in Readers, NEW x \in ReaderRecords,
         x.known = {}, x.pc \notin {"list", "hash"},
         reader' = [reader EXCEPT ![r] = x]
  PROVE  ReadersInv'
<1>1. OnTheWay(x)
  BY DEF OnTheWay
<1> QED
  BY <1>1, OneReader

(* A request that is answered, or whose page failed, knows of nothing.      *)
LEMMA IdleReaderRecords ==
  /\ IdleReader \in ReaderRecords /\ IdleReader.known = {} /\ IdleReader.pc = "idle"
  /\ [IdleReader EXCEPT !.pc = "error"] \in ReaderRecords
  /\ [IdleReader EXCEPT !.pc = "error"].known = {}
  /\ [IdleReader EXCEPT !.pc = "error"].pc = "error"
  BY DEF IdleReader, ReaderRecords, ReaderPCs

(* What localPackages has after os.ReadDir (proxy.go:1017).                 *)
LEMMA StartedListing ==
  ASSUME NEW todo \in SUBSET Files, NEW known \in SUBSET Pairs
  PROVE  LET y == [IdleReader EXCEPT !.pc = "list", !.todo = todo, !.known = known]
         IN  y \in ReaderRecords /\ y.pc = "list" /\ y.todo = todo /\ y.known = known
  BY DEF IdleReader, ReaderRecords, ReaderPCs

(* Every step of localPackages (proxy.go:255-266, 1016-1066).               *)
LEMMA ListingKeepsReaders ==
  ASSUME PackagesInv, ReadersInv, Acknowledged' = Acknowledged,
         NEW r \in Readers, ReadDirectory(r) \/ ListingStep(r)
  PROVE  ReadersInv'
<1> DEFINE x == reader[r]
<1> USE PackagesAssumption
<1>0. /\ x \in ReaderRecords /\ x.known \subseteq Acknowledged /\ OnTheWay(x)
      /\ reader \in [Readers -> ReaderRecords]
  BY DEF ReadersInv
<1>e. ASSUME ListFails(r) PROVE ReadersInv'
  <2> DEFINE y == [IdleReader EXCEPT !.pc = "error"]
  <2>1. y \in ReaderRecords /\ y.known = {} /\ y.pc = "error"
    BY IdleReaderRecords
  <2>2. reader' = [reader EXCEPT ![r] = y]
    BY <1>e DEF ListFails
  <2> HIDE DEF y
  <2> QED
    BY <2>1, <2>2, UnknowingReader
<1>1. CASE ReadDirectory(r)
  <2> DEFINE y == [IdleReader EXCEPT !.pc = "list", !.todo = {f \in Files : dist[f] # NoFile},
                                     !.known = Acknowledged]
  <2>1. \A p \in Acknowledged : p[1] \in {f \in Files : dist[f] # NoFile} /\ p \in Pairs
    BY AcknowledgedIsThere DEF Pairs
  <2>2. /\ y.pc = "list" /\ y.todo = {f \in Files : dist[f] # NoFile} /\ y.known = Acknowledged
        /\ y \in ReaderRecords
    <3>1. Acknowledged \in SUBSET Pairs /\ {f \in Files : dist[f] # NoFile} \in SUBSET Files
      BY <2>1
    <3> QED
      BY <3>1, StartedListing
  <2>3. reader' = [reader EXCEPT ![r] = y]
    BY <1>1 DEF ReadDirectory
  <2> HIDE DEF y
  <2>4. OnTheWay(y)
    BY <2>1, <2>2 DEF OnTheWay, BeyondLocal
  <2> QED
    BY <2>2, <2>3, <2>4, OneReader
<1>2. ASSUME NEW f \in Files, ReadSidecar(r, f) PROVE ReadersInv'
  <2>1. CASE sidecar[f] = Torn
    BY <1>2, <1>e, <2>1 DEF ReadSidecar
  <2>2. CASE sidecar[f] # Torn
    <3> DEFINE y == [x EXCEPT !.todo = @ \ {f}, !.page = @ \cup {<<f, sidecar[f]>>}]
    <3>1. x.pc = "list" /\ sidecar[f] \in Contents /\ <<f, sidecar[f]>> \in Pairs
      BY <1>2, <2>2 DEF ReadSidecar, ReaderAt, PackagesInv, PackagesTypeOK, Pairs
    <3>2. /\ y.pc = x.pc /\ y.todo = x.todo \ {f} /\ y.page = x.page \cup {<<f, sidecar[f]>>}
          /\ y.known = x.known /\ y.file = x.file /\ y \in ReaderRecords
      BY <1>0, <3>1 DEF ReaderRecords
    <3>3. reader' = [reader EXCEPT ![r] = y]
      BY <1>0, <1>2, <2>2 DEF ReadSidecar
    <3> HIDE DEF y
    <3>4. \A p \in y.known : p[1] \in y.todo \/ p \in y.page
      <4> SUFFICES ASSUME NEW p \in y.known PROVE p[1] \in y.todo \/ p \in y.page
        OBVIOUS
      <4>1. p \in Acknowledged /\ (p[1] \in x.todo \/ p \in x.page)
        BY <1>0, <3>1, <3>2 DEF OnTheWay
      <4>2. p = <<p[1], p[2]>> /\ sidecar[p[1]] = p[2]
        BY <4>1, AcknowledgedIsThere
      <4> QED
        BY <3>2, <4>1, <4>2
    <3>5. OnTheWay(y)
      BY <3>1, <3>2, <3>4 DEF OnTheWay, BeyondLocal
    <3> QED
      BY <1>0, <3>2, <3>3, <3>5, OneReader
  <2> QED
    BY <2>1, <2>2
<1>3. ASSUME NEW f \in Files, NoSidecar(r, f) PROVE ReadersInv'
  <2> DEFINE y == [x EXCEPT !.pc = "hash", !.file = f]
  <2>1. x.pc = "list" /\ reader' = [reader EXCEPT ![r] = y]
    BY <1>0, <1>3 DEF NoSidecar, ReaderAt
  <2>2. /\ y.pc = "hash" /\ y.file = f /\ y.todo = x.todo /\ y.page = x.page
        /\ y.known = x.known /\ y \in ReaderRecords
    BY <1>0 DEF ReaderRecords, ReaderPCs
  <2> HIDE DEF y
  <2>3. OnTheWay(y)
    BY <1>0, <2>1, <2>2 DEF OnTheWay, BeyondLocal
  <2> QED
    BY <1>0, <2>1, <2>2, <2>3, OneReader
<1>4. CASE HashFile(r)
  <2> DEFINE f == x.file
             y == [x EXCEPT !.pc = "list", !.file = NoFile, !.todo = @ \ {f},
                            !.page = @ \cup {<<f, dist[f]>>}]
  <2>1. x.pc = "hash" /\ f \in Files /\ dist[f] # NoFile
    BY <1>0, <1>4 DEF HashFile, ReaderAt, OnTheWay
  <2>2. <<f, dist[f]>> \in Pairs
    BY <2>1 DEF PackagesInv, PackagesTypeOK, Pairs
  <2>3. /\ y.pc = "list" /\ y.todo = x.todo \ {f} /\ y.page = x.page \cup {<<f, dist[f]>>}
        /\ y.known = x.known /\ y \in ReaderRecords
    BY <1>0, <2>2 DEF ReaderRecords, ReaderPCs
  <2>4. reader' = [reader EXCEPT ![r] = y]
    BY <1>0, <1>4 DEF HashFile
  <2> HIDE DEF f, y
  <2>5. \A p \in y.known : p[1] \in y.todo \/ p \in y.page
    <3> SUFFICES ASSUME NEW p \in y.known PROVE p[1] \in y.todo \/ p \in y.page
      OBVIOUS
    <3>1. p \in Acknowledged /\ (p[1] \in x.todo \/ p \in x.page)
      BY <1>0, <2>1, <2>3 DEF OnTheWay
    <3>2. p = <<p[1], p[2]>> /\ dist[p[1]] = p[2]
      BY <3>1, AcknowledgedIsThere
    <3> QED
      BY <2>3, <3>1, <3>2
  <2>6. OnTheWay(y)
    BY <2>3, <2>5 DEF OnTheWay, BeyondLocal
  <2> QED
    BY <1>0, <2>3, <2>4, <2>6, OneReader
<1>5. CASE HashFails(r)
  BY <1>5, <1>e DEF HashFails
<1>6. CASE Listed(r)
  <2> DEFINE y == [x EXCEPT !.pc = IF x.page # {} THEN "local" ELSE "upstream"]
  <2>1. x.pc = "list" /\ x.todo = {} /\ reader' = [reader EXCEPT ![r] = y]
    BY <1>0, <1>6 DEF Listed, ReaderAt
  <2>2. /\ y.pc = (IF x.page # {} THEN "local" ELSE "upstream")
        /\ y.page = x.page /\ y.known = x.known /\ y \in ReaderRecords
    BY <1>0 DEF ReaderRecords, ReaderPCs
  <2> HIDE DEF y
  <2>3. x.known \subseteq x.page
    BY <1>0, <2>1 DEF OnTheWay
  <2>4. OnTheWay(y)
    BY <2>2, <2>3 DEF OnTheWay, BeyondLocal
  <2> QED
    BY <1>0, <2>1, <2>2, <2>4, OneReader
<1>7. CASE SendPage(r)
  BY <1>7, IdleReaderRecords, UnknowingReader DEF SendPage
<1> QED
  BY <1>1, <1>2, <1>3, <1>4, <1>5, <1>6, <1>7 DEF ListingStep

(* The requests that use the cache or the upstream know of no package.      *)
LEMMA CachedKeepsReaders ==
  ASSUME PackagesInv, ReadersInv, Acknowledged' = Acknowledged, NEW r \in Readers,
         \/ reader' = [reader EXCEPT ![r] = IdleReader]
         \/ \E pc \in BeyondLocal : Move(r, pc)
         \/ UNCHANGED reader,
         reader[r].pc \in BeyondLocal \cup {"upstream", "idle"}
  PROVE  ReadersInv'
<1>0. reader[r] \in ReaderRecords /\ reader[r].known = {}
  BY DEF ReadersInv, OnTheWay
<1>1. CASE reader' = [reader EXCEPT ![r] = IdleReader]
  BY <1>1, IdleReaderRecords, UnknowingReader
<1>2. ASSUME NEW pc \in BeyondLocal, Move(r, pc) PROVE ReadersInv'
  <2> DEFINE y == [reader[r] EXCEPT !.pc = pc]
  <2>1. y \in ReaderRecords /\ y.known = {} /\ y.pc = pc
    BY <1>0 DEF ReaderRecords, ReaderPCs
  <2>2. reader' = [reader EXCEPT ![r] = y]
    BY <1>2 DEF Move
  <2> HIDE DEF y
  <2>3. pc \notin {"list", "hash"}
    BY DEF BeyondLocal
  <2> QED
    BY <2>1, <2>2, <2>3, UnknowingReader
<1>3. CASE UNCHANGED reader
  BY <1>3, NoReader
<1> QED
  BY <1>1, <1>2, <1>3

-----------------------------------------------------------------------------
(* Every step.                                                              *)

PrivateInv == PackagesInv /\ ReadersInv

(* The steps of the cached path leave the packages alone and move one       *)
(* request that is past them, or none.                                      *)
CachedMove ==
  /\ UNCHANGED <<dist, sidecar, upload, published>>
  /\ \/ UNCHANGED reader
     \/ \E r \in Readers :
          /\ reader[r].pc \in BeyondLocal \cup {"upstream", "idle"}
          /\ \/ reader' = [reader EXCEPT ![r] = IdleReader]
             \/ \E pc \in BeyondLocal : Move(r, pc)

(* Every step of serveSimple past the packages, of serveFile and of what    *)
(* they call is of that kind (proxy.go:267-337, 397-540).                   *)
LEMMA CachedStepMoves ==
  ASSUME NEW r \in Readers,
         \/ CachedStep(r) \/ EnterKey(r)
         \/ \E q \in FileRequests, client \in Clients, cacheable \in BOOLEAN :
              RequestFile(r, q, client, cacheable)
  PROVE  CachedMove
<1> USE DEF private, ReaderAt, BeyondLocal, CachedMove
<1>1. ASSUME NEW client \in Clients, NEW cacheable \in BOOLEAN,
             PageFromUpstream(r, client, cacheable)
      PROVE  CachedMove
  BY <1>1 DEF PageFromUpstream
<1>2. ASSUME NEW q \in FileRequests, NEW client \in Clients, NEW cacheable \in BOOLEAN,
             RequestFile(r, q, client, cacheable)
      PROVE  CachedMove
  BY <1>2 DEF RequestFile
<1>3. CASE LookupHit(r) \/ LookupMiss(r) \/ EnterKey(r)
  BY <1>3 DEF LookupHit, LookupMiss, EnterKey
<1>4. CASE RecheckHit(r) \/ Miss(r) \/ FetchOnly(r)
  BY <1>4 DEF RecheckHit, Miss, FetchOnly
<1>5. ASSUME NEW content \in Upstream(req[r].query), NEW vary \in Varies,
             FetchAndStore(r, content, vary)
      PROVE  CachedMove
  BY <1>5 DEF FetchAndStore
<1>6. CASE Answered(r)
  BY <1>6 DEF Answered
<1> QED
  BY <1>1, <1>2, <1>3, <1>4, <1>5, <1>6 DEF CachedStep

(* Uploads, listings, foreign files, the cached path, expiry and the death  *)
(* of the process keep the invariant of packages and pages.                 *)
LEMMA PypiStep ==
  ASSUME PrivateInv, [PypiNext]_pypiVars
  PROVE  PrivateInv' /\ TakesOwn
<1> USE DEF PrivateInv
<1>a. ASSUME UNCHANGED published PROVE Acknowledged' = Acknowledged
  BY <1>a DEF Acknowledged
<1>1. ASSUME NEW h \in Holders, UploadRequest(h) \/ UploadStep(h) \/ EnterFile(h)
      PROVE  PrivateInv' /\ TakesOwn
  <2>1. PackagesStep
    BY <1>1, UploadKeepsPackages
  <2>2. UNCHANGED reader
    BY <1>1 DEF UploadRequest, UploadStep, UploadAdmitted, UploadRefused, BadForm, LockFile,
      EnterFile, StatConflict, CopyToTemp, StoreFails, Link, LinkConflict, RemoveTemp,
      RemoveTempFails, OpenSidecar, WriteSidecar, WriteSidecarFails, CommitUpload
  <2> QED
    BY <2>1, <2>2, AcknowledgedGrows, NoReader DEF PackagesStep
<1>2. ASSUME NEW r \in Readers, ReadDirectory(r) \/ ListingStep(r)
      PROVE  PrivateInv' /\ TakesOwn
  <2>1. UNCHANGED <<dist, sidecar, upload, published>>
    BY <1>2 DEF ReadDirectory, ListingStep, ReadSidecar, NoSidecar, HashFile, HashFails, Listed,
      SendPage, files, aux
  <2> QED
    BY <1>2, <1>a, <2>1, UntouchedPackages, ListingKeepsReaders DEF PackagesStep
<1>3. ASSUME NEW f \in Files, NEW c \in Contents, ForeignFile(f, c)
      PROVE  PrivateInv' /\ TakesOwn
  BY <1>3, <1>a, ForeignFileKeepsPackages, NoReader DEF PackagesStep, ForeignFile
<1>4. ASSUME CachedMove PROVE PrivateInv' /\ TakesOwn
  <2>1. PackagesStep /\ Acknowledged' = Acknowledged
    BY <1>4, <1>a, UntouchedPackages DEF CachedMove
  <2>2. ReadersInv'
    BY <1>4, <2>1, CachedKeepsReaders, NoReader DEF CachedMove
  <2> QED
    BY <2>1, <2>2 DEF PackagesStep
<1>5. ASSUME NEW k \in CacheKeys, Expire(k) PROVE PrivateInv' /\ TakesOwn
  BY <1>4, <1>5 DEF Expire, CachedMove, private
<1>6. CASE PypiCrash
  <2>1. PackagesStep
    BY <1>6, CrashKeepsPackages DEF PypiCrash
  <2>2. reader' = [r \in Readers |-> IdleReader]
    BY <1>6 DEF PypiCrash, PrivateCrash
  <2>3. OnTheWay(IdleReader)
    BY IdleReaderRecords DEF OnTheWay
  <2>4. ASSUME NEW q \in Readers
        PROVE  reader'[q].known \subseteq Acknowledged' /\ OnTheWay(reader'[q])
    BY <2>2, <2>3, IdleReaderRecords
  <2>5. reader' \in [Readers -> ReaderRecords]
    BY <2>2, IdleReaderRecords
  <2> QED
    BY <2>1, <2>4, <2>5 DEF PackagesStep, ReadersInv
<1>7. CASE UNCHANGED pypiVars
  BY <1>4, <1>7 DEF pypiVars, privateVars, CachedMove
<1> QED
  BY <1>1, <1>2, <1>3, <1>4, <1>5, <1>6, <1>7, CachedStepMoves DEF PypiNext, PrivateStep

(* What was acknowledged stays, with its sidecar, for any number of         *)
(* uploads, faults, foreign files and crashes (proxy.go:954-1013, 821-826). *)
THEOREM PypiAcknowledgedStay == PypiSpec => []AcknowledgedPackagesStay
<1>1. PypiInit => PrivateInv
  BY PackagesInit, ReadersInit DEF PrivateInv
<1>2. PrivateInv /\ [PypiNext]_pypiVars => PrivateInv'
  BY PypiStep
<1>3. PrivateInv => AcknowledgedPackagesStay
  BY DEF PrivateInv, PackagesInv
<1> QED
  BY <1>1, <1>2, <1>3, PTL DEF PypiSpec

(* Distributions are never overwritten, and taken away only by the upload   *)
(* that linked them (proxy.go:992-1003).                                    *)
THEOREM PypiTakesBackOwn == PypiSpec => OnlyOwnFilesAreTakenBack
<1>1. PypiInit => PrivateInv
  BY PackagesInit, ReadersInit DEF PrivateInv
<1>2. PrivateInv /\ [PypiNext]_pypiVars => PrivateInv'
  BY PypiStep
<1>3. PrivateInv /\ [PypiNext]_pypiVars
        => [\A f \in Files : dist[f] # NoFile /\ dist'[f] # dist[f] =>
              /\ dist'[f] = NoFile
              /\ \E h \in Holders : Uncommitted(h) /\ File(h) = f /\ Content(h) = dist[f]]_privateVars
  BY PypiStep DEF TakesOwn
<1> QED
  BY <1>1, <1>2, <1>3, PTL DEF PypiSpec, OnlyOwnFilesAreTakenBack

(* A page lists everything that was acknowledged before its directory was   *)
(* read (proxy.go:1016-1066).                                               *)
THEOREM PypiPagesComplete == PypiSpec => []PagesAreComplete
<1>1. PypiInit => PrivateInv
  BY PackagesInit, ReadersInit DEF PrivateInv
<1>2. PrivateInv /\ [PypiNext]_pypiVars => PrivateInv'
  BY PypiStep
<1>3. PrivateInv => PagesAreComplete
  BY DEF PrivateInv, ReadersInv, OnTheWay, PagesAreComplete, ReaderAt
<1> QED
  BY <1>1, <1>2, <1>3, PTL DEF PypiSpec

(* A request that knows of a private package never reaches the cache or the *)
(* upstream (proxy.go:255-266).                                             *)
THEOREM PypiPrivateShadows == PypiSpec => []PrivateShadowsUpstream
<1>1. PypiInit => PrivateInv
  BY PackagesInit, ReadersInit DEF PrivateInv
<1>2. PrivateInv /\ [PypiNext]_pypiVars => PrivateInv'
  BY PypiStep
<1>3. PrivateInv => PrivateShadowsUpstream
  BY DEF PrivateInv, ReadersInv, OnTheWay, PrivateShadowsUpstream
<1> QED
  BY <1>1, <1>2, <1>3, PTL DEF PypiSpec

-----------------------------------------------------------------------------
(* The cache.                                                               *)

RequestRecords == [query : Queries, cacheable : BOOLEAN, client : Clients]

(* An entry has the content its key names, and was chosen by nothing but    *)
(* what is in the key or the same for every client.                         *)
FitsKey(k, e) ==
  /\ k[4] \in {NoDigest, e.content}
  /\ \A pair \in e.chosen : \/ pair = <<"Accept-Encoding", "identity">>
                            \/ pair = <<"Accept", k[3]>>

HitsInv ==
  /\ entry \in [CacheKeys -> Entries \cup {NoEntry}]
  /\ hit \in [Readers -> Entries \cup {NoEntry}]
  /\ req \in [Readers -> RequestRecords]
  /\ \A k \in CacheKeys : entry[k] # NoEntry => FitsKey(k, entry[k])
  /\ \A r \in Readers : hit[r] # NoEntry =>
       reader[r].pc \in {"sent", "unlock"} /\ FitsKey(Key(r), hit[r])

CachedInv == PrivateInv /\ HitsInv

(* The placeholder of a request that is not there has the type of one.      *)
LEMMA NoRequestIsARequest == NoRequest \in RequestRecords
<1>1. PageRequest \in Queries
  BY DEF Queries
<1>2. (CHOOSE c \in Clients : TRUE) \in Clients
  BY ClientsAssumption
<1> QED
  BY <1>1, <1>2 DEF NoRequest, RequestRecords

(* The cache is empty and nobody has a hit when the model starts.           *)
LEMMA HitsInit == PypiInit => HitsInv
<1> SUFFICES ASSUME PypiInit PROVE HitsInv
  OBVIOUS
<1> QED
  BY NoRequestIsARequest DEF PypiInit, HitsInv

(* cacheKey of any request is one of the keys of the store (proxy.go:734).  *)
LEMMA KeyIsACacheKey ==
  ASSUME HitsInv, NEW r \in Readers
  PROVE  Key(r) \in CacheKeys
<1>1. req[r].query \in Queries /\ req[r].client \in Clients
  BY DEF HitsInv, RequestRecords
<1> QED
  BY <1>1 DEF Key, CacheKeys

(* Verified and ResponseAllowsStorage admit only answers that fit the key   *)
(* they are stored under (proxy.go:420, 485-498, 734; policy.go:147-164).   *)
LEMMA StoredFitsKey ==
  ASSUME NEW r \in Readers, NEW content, NEW vary,
         Verified(r, content), ResponseAllowsStorage(req[r].query.kind, vary)
  PROVE  FitsKey(Key(r), [content |-> content, chosen |-> Chosen(req[r].client, vary)])
<1> DEFINE e == [content |-> content, chosen |-> Chosen(req[r].client, vary)]
<1>1. Key(r)[4] = req[r].query.digest /\ Key(r)[3] = req[r].client["Accept"]
  BY DEF Key, cacheKey
<1>2. e.content = content /\ e.chosen = Chosen(req[r].client, vary)
  OBVIOUS
<1>3. Key(r)[4] \in {NoDigest, content}
  BY <1>1 DEF Verified
<1>4. ASSUME NEW pair \in Chosen(req[r].client, vary)
      PROVE  pair = <<"Accept-Encoding", "identity">> \/ pair = <<"Accept", Key(r)[3]>>
  <2>1. PICK header \in vary : pair = <<header, Sent(req[r].client, header)>>
    BY DEF Chosen
  <2>2. header \in {"Accept", "Accept-Encoding"}
    BY DEF ResponseAllowsStorage, allowedVary
  <2> QED
    BY <1>1, <2>1, <2>2 DEF Sent
<1> HIDE DEF e
<1> QED
  BY <1>2, <1>3, <1>4 DEF FitsKey, e

(* A step that leaves entries, requests and hits alone; the requests that   *)
(* have a hit stay where they are.                                          *)
LEMMA CacheUntouched ==
  ASSUME HitsInv, UNCHANGED <<entry, req, hit>>,
         \A r \in Readers : hit[r] # NoEntry => reader'[r].pc \in {"sent", "unlock"}
  PROVE  HitsInv'
  BY DEF HitsInv, Key

(* A request that has no hit moves on and gets none.                        *)
LEMMA MovesWithoutHit ==
  ASSUME CachedInv, UNCHANGED <<entry, req, hit>>, NEW r \in Readers,
         reader[r].pc \notin {"sent", "unlock"},
         \A q \in Readers \ {r} : reader'[q] = reader[q]
  PROVE  HitsInv'
<1>1. \A q \in Readers : hit[q] # NoEntry => q # r /\ reader'[q].pc \in {"sent", "unlock"}
  BY DEF CachedInv, HitsInv
<1> QED
  BY <1>1, CacheUntouched DEF CachedInv

(* A request begins, with a query that is on a page of the upstream.        *)
LEMMA Begins ==
  ASSUME CachedInv, UNCHANGED <<entry, hit>>, NEW r \in Readers, NEW x \in RequestRecords,
         reader[r].pc \notin {"sent", "unlock"},
         req' = [req EXCEPT ![r] = x],
         \A q \in Readers \ {r} : reader'[q] = reader[q]
  PROVE  HitsInv'
<1> USE DEF CachedInv, HitsInv
<1>1. req' \in [Readers -> RequestRecords]
  OBVIOUS
<1>2. \A q \in Readers : hit[q] # NoEntry =>
        q # r /\ reader'[q].pc \in {"sent", "unlock"} /\ Key(q)' = Key(q)
  BY DEF Key
<1> QED
  BY <1>1, <1>2

(* serveCached hands out the entry of the request's key (proxy.go:300-337). *)
LEMMA GetsHit ==
  ASSUME CachedInv, UNCHANGED <<entry, req>>, NEW r \in Readers, Hit(r),
         hit' = [hit EXCEPT ![r] = entry[Key(r)]],
         NEW pc \in {"sent", "unlock"}, Move(r, pc)
  PROVE  HitsInv'
<1> USE DEF CachedInv
<1>1. Key(r) \in CacheKeys /\ entry[Key(r)] # NoEntry
  BY KeyIsACacheKey DEF Hit
<1>2. entry[Key(r)] \in Entries /\ FitsKey(Key(r), entry[Key(r)])
  BY <1>1 DEF HitsInv
<1>3. hit' \in [Readers -> Entries \cup {NoEntry}]
  BY <1>2 DEF HitsInv
<1>4. reader'[r].pc = pc /\ \A q \in Readers \ {r} : reader'[q] = reader[q]
  BY DEF Move, PrivateInv, ReadersInv, ReaderRecords
<1>5. hit'[r] = entry[Key(r)] /\ \A q \in Readers \ {r} : hit'[q] = hit[q]
  BY DEF HitsInv
<1>6. \A q \in Readers : Key(q)' = Key(q)
  BY DEF Key
<1> QED
  BY <1>2, <1>3, <1>4, <1>5, <1>6 DEF HitsInv

(* A verified answer is stored (proxy.go:417-454, 482-535).                 *)
LEMMA FetchKeepsHits ==
  ASSUME CachedInv, NEW r \in Readers, NEW content, NEW vary, FetchAndStore(r, content, vary)
  PROVE  HitsInv'
<1> DEFINE e == [content |-> content, chosen |-> Chosen(req[r].client, vary)]
<1> USE DEF CachedInv
<1>1. Key(r) \in CacheKeys
  BY KeyIsACacheKey
<1>2. FitsKey(Key(r), e)
  BY StoredFitsKey DEF FetchAndStore
<1>3. e \in Entries /\ entry' = [entry EXCEPT ![Key(r)] = e] /\ UNCHANGED <<req, hit>>
  BY DEF FetchAndStore, Cache!Put
<1> HIDE DEF e
<1>4. entry' \in [CacheKeys -> Entries \cup {NoEntry}]
  BY <1>3 DEF HitsInv
<1>5. \A k \in CacheKeys : entry'[k] # NoEntry => FitsKey(k, entry'[k])
  BY <1>1, <1>2, <1>3 DEF HitsInv
<1>6. \A q \in Readers \ {r} : reader'[q] = reader[q]
  BY DEF FetchAndStore, Move, PrivateInv, ReadersInv
<1>7. hit[r] = NoEntry
  BY DEF FetchAndStore, ReaderAt, HitsInv
<1>8. \A q \in Readers : Key(q)' = Key(q)
  BY <1>3 DEF Key
<1> QED
  BY <1>3, <1>4, <1>5, <1>6, <1>7, <1>8 DEF HitsInv

(* The handler returns and forgets its request and its hit.                 *)
LEMMA AnsweredKeepsHits ==
  ASSUME CachedInv, NEW r \in Readers, Answered(r)
  PROVE  HitsInv'
<1> USE DEF CachedInv, Answered
<1>1. req' \in [Readers -> RequestRecords] /\ hit' \in [Readers -> Entries \cup {NoEntry}]
  BY NoRequestIsARequest DEF HitsInv
<1>2. hit'[r] = NoEntry /\ \A q \in Readers \ {r} :
        hit'[q] = hit[q] /\ req'[q] = req[q] /\ reader'[q] = reader[q]
  BY DEF HitsInv, PrivateInv, ReadersInv
<1>3. \A q \in Readers \ {r} : Key(q)' = Key(q)
  BY <1>2 DEF Key
<1> QED
  BY <1>1, <1>2, <1>3 DEF HitsInv

(* Every step keeps what is known of entries and hits: the private packages *)
(* do not touch them, and each step of the cached path is one of the above. *)
LEMMA HitsStep ==
  ASSUME CachedInv, [PypiNext]_pypiVars
  PROVE  HitsInv'
<1> USE DEF CachedInv
<1>0. reader \in [Readers -> ReaderRecords] /\ PageRequest \in Queries /\ FileRequests \subseteq Queries
  BY DEF PrivateInv, ReadersInv, Queries
<1>m. ASSUME NEW r \in Readers, NEW pc, Move(r, pc)
      PROVE  \A q \in Readers \ {r} : reader'[q] = reader[q]
  BY <1>0, <1>m DEF Move
<1>1. ASSUME PrivateStep, UNCHANGED proxyVars PROVE HitsInv'
  <2>1. UNCHANGED <<entry, req, hit>>
    BY <1>1 DEF proxyVars
  <2>2. CASE UNCHANGED reader
    <3>1. \A r \in Readers : hit[r] # NoEntry => reader'[r].pc \in {"sent", "unlock"}
      BY <2>2 DEF HitsInv
    <3> QED
      BY <2>1, <3>1, CacheUntouched
  <2>3. ASSUME NEW r \in Readers, ReadDirectory(r) \/ ListingStep(r) PROVE HitsInv'
    <3>1. reader[r].pc \notin {"sent", "unlock"}
      BY <2>3 DEF ReadDirectory, ListingStep, ReadSidecar, NoSidecar, HashFile, HashFails, Listed,
        SendPage, ReaderAt
    <3>2. \A q \in Readers \ {r} : reader'[q] = reader[q]
      BY <1>0, <2>3 DEF ReadDirectory, ListingStep, ReadSidecar, NoSidecar, HashFile, HashFails,
        Listed, ListFails, SendPage
    <3> QED
      BY <2>1, <3>1, <3>2, MovesWithoutHit
  <2>4. ASSUME NEW h \in Holders, UploadRequest(h) \/ UploadStep(h) \/ EnterFile(h)
        PROVE  UNCHANGED reader
    BY <2>4 DEF UploadRequest, UploadStep, UploadAdmitted, UploadRefused, BadForm, LockFile,
      EnterFile, StatConflict, CopyToTemp, StoreFails, Link, LinkConflict, RemoveTemp,
      RemoveTempFails, OpenSidecar, WriteSidecar, WriteSidecarFails, CommitUpload
  <2>5. ASSUME NEW f \in Files, NEW c \in Contents, ForeignFile(f, c) PROVE UNCHANGED reader
    BY <2>5 DEF ForeignFile
  <2> QED
    BY <1>1, <2>2, <2>3, <2>4, <2>5 DEF PrivateStep
<1>2. ASSUME NEW r \in Readers, NEW client \in Clients, NEW cacheable \in BOOLEAN,
             PageFromUpstream(r, client, cacheable)
      PROVE  HitsInv'
  <2> DEFINE x == [query |-> PageRequest, cacheable |-> cacheable, client |-> client]
  <2>1. x \in RequestRecords
    BY <1>0 DEF RequestRecords
  <2>2. /\ UNCHANGED <<entry, hit>> /\ req' = [req EXCEPT ![r] = x]
        /\ reader[r].pc = "upstream" /\ Move(r, "lookup")
    BY <1>2 DEF PageFromUpstream, ReaderAt
  <2> HIDE DEF x
  <2> QED
    BY <1>m, <2>1, <2>2, Begins
<1>3. ASSUME NEW r \in Readers, NEW q \in FileRequests, NEW client \in Clients,
             NEW cacheable \in BOOLEAN, RequestFile(r, q, client, cacheable)
      PROVE  HitsInv'
  <2> DEFINE x == [query |-> q, cacheable |-> cacheable, client |-> client]
  <2>1. x \in RequestRecords
    BY <1>0 DEF RequestRecords
  <2>2. /\ UNCHANGED <<entry, hit>> /\ req' = [req EXCEPT ![r] = x]
        /\ reader[r].pc = "idle" /\ Move(r, "lookup")
    BY <1>3 DEF RequestFile, ReaderAt
  <2> HIDE DEF x
  <2> QED
    BY <1>m, <2>1, <2>2, Begins
<1>4. ASSUME NEW r \in Readers, LookupHit(r) \/ RecheckHit(r) PROVE HitsInv'
  BY <1>4, GetsHit DEF LookupHit, RecheckHit
<1>5. ASSUME NEW r \in Readers, LookupMiss(r) \/ EnterKey(r) \/ Miss(r) \/ FetchOnly(r)
      PROVE  HitsInv'
  <2>1. /\ reader[r].pc \notin {"sent", "unlock"} /\ UNCHANGED <<entry, req, hit>>
        /\ \E pc \in BeyondLocal : Move(r, pc)
    BY <1>5 DEF LookupMiss, EnterKey, Miss, FetchOnly, ReaderAt, BeyondLocal
  <2> QED
    BY <1>m, <2>1, MovesWithoutHit
<1>6. ASSUME NEW r \in Readers, NEW content, NEW vary, FetchAndStore(r, content, vary)
      PROVE  HitsInv'
  BY <1>6, FetchKeepsHits
<1>7. ASSUME NEW r \in Readers, Answered(r) PROVE HitsInv'
  BY <1>7, AnsweredKeepsHits
<1>8. ASSUME NEW k \in CacheKeys, Expire(k) PROVE HitsInv'
  BY <1>8 DEF Expire, Cache!Drop, HitsInv, Key
<1>9. CASE PypiCrash
  BY <1>9, NoRequestIsARequest DEF PypiCrash, HitsInv
<1>10. CASE UNCHANGED pypiVars
  <2>1. UNCHANGED <<entry, req, hit, reader>>
    BY <1>10 DEF pypiVars, privateVars, proxyVars
  <2> QED
    BY <2>1 DEF HitsInv, Key
<1>11. ASSUME NEW r \in Readers, CachedStep(r) PROVE HitsInv'
  BY <1>2, <1>4, <1>5, <1>6, <1>7, <1>11 DEF CachedStep
<1> QED
  BY <1>1, <1>3, <1>5, <1>8, <1>9, <1>10, <1>11 DEF PypiNext

(* The hash that a rewritten link carries is every hash the page gave.      *)
LEMMA LinksKeepTheirPromise ==
  ASSUME NEW q \in Queries, q.kind = "file", NEW c, q.digest \in {NoDigest, c}
  PROVE  Promised(q.link) \subseteq {c}
<1>1. q # PageRequest
  BY DEF PageRequest
<1>2. PICK l \in Links : Rewritten(l) /\ q \in {proxyFileURL(l), MetadataOf(proxyFileURL(l))}
  BY <1>1 DEF Queries, FileRequests
<1>3. q = proxyFileURL(l)
  BY <1>2 DEF MetadataOf, proxyFileURL
<1>4. q.link = l /\ q.digest = LinkDigest(l)
  BY <1>3 DEF proxyFileURL
<1> QED
  BY <1>2, <1>4 DEF Promised, Rewritten, LinkDigest

(* Packages, pages and hits together are inductive.                         *)
LEMMA CachedInvariant ==
  /\ PypiInit => CachedInv
  /\ CachedInv /\ [PypiNext]_pypiVars => CachedInv'
<1>1. PypiInit => CachedInv
  BY PackagesInit, ReadersInit, HitsInit DEF CachedInv, PrivateInv
<1>2. CachedInv /\ [PypiNext]_pypiVars => CachedInv'
  BY HitsStep, PypiStep DEF CachedInv
<1> QED
  BY <1>1, <1>2

(* What the cache serves for a link has the sha256 the page gave            *)
(* (proxy.go:613-638, 488-498, 734).                                        *)
THEOREM PypiHitsMatchPage == PypiSpec => []HitsMatchPage
<1>1. CachedInv => HitsMatchPage
  <2> SUFFICES ASSUME CachedInv, NEW r \in Readers, hit[r] # NoEntry, req[r].query.kind = "file"
               PROVE  Promised(req[r].query.link) \subseteq {hit[r].content}
    BY DEF HitsMatchPage
  <2>1. req[r].query \in Queries /\ FitsKey(Key(r), hit[r])
    BY DEF CachedInv, HitsInv, RequestRecords
  <2>2. req[r].query.digest \in {NoDigest, hit[r].content}
    BY <2>1 DEF FitsKey, Key, cacheKey
  <2> DEFINE q == req[r].query
             c == hit[r].content
  <2>3. q \in Queries /\ q.kind = "file" /\ q.digest \in {NoDigest, c}
    BY <2>1, <2>2
  <2> HIDE DEF q, c
  <2>4. Promised(q.link) \subseteq {c}
    BY <2>3, LinksKeepTheirPromise
  <2> QED
    BY <2>4 DEF q, c
<1> QED
  BY CachedInvariant, <1>1, PTL DEF PypiSpec

(* A cached answer is served only to clients for whom the upstream would    *)
(* have chosen it (proxy.go:275, 420, 485, 557; policy.go:147-164).         *)
THEOREM PypiHitsFitTheClient == PypiSpec => []HitsFitTheClient
<1>1. CachedInv => HitsFitTheClient
  <2> SUFFICES ASSUME CachedInv, NEW r \in Readers, hit[r] # NoEntry, NEW pair \in hit[r].chosen
               PROVE  Sent(req[r].client, pair[1]) = pair[2]
    BY DEF HitsFitTheClient
  <2>1. \/ pair = <<"Accept-Encoding", "identity">>
        \/ pair = <<"Accept", req[r].client["Accept"]>>
    BY DEF CachedInv, HitsInv, FitsKey, Key, cacheKey
  <2> QED
    BY <2>1 DEF Sent
<1> QED
  BY CachedInvariant, <1>1, PTL DEF PypiSpec

-----------------------------------------------------------------------------
(* The ledger.  Its commits and the restart add up sizes that an int64 must *)
(* hold, so what is proved of it is proved of a directory whose files do    *)
(* fit one.                                                                 *)

FilesFit == PrivateSize <= MaxInt

Stored == Total(Files, [f \in Files |-> DistBytes(f)])
Pending == Total(Holders, [h \in Holders |-> UncommittedBytes(h)])
InTemps == Total(Holders, [h \in Holders |-> TempBytes(h)])

(* An upload holds a reservation that is larger than its file.              *)
UploadsReserved ==
  \A h \in Holders : upload[h].pc # "idle" =>
    ~reservation[h].done /\ Size(h) < reservation[h].bytes

LedgerInv ==
  /\ ControllerInv
  /\ leftover \in Nat /\ uncounted \in Nat
  /\ UploadsReserved
  /\ committedBytes + uncounted + Pending = Stored + leftover

(* What is stored and what is pending are numbers of bytes.                 *)
LEMMA SumsAreNat ==
  ASSUME PackagesInv
  PROVE  /\ Stored \in Nat /\ Pending \in Nat /\ InTemps \in Nat
         /\ \A f \in Files : DistBytes(f) \in Nat
         /\ \A h \in Holders : UncommittedBytes(h) \in Nat /\ UncommittedBytes(h) <= Pending
<1> DEFINE d == [f \in Files |-> DistBytes(f)]
           u == [h \in Holders |-> UncommittedBytes(h)]
           t == [h \in Holders |-> TempBytes(h)]
<1>1. \A f \in Files : DistBytes(f) \in Nat /\ d[f] \in Nat
  BY PackagesAssumption DEF DistBytes, PackagesInv, PackagesTypeOK
<1>2. \A h \in Holders : upload[h].pc # "idle" => Size(h) \in Nat
  BY PackagesAssumption DEF Size, PackagesInv, PackagesTypeOK
<1>3. \A h \in Holders : u[h] = UncommittedBytes(h) /\ u[h] \in Nat /\ t[h] \in Nat
  BY <1>2 DEF UncommittedBytes, Uncommitted, TempBytes
<1> HIDE DEF d, u, t
<1>4. Total(Files, d) \in Nat
  BY <1>1, PackagesAssumption, TotalType
<1>5. Total(Holders, u) \in Nat /\ Total(Holders, t) \in Nat
  BY <1>3, HoldersAssumption, TotalType
<1>6. \A h \in Holders : u[h] <= Total(Holders, u)
  BY <1>3, HoldersAssumption, TotalBoundsTerm
<1> QED
  BY <1>1, <1>3, <1>4, <1>5, <1>6 DEF Stored, Pending, InTemps, d, u, t

(* One filename changes.                                                    *)
LEMMA StoredUpdate ==
  ASSUME PackagesInv, NEW f \in Files, NEW v \in Contents \cup {NoFile},
         dist' = [dist EXCEPT ![f] = v]
  PROVE  /\ Stored' = Stored - DistBytes(f) + (IF v = NoFile THEN 0 ELSE SizeOf[v])
         /\ Stored' \in Nat
<1> DEFINE d == [x \in Files |-> DistBytes(x)]
           e == [x \in Files |-> IF x = f THEN IF v = NoFile THEN 0 ELSE SizeOf[v] ELSE DistBytes(x)]
<1>1. \A x \in Files : d[x] = DistBytes(x) /\ d[x] \in Nat
  BY SumsAreNat
<1>2. \A x \in Files : e[x] \in Nat
  BY <1>1, PackagesAssumption
<1>3. e[f] = (IF v = NoFile THEN 0 ELSE SizeOf[v]) /\ \A x \in Files \ {f} : d[x] = e[x]
  OBVIOUS
<1>4. Stored' = Total(Files, e)
  <2>1. \A x \in Files : DistBytes(x)' = e[x]
    BY DEF DistBytes, PackagesInv, PackagesTypeOK
  <2>2. [x \in Files |-> DistBytes(x)'] = e
    BY <2>1
  <2> QED
    BY <2>2 DEF Stored
<1>5. Stored = Total(Files, d)
  BY DEF Stored
<1> HIDE DEF d, e
<1>6. Total(Files, e) = Total(Files, d) - d[f] + e[f]
  <2>1. IsFiniteSet(Files) /\ (\A x \in Files : d[x] \in Nat) /\ \A x \in Files \ {f} : d[x] = e[x]
    BY <1>1, <1>3, PackagesAssumption
  <2> QED
    BY <1>2, <2>1, TotalUpdate
<1>7. Total(Files, e) \in Nat
  BY <1>2, PackagesAssumption, TotalType
<1> QED
  BY <1>1, <1>3, <1>4, <1>5, <1>6, <1>7

(* One upload moves.                                                        *)
PendingOf(v) == IF v.pc \in {"linked", "describe", "sidecar", "commit"} THEN SizeOf[v.content] ELSE 0

LEMMA PendingUpdate ==
  ASSUME PackagesInv, NEW h \in Holders, NEW v \in UploadRecords,
         v.pc # "idle" => v.content \in Contents,
         upload' = [upload EXCEPT ![h] = v]
  PROVE  /\ Pending' = Pending - UncommittedBytes(h) + PendingOf(v)
         /\ PendingOf(v) \in Nat
<1> DEFINE u == [x \in Holders |-> UncommittedBytes(x)]
           w == [x \in Holders |-> IF x = h THEN PendingOf(v) ELSE UncommittedBytes(x)]
<1>1. \A x \in Holders : u[x] = UncommittedBytes(x) /\ u[x] \in Nat
  BY SumsAreNat
<1>2. PendingOf(v) \in Nat
  BY PackagesAssumption DEF PendingOf, UploadRecords
<1>3. \A x \in Holders : w[x] \in Nat
  BY <1>1, <1>2
<1>4. w[h] = PendingOf(v) /\ \A x \in Holders \ {h} : u[x] = w[x]
  OBVIOUS
<1>5. Pending' = Total(Holders, w)
  <2>1. \A x \in Holders : UncommittedBytes(x)' = w[x]
    BY DEF UncommittedBytes, Uncommitted, Size, Content, PendingOf, PackagesInv, PackagesTypeOK
  <2>2. [x \in Holders |-> UncommittedBytes(x)'] = w
    BY <2>1
  <2> QED
    BY <2>2 DEF Pending
<1>6. Pending = Total(Holders, u)
  BY DEF Pending
<1> HIDE DEF u, w
<1>7. Total(Holders, w) = Total(Holders, u) - u[h] + w[h]
  BY <1>1, <1>3, <1>4, HoldersAssumption, TotalUpdate
<1> QED
  BY <1>1, <1>2, <1>4, <1>5, <1>6, <1>7

(* One upload moves on, and the books still balance.                        *)
LEMMA LedgerMoves ==
  ASSUME LedgerInv, PackagesInv, NEW h \in Holders, NEW v \in UploadRecords,
         v.pc # "idle" => v.content \in Contents,
         upload' = [upload EXCEPT ![h] = v],
         ControllerInv',
         \A x \in Holders : x # h => reservation'[x] = reservation[x],
         v.pc # "idle" => ~reservation'[h].done /\ SizeOf[v.content] < reservation'[h].bytes,
         leftover' \in Nat, uncounted' \in Nat, Stored' \in Nat,
         committedBytes' + uncounted' + (Pending - UncommittedBytes(h) + PendingOf(v))
           = Stored' + leftover'
  PROVE  LedgerInv'
<1>1. Pending' = Pending - UncommittedBytes(h) + PendingOf(v)
  BY PendingUpdate
<1>2. UploadsReserved'
  BY DEF LedgerInv, UploadsReserved, PackagesInv, PackagesTypeOK, Size, Content
<1> QED
  BY <1>1, <1>2 DEF LedgerInv

(* Nothing the ledger counts changes.                                       *)
LedgerIdle == UNCHANGED <<controllerVars, dist, leftover, upload, uncounted>>

LEMMA LedgerStays ==
  ASSUME LedgerInv, LedgerIdle
  PROVE  LedgerInv'
<1> USE DEF LedgerInv, LedgerIdle
<1>1. ControllerInv'
  BY ControllerStutter
<1>2. \A h \in Holders : UncommittedBytes(h)' = UncommittedBytes(h)
  BY DEF UncommittedBytes, Uncommitted, Size, Content
<1>3. \A f \in Files : DistBytes(f)' = DistBytes(f)
  BY DEF DistBytes
<1>4. Pending' = Pending /\ Stored' = Stored
  BY <1>2, <1>3 DEF Pending, Stored
<1>5. UploadsReserved'
  BY DEF UploadsReserved, Size, Content, controllerVars
<1> QED
  BY <1>1, <1>4, <1>5 DEF controllerVars

(* The handler of an upload returns and releases what it holds.             *)
LEMMA ReleasedByReturn ==
  ASSUME LedgerInv, NEW h \in Holders, Return(h)
  PROVE  /\ ControllerInv' /\ committedBytes' = committedBytes
         /\ \A x \in Holders : x # h => reservation'[x] = reservation[x]
         /\ upload' = [upload EXCEPT ![h] = IdleUpload]
<1> USE DEF LedgerInv, Return
<1>1. ControllerInv'
  BY ReleaseInv
<1>2. /\ committedBytes' = committedBytes
      /\ \A x \in Holders : x # h => reservation'[x] = reservation[x]
  BY DEF Release, Settle, ledger, ControllerInv, ControllerTypeOK
<1> QED
  BY <1>1, <1>2

(* The last step of an upload: its commit is accepted, for exactly the size *)
(* of its file, which fits.                                                 *)
LEMMA CommitKeepsLedger ==
  ASSUME LedgerInv, PackagesInv, FilesFit, NEW h \in Holders, CommitUpload(h)
  PROVE  LedgerInv'
<1> USE DEF LedgerInv
<1>1. /\ ~reservation[h].done /\ Size(h) < reservation[h].bytes
      /\ Size(h) \in Nat /\ UncommittedBytes(h) = Size(h)
  BY PackagesAssumption DEF CommitUpload, At, UploadsReserved, UncommittedBytes, Uncommitted, Size,
     PackagesInv, PackagesTypeOK
<1>2. /\ reservation[h].bytes \in 0..MaxInt /\ committedBytes \in 0..MaxInt
      /\ reservation \in [Holders -> Reservations]
  BY DEF ControllerInv, ControllerTypeOK, Reservations
<1>3. Size(h) \in 0..MaxInt /\ CommitAccepted(h, Size(h), 0)
  BY <1>1, <1>2, WidthAssumption DEF CommitAccepted
<1>4. ControllerInv'
  BY <1>3, CommitInv DEF CommitUpload
<1>5. /\ Stored \in Nat /\ Pending \in Nat /\ InTemps \in Nat /\ UncommittedBytes(h) <= Pending
  BY SumsAreNat
<1>6. committedBytes + Size(h) <= MaxInt
  <2>1. Stored + leftover + InTemps <= MaxInt
    BY DEF FilesFit, PrivateSize, Stored, InTemps
  <2> QED
    BY <1>1, <1>2, <1>5, <2>1, WidthAssumption
<1>7. committedBytes' = committedBytes + Size(h)
  <2>1. committedBytes' = saturatingAdd(committedBytes, Size(h))
    BY <1>2, <1>3 DEF CommitUpload, Commit
  <2> QED
    BY <1>2, <1>3, <1>6, <2>1, SaturatingAddType
<1>8. /\ upload' = [upload EXCEPT ![h] = IdleUpload] /\ IdleUpload \in UploadRecords
      /\ IdleUpload.pc = "idle" /\ PendingOf(IdleUpload) = 0
      /\ UNCHANGED <<dist, leftover, uncounted>>
      /\ \A x \in Holders : x # h => reservation'[x] = reservation[x]
  BY <1>2, <1>3 DEF CommitUpload, Commit, Settle, IdleUpload, UploadRecords, UploadPCs, PendingOf
<1>9. Stored' = Stored
  BY <1>8 DEF Stored, DistBytes
<1>10. committedBytes' + uncounted' + (Pending - UncommittedBytes(h) + PendingOf(IdleUpload))
         = Stored' + leftover'
  BY <1>1, <1>2, <1>5, <1>7, <1>8, <1>9
<1> QED
  BY <1>4, <1>5, <1>8, <1>9, <1>10, LedgerMoves

(* Every step of an upload keeps the books.                                 *)
LEMMA UploadKeepsLedger ==
  ASSUME LedgerInv, PackagesInv, FilesFit, NEW h \in Holders,
         UploadRequest(h) \/ UploadStep(h) \/ EnterFile(h)
  PROVE  LedgerInv'
<1> DEFINE Balance == committedBytes + uncounted + Pending = Stored + leftover
<1>0. /\ ControllerInv /\ UploadsReserved /\ Balance
      /\ leftover \in Nat /\ uncounted \in Nat /\ Stored \in Nat /\ Pending \in Nat
      /\ committedBytes \in 0..MaxInt /\ reservation \in [Holders -> Reservations]
      /\ UncommittedBytes(h) \in Nat
  BY SumsAreNat DEF LedgerInv, ControllerInv, ControllerTypeOK
<1>r. /\ upload[h] \in UploadRecords /\ IdleUpload \in UploadRecords
      /\ IdleUpload.pc = "idle" /\ PendingOf(IdleUpload) = 0
      /\ PendingOf(upload[h]) = UncommittedBytes(h)
      /\ upload[h].pc # "idle" => Content(h) \in Contents /\ Size(h) \in Nat /\ File(h) \in Files
      /\ upload \in [Holders -> UploadRecords]
  BY PackagesAssumption DEF PackagesInv, PackagesTypeOK, UploadRecords, UploadPCs, IdleUpload,
     PendingOf, UncommittedBytes, Uncommitted, Size, Content
<1>a. ASSUME NEW pc \in UploadPCs, pc # "idle", upload[h].pc # "idle", Goto(h, pc),
             UNCHANGED <<controllerVars, dist, leftover, uncounted>>,
             Uncommitted(h) <=> pc \in {"linked", "describe", "sidecar", "commit"}
      PROVE  LedgerInv'
  <2> DEFINE v == [upload[h] EXCEPT !.pc = pc]
  <2>1. upload' = [upload EXCEPT ![h] = v]
    BY <1>a DEF Goto
  <2>2. v \in UploadRecords /\ v.pc = pc /\ v.content = Content(h)
    BY <1>r DEF UploadRecords, Content
  <2> HIDE DEF v
  <2>3. PendingOf(v) = UncommittedBytes(h)
    BY <1>a, <2>2 DEF PendingOf, UncommittedBytes, Size
  <2>4. Stored' = Stored /\ ControllerInv'
    BY <1>0, <1>a, ControllerStutter DEF Stored, DistBytes
  <2>5. ~reservation'[h].done /\ SizeOf[v.content] < reservation'[h].bytes
    BY <1>0, <1>a, <2>2 DEF UploadsReserved, Size, controllerVars
  <2>6. /\ \A x \in Holders : reservation'[x] = reservation[x]
        /\ committedBytes' + uncounted' + (Pending - UncommittedBytes(h) + PendingOf(v))
             = Stored' + leftover'
    BY <1>0, <1>a, <2>3, <2>4 DEF controllerVars
  <2> QED
    BY <1>0, <1>a, <1>r, <2>1, <2>2, <2>4, <2>5, <2>6, LedgerMoves
<1>b. ASSUME NEW n \in Nat, ~Uncommitted(h), Return(h), UNCHANGED dist,
             leftover' = leftover + n, uncounted' = uncounted + n
      PROVE  LedgerInv'
  <2>1. /\ ControllerInv' /\ committedBytes' = committedBytes
        /\ \A x \in Holders : x # h => reservation'[x] = reservation[x]
        /\ upload' = [upload EXCEPT ![h] = IdleUpload]
    BY <1>b, ReleasedByReturn
  <2>2. Stored' = Stored /\ UncommittedBytes(h) = 0
    BY <1>b DEF Stored, DistBytes, UncommittedBytes
  <2>3. committedBytes' + uncounted' + (Pending - UncommittedBytes(h) + PendingOf(IdleUpload))
          = Stored' + leftover'
    BY <1>0, <1>b, <1>r, <2>1, <2>2
  <2>4. leftover' \in Nat /\ uncounted' \in Nat /\ Stored' \in Nat
    BY <1>0, <1>b, <2>2
  <2> QED
    BY <1>r, <2>1, <2>3, <2>4, LedgerMoves
<1>c. ASSUME NEW n \in Nat, NEW target \in BOOLEAN, Uncommitted(h), Return(h), TakeBack(h, target),
             leftover' = leftover + n, uncounted' = uncounted + n + BytesIf(h, target)
      PROVE  LedgerInv'
  <2>1. /\ ControllerInv' /\ committedBytes' = committedBytes
        /\ \A x \in Holders : x # h => reservation'[x] = reservation[x]
        /\ upload' = [upload EXCEPT ![h] = IdleUpload]
    BY <1>c, ReleasedByReturn
  <2>2. /\ File(h) \in Files /\ dist[File(h)] = Content(h) /\ Content(h) \in Contents
        /\ Content(h) # NoFile /\ Size(h) \in Nat /\ UncommittedBytes(h) = Size(h)
    BY <1>c, <1>r, PackagesAssumption DEF PackagesInv, LinkedAlone, Uncommitted, UncommittedBytes
  <2>3. DistBytes(File(h)) = Size(h)
    BY <2>2 DEF DistBytes, Size
  <2>4. CASE target
    <3>1. dist' = [dist EXCEPT ![File(h)] = Content(h)]
      BY <1>c, <2>2, <2>4 DEF TakeBack
    <3>2. Stored' = Stored - Size(h) + Size(h) /\ Stored' \in Nat
      BY <2>2, <2>3, <3>1, StoredUpdate DEF Size
    <3>3. uncounted' = uncounted + n + Size(h)
      BY <1>c, <2>4 DEF BytesIf
    <3>4. committedBytes' + uncounted' + (Pending - UncommittedBytes(h) + PendingOf(IdleUpload))
            = Stored' + leftover'
      BY <1>0, <1>c, <1>r, <2>1, <2>2, <3>2, <3>3
    <3>5. leftover' \in Nat /\ uncounted' \in Nat
      BY <1>0, <1>c, <2>2, <3>3
    <3> QED
      BY <1>r, <2>1, <3>2, <3>4, <3>5, LedgerMoves
  <2>5. CASE ~target
    <3>1. dist' = [dist EXCEPT ![File(h)] = NoFile]
      BY <1>c, <2>2, <2>5 DEF TakeBack
    <3>2. Stored' = Stored - Size(h) + 0 /\ Stored' \in Nat
      BY <2>2, <2>3, <3>1, StoredUpdate
    <3>3. uncounted' = uncounted + n
      BY <1>0, <1>c, <2>5 DEF BytesIf
    <3>4. committedBytes' + uncounted' + (Pending - UncommittedBytes(h) + PendingOf(IdleUpload))
            = Stored' + leftover'
      BY <1>0, <1>c, <1>r, <2>1, <2>2, <3>2, <3>3
    <3>5. leftover' \in Nat /\ uncounted' \in Nat
      BY <1>0, <1>c, <2>2, <3>3
    <3> QED
      BY <1>r, <2>1, <3>2, <3>4, <3>5, LedgerMoves
  <2> QED
    BY <2>4, <2>5
<1>d. ASSUME NEW stays \in MayStay, upload[h].pc # "idle" PROVE BytesIf(h, stays) \in Nat /\ stays \in BOOLEAN
  BY <1>d, <1>r DEF BytesIf, MayStay
<1>1. ASSUME NEW f \in Files, NEW c \in Contents, NEW length \in Sizes, NEW free \in FreeReadings,
             UploadAdmitted(h, f, c, length, free)
      PROVE  LedgerInv'
  <2> DEFINE v == [pc |-> "form", file |-> f, content |-> c]
  <2>1. v \in UploadRecords /\ v.pc = "form" /\ v.content = c /\ PendingOf(v) = 0
    BY DEF UploadRecords, UploadPCs, PendingOf
  <2>2. upload' = [upload EXCEPT ![h] = v] /\ UNCHANGED <<dist, leftover, uncounted>>
    BY <1>1 DEF UploadAdmitted, files
  <2> HIDE DEF v
  <2>3. length \in -1..MaxInt /\ free \in 0..MaxInt
    BY InputsAssumption, WidthAssumption
  <2>4. ControllerInv'
    BY <1>0, <1>1, <2>3, ReserveGrantedInv DEF UploadAdmitted
  <2>5. /\ committedBytes' = committedBytes
        /\ reservation' = [reservation EXCEPT ![h] = [bytes |-> length, done |-> FALSE]]
        /\ SizeOf[c] < length
    BY <1>1, <2>3, PackagesAssumption DEF UploadAdmitted, ReserveGranted
  <2>6. /\ ~reservation'[h].done /\ SizeOf[v.content] < reservation'[h].bytes
        /\ \A x \in Holders : x # h => reservation'[x] = reservation[x]
    BY <1>0, <2>1, <2>5
  <2>7. Stored' = Stored /\ UncommittedBytes(h) = 0
    BY <1>1, <2>2 DEF Stored, DistBytes, UncommittedBytes, Uncommitted, UploadAdmitted, At
  <2>8. committedBytes' + uncounted' + (Pending - UncommittedBytes(h) + PendingOf(v))
          = Stored' + leftover'
    BY <1>0, <2>1, <2>2, <2>5, <2>7
  <2> QED
    BY <1>0, <2>1, <2>2, <2>4, <2>6, <2>7, <2>8, LedgerMoves
<1>2. ASSUME NEW length \in Requests, NEW free \in FreeReadings, UploadRefused(h, length, free)
      PROVE  LedgerInv'
  <2>1. length \in -1..MaxInt
    BY InputsAssumption, WidthAssumption DEF Requests
  <2>2. ControllerInv' /\ UNCHANGED ledger
    BY <1>0, <1>2, <2>1, RecordBypassInv DEF UploadRefused, ReserveRefused, RecordBypass
  <2>3. /\ upload[h].pc = "idle" /\ UNCHANGED <<dist, leftover, uncounted>>
        /\ upload' = [upload EXCEPT ![h] = upload[h]]
    BY <1>2, <1>r DEF UploadRefused, At, files, aux
  <2>4. Stored' = Stored
    BY <2>3 DEF Stored, DistBytes
  <2>5. committedBytes' + uncounted' + (Pending - UncommittedBytes(h) + PendingOf(upload[h]))
          = Stored' + leftover'
    BY <1>0, <1>r, <2>2, <2>3, <2>4 DEF ledger
  <2> QED
    BY <1>0, <1>r, <2>2, <2>3, <2>4, <2>5, LedgerMoves DEF ledger
<1>3. CASE BadForm(h) \/ StatConflict(h)
  <2>1. ~Uncommitted(h) /\ Return(h) /\ UNCHANGED dist
    BY <1>3 DEF BadForm, StatConflict, Fail, At, Uncommitted, files
  <2>2. leftover' = leftover + 0 /\ uncounted' = uncounted + 0
    BY <1>0, <1>3 DEF BadForm, StatConflict, files, aux
  <2> QED
    BY <1>b, <2>1, <2>2
<1>4. CASE LockFile(h) \/ EnterFile(h) \/ CopyToTemp(h) \/ RemoveTemp(h)
  BY <1>a, <1>4 DEF LockFile, EnterFile, CopyToTemp, RemoveTemp, At, Uncommitted, UploadPCs, files, aux
<1>5. CASE OpenSidecar(h) \/ WriteSidecar(h)
  BY <1>a, <1>5 DEF OpenSidecar, WriteSidecar, At, Uncommitted, UploadPCs, aux
<1>6. CASE StoreFails(h) \/ LinkConflict(h)
  <2>1. /\ ~Uncommitted(h) /\ upload[h].pc # "idle" /\ Return(h) /\ UNCHANGED dist
        /\ DropTemp(h) \/ UNCHANGED <<leftover, uncounted>>
    BY <1>6 DEF StoreFails, LinkConflict, Fail, At, Uncommitted
  <2>2. \E n \in Nat : leftover' = leftover + n /\ uncounted' = uncounted + n
    <3>1. CASE DropTemp(h)
      BY <1>d, <2>1, <3>1 DEF DropTemp
    <3>2. CASE UNCHANGED <<leftover, uncounted>>
      <4>1. leftover' = leftover + 0 /\ uncounted' = uncounted + 0
        BY <1>0, <3>2
      <4> QED
        BY <4>1
    <3> QED
      BY <2>1, <3>1, <3>2
  <2> QED
    BY <1>b, <2>1, <2>2
<1>7. CASE Link(h)
  <2> DEFINE v == [upload[h] EXCEPT !.pc = "linked"]
  <2>1. /\ upload[h].pc = "link" /\ dist[File(h)] = NoFile
        /\ dist' = [dist EXCEPT ![File(h)] = Content(h)]
        /\ UNCHANGED <<controllerVars, leftover, uncounted>>
        /\ upload' = [upload EXCEPT ![h] = v]
    BY <1>7 DEF Link, At, Goto, aux
  <2>2. v \in UploadRecords /\ v.pc = "linked" /\ v.content = Content(h)
    BY <1>r DEF UploadRecords, UploadPCs, Content
  <2> HIDE DEF v
  <2>3. /\ Content(h) \in Contents /\ File(h) \in Files /\ Content(h) # NoFile
        /\ Size(h) \in Nat /\ UncommittedBytes(h) = 0 /\ DistBytes(File(h)) = 0
        /\ PendingOf(v) = Size(h)
    BY <1>r, <2>1, <2>2, PackagesAssumption DEF UncommittedBytes, Uncommitted, DistBytes, PendingOf, Size
  <2>4. Stored' = Stored - 0 + Size(h) /\ Stored' \in Nat
    BY <2>1, <2>3, StoredUpdate DEF Size
  <2>5. ControllerInv' /\ ~reservation'[h].done /\ SizeOf[v.content] < reservation'[h].bytes
    BY <1>0, <2>1, <2>2, ControllerStutter DEF UploadsReserved, Size, controllerVars
  <2>6. /\ \A x \in Holders : reservation'[x] = reservation[x]
        /\ committedBytes' + uncounted' + (Pending - UncommittedBytes(h) + PendingOf(v))
             = Stored' + leftover'
    BY <1>0, <2>1, <2>3, <2>4 DEF controllerVars
  <2> QED
    BY <1>0, <2>1, <2>2, <2>3, <2>4, <2>5, <2>6, LedgerMoves
<1>8. CASE RemoveTempFails(h)
  <2>1. PICK temp \in MayStay, target \in MayStay :
          /\ TakeBack(h, target)
          /\ leftover' = leftover + BytesIf(h, temp)
          /\ uncounted' = uncounted + BytesIf(h, temp) + BytesIf(h, target)
    BY <1>8 DEF RemoveTempFails
  <2>2. Uncommitted(h) /\ upload[h].pc # "idle" /\ Return(h)
    BY <1>8 DEF RemoveTempFails, At, Uncommitted, Fail
  <2> QED
    BY <1>c, <1>d, <2>1, <2>2
<1>9. CASE WriteSidecarFails(h)
  <2>1. PICK target \in MayStay : TakeBack(h, target) /\ uncounted' = uncounted + BytesIf(h, target)
    BY <1>9 DEF WriteSidecarFails
  <2>2. Uncommitted(h) /\ upload[h].pc # "idle" /\ Return(h) /\ leftover' = leftover
    BY <1>9 DEF WriteSidecarFails, Uncommitted, Fail
  <2>3. BytesIf(h, target) \in Nat /\ target \in BOOLEAN
    BY <1>d, <2>2
  <2>4. leftover' = leftover + 0 /\ uncounted' = uncounted + 0 + BytesIf(h, target)
    BY <1>0, <2>1, <2>2, <2>3
  <2> QED
    BY <1>c, <2>1, <2>2, <2>3, <2>4
<1>10. CASE CommitUpload(h)
  BY <1>10, CommitKeepsLedger
<1> QED
  BY <1>1, <1>2, <1>3, <1>4, <1>5, <1>6, <1>7, <1>8, <1>9, <1>10 DEF UploadRequest, UploadStep

(* The server that starts again counts every file it finds, also those of   *)
(* the uploads that died with the last one.                                 *)
LEMMA CrashKeepsLedger ==
  ASSUME LedgerInv, PackagesInv, FilesFit, PrivateCrash
  PROVE  LedgerInv'
<1> USE DEF LedgerInv, PrivateCrash
<1>1. Stored \in Nat /\ InTemps \in Nat
  BY SumsAreNat
<1>2. /\ PrivateSize = Stored + leftover + InTemps
      /\ leftover' = leftover + InTemps
  BY DEF PrivateSize, Stored, InTemps
<1>3. committedBytes' = Stored + leftover + InTemps /\ committedBytes' \in 0..MaxInt
  BY <1>1, <1>2, WidthAssumption DEF FilesFit, Min
<1>4. ControllerInv'
  BY <1>3, FreshLedgerInv
<1>5. Stored' = Stored
  BY DEF Stored, DistBytes
<1>6. \A h \in Holders : upload'[h].pc = "idle"
  BY DEF IdleUpload
<1>7. Pending' = 0
  <2> DEFINE u == [h \in Holders |-> UncommittedBytes(h)']
  <2>1. \A h \in Holders : u[h] = 0
    BY <1>6 DEF UncommittedBytes, Uncommitted
  <2>2. Pending' = Total(Holders, u)
    BY DEF Pending
  <2> HIDE DEF u
  <2> QED
    BY <2>1, <2>2, TotalZero
<1>8. UploadsReserved'
  BY <1>6 DEF UploadsReserved
<1> QED
  BY <1>1, <1>2, <1>3, <1>4, <1>5, <1>7, <1>8

LEMMA ForeignFileKeepsLedger ==
  ASSUME LedgerInv, PackagesInv, NEW f \in Files, NEW c \in Contents, ForeignFile(f, c)
  PROVE  LedgerInv'
<1> USE DEF LedgerInv, ForeignFile
<1>1. /\ DistBytes(f) = 0 /\ SizeOf[c] \in Nat /\ c # NoFile
      /\ Stored \in Nat /\ Pending \in Nat /\ committedBytes \in 0..MaxInt
  BY PackagesAssumption, SumsAreNat DEF DistBytes, ControllerInv, ControllerTypeOK
<1>2. Stored' = Stored - 0 + SizeOf[c]
  BY <1>1, StoredUpdate
<1>3. ControllerInv' /\ UploadsReserved' /\ committedBytes' = committedBytes
  BY ControllerStutter DEF UploadsReserved, Size, Content, controllerVars
<1>4. Pending' = Pending
  BY DEF Pending, UncommittedBytes, Uncommitted, Size, Content
<1>5. uncounted' \in Nat /\ leftover' \in Nat
  BY <1>1
<1>6. committedBytes' + uncounted' + Pending' = Stored' + leftover'
  <2>1. committedBytes + uncounted + Pending = Stored + leftover
    OBVIOUS
  <2>2. /\ committedBytes \in Nat /\ uncounted \in Nat /\ leftover \in Nat
        /\ uncounted' = uncounted + SizeOf[c] /\ leftover' = leftover
    BY <1>1, WidthAssumption
  <2>3. \A b, u, p, d, l, n \in Nat : b + u + p = d + l => b + (u + n) + p = (d - 0 + n) + l
    OBVIOUS
  <2>4. committedBytes + (uncounted + SizeOf[c]) + Pending = (Stored - 0 + SizeOf[c]) + leftover
    BY <1>1, <2>1, <2>2, <2>3
  <2> QED
    BY <1>2, <1>3, <1>4, <2>2, <2>4
<1> QED
  BY <1>3, <1>5, <1>6

LEMMA LedgerInit == PypiInit => LedgerInv
<1> SUFFICES ASSUME PypiInit PROVE LedgerInv
  OBVIOUS
<1> USE DEF PypiInit, PrivateInit
<1>1. ControllerInv
  <2>1. ControllerTypeOK
    BY WidthAssumption DEF ControllerTypeOK, Reservations, SpentReservation
  <2>2. \A h \in Holders : Outstanding[h] = 0
    BY DEF Outstanding, SpentReservation
  <2> QED
    BY <2>1, <2>2, TotalZero DEF ControllerInv, ReservedIsOutstanding
<1>2. \A h \in Holders : upload[h].pc = "idle"
  BY DEF IdleUpload
<1>3. Stored = 0
  <2> DEFINE d == [f \in Files |-> DistBytes(f)]
  <2>1. \A f \in Files : d[f] = 0
    BY DEF DistBytes
  <2> HIDE DEF d
  <2> QED
    BY <2>1, TotalZero DEF Stored, d
<1>4. Pending = 0
  <2> DEFINE u == [h \in Holders |-> UncommittedBytes(h)]
  <2>1. \A h \in Holders : u[h] = 0
    BY <1>2 DEF UncommittedBytes, Uncommitted
  <2> HIDE DEF u
  <2> QED
    BY <2>1, TotalZero DEF Pending, u
<1>5. UploadsReserved
  BY <1>2 DEF UploadsReserved
<1> QED
  BY <1>1, <1>3, <1>4, <1>5 DEF LedgerInv

(* Requests for pages and files do not touch the ledger.                    *)
LEMMA UploadLedgerStep ==
  ASSUME LedgerInv, PackagesInv, FilesFit, [PypiNext]_pypiVars
  PROVE  LedgerInv'
<1>1. ASSUME NEW h \in Holders, UploadRequest(h) \/ UploadStep(h) \/ EnterFile(h)
      PROVE  LedgerInv'
  BY <1>1, UploadKeepsLedger
<1>2. ASSUME NEW r \in Readers, ReadDirectory(r) \/ ListingStep(r) PROVE LedgerInv'
  <2>1. LedgerIdle
    BY <1>2 DEF ReadDirectory, ListingStep, ReadSidecar, NoSidecar, HashFile, HashFails, Listed,
      SendPage, files, aux, LedgerIdle
  <2> QED
    BY <2>1, LedgerStays
<1>3. ASSUME NEW f \in Files, NEW c \in Contents, ForeignFile(f, c) PROVE LedgerInv'
  BY <1>3, ForeignFileKeepsLedger
<1>4. ASSUME NEW r \in Readers, CachedStep(r) \/ EnterKey(r) PROVE LedgerInv'
  <2>1. LedgerIdle
    BY <1>4 DEF CachedStep, PageFromUpstream, LookupHit, LookupMiss, EnterKey, RecheckHit, Miss,
      FetchAndStore, FetchOnly, Answered, private, LedgerIdle
  <2> QED
    BY <2>1, LedgerStays
<1>5. ASSUME NEW r \in Readers, NEW q \in FileRequests, NEW client \in Clients,
             NEW cacheable \in BOOLEAN, RequestFile(r, q, client, cacheable)
      PROVE  LedgerInv'
  <2>1. LedgerIdle
    BY <1>5 DEF RequestFile, private, LedgerIdle
  <2> QED
    BY <2>1, LedgerStays
<1>6. ASSUME NEW k \in CacheKeys, Expire(k) PROVE LedgerInv'
  <2>1. LedgerIdle
    BY <1>6 DEF Expire, private, LedgerIdle
  <2> QED
    BY <2>1, LedgerStays
<1>7. CASE PypiCrash
  BY <1>7, CrashKeepsLedger DEF PypiCrash
<1>8. CASE UNCHANGED pypiVars
  <2>1. LedgerIdle
    BY <1>8 DEF pypiVars, privateVars, LedgerIdle
  <2> QED
    BY <2>1, LedgerStays
<1> QED
  BY <1>1, <1>2, <1>3, <1>4, <1>5, <1>6, <1>7, <1>8 DEF PypiNext, PrivateStep

(* As long as the files of the directory fit an int64, the ledger is exact: *)
(* committed bytes are those of the files whose uploads are over, but for   *)
(* what came or stayed behind its back since the start, and no commit of an *)
(* upload is ever refused, whatever fails and however often the process     *)
(* dies (proxy.go:170-192, 768-830, 954-1013).                              *)
THEOREM PypiLedgerIsExact == PypiSpec /\ []FilesFit => []PrivateLedgerIsExact
<1>1. PypiInit => PrivateInv /\ LedgerInv
  BY PackagesInit, ReadersInit, LedgerInit DEF PrivateInv
<1>2. PrivateInv /\ LedgerInv /\ FilesFit /\ [PypiNext]_pypiVars => PrivateInv' /\ LedgerInv'
  BY PypiStep, UploadLedgerStep DEF PrivateInv
<1>3. PrivateInv /\ LedgerInv => PrivateLedgerIsExact
  <2> SUFFICES ASSUME PrivateInv, LedgerInv PROVE PrivateLedgerIsExact
    OBVIOUS
  <2>1. ASSUME NEW h \in Holders, upload[h].pc \notin {"idle", "form"}
        PROVE  ~reservation[h].done /\ CommitAccepted(h, Size(h), 0)
    <3>1. ~reservation[h].done /\ Size(h) < reservation[h].bytes
      BY <2>1 DEF LedgerInv, UploadsReserved
    <3>2. /\ committedBytes \in 0..MaxInt /\ reservation[h].bytes \in 0..MaxInt
          /\ Size(h) \in Nat
      BY <2>1, PackagesAssumption
         DEF LedgerInv, ControllerInv, ControllerTypeOK, Reservations, PrivateInv, PackagesInv,
             PackagesTypeOK, Size
    <3> QED
      BY <3>1, <3>2, WidthAssumption DEF CommitAccepted
  <2> QED
    BY <2>1 DEF LedgerInv, Pending, Stored, PrivateLedgerIsExact
<1> QED
  BY <1>1, <1>2, <1>3, PTL DEF PypiSpec
=============================================================================
