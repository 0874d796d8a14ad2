------------------------------ MODULE Headroom ------------------------------
(***************************************************************************)
(* Filesystem headroom: how the free space a writer reads before it asks    *)
(* for a reservation, the reservations of the other writers and the bytes   *)
(* that reach the disk keep min_free_bytes free.  PutStreamVerified         *)
(* (internal/cache/store.go:235-257) and serveUpload                        *)
(* (internal/pypiproxy/proxy.go:779-792) read the free bytes first and call *)
(* Reserve afterwards, outside any common lock.                             *)
(*                                                                         *)
(* Only n0ding writes to this filesystem, one byte at a time, and metadata  *)
(* files take no space: what other programs and metadata use cannot be      *)
(* held against the admission test.                                         *)
(***************************************************************************)
EXTENDS StorageController

VARIABLES
  fsFree,         \* free bytes of the filesystem (external: statfs)
  step,           \* where each writer is
  request,        \* the declared size of its response
  freeBytes,      \* the reading it took
  written,        \* bytes of its temporary file
  outdated,       \* aux: since the reading a reservation was given up whose bytes stay
  staleGrant      \* aux: a reservation was granted on such a reading

writerVars == <<step, request, freeBytes, written>>
auxVars == <<outdated, staleGrant>>
headroomVars == <<controllerVars, fsFree, writerVars, auxVars>>

HeadroomInit ==
  /\ ControllerInit
  /\ fsFree \in {n \in FreeReadings : n >= MinFreeBytes /\ n + committedBytes <= MaxInt}
  /\ step = [h \in Holders |-> "idle"]
  /\ request = [h \in Holders |-> 0]
  /\ freeBytes = [h \in Holders |-> 0]
  /\ written = [h \in Holders |-> 0]
  /\ outdated = [h \in Holders |-> FALSE]
  /\ staleGrant = FALSE

-----------------------------------------------------------------------------
(* storage.FreeBytes, before the controller is asked.                       *)
ReadFree(h, size) ==
  /\ HasController
  /\ step[h] = "idle"
  /\ step' = [step EXCEPT ![h] = "read"]
  /\ request' = [request EXCEPT ![h] = size]
  /\ freeBytes' = [freeBytes EXCEPT ![h] = fsFree]
  /\ outdated' = [outdated EXCEPT ![h] = FALSE]
  /\ UNCHANGED <<controllerVars, fsFree, written, staleGrant>>

(* The handler returns: its locals are gone.                                *)
Return(h) ==
  /\ step' = [step EXCEPT ![h] = "idle"]
  /\ request' = [request EXCEPT ![h] = 0]
  /\ freeBytes' = [freeBytes EXCEPT ![h] = 0]
  /\ written' = [written EXCEPT ![h] = 0]

Admit(h) ==
  /\ step[h] = "read"
  /\ ReserveGranted(h, request[h], freeBytes[h])
  /\ step' = [step EXCEPT ![h] = "writing"]
  /\ staleGrant' = (staleGrant \/ outdated[h])
  /\ outdated' = [outdated EXCEPT ![h] = FALSE]
  /\ UNCHANGED <<fsFree, request, freeBytes, written>>

(* The response is passed on without a file.                                *)
Bypass(h) ==
  /\ step[h] = "read"
  /\ ReserveRefused(h, request[h], freeBytes[h])
  /\ Return(h)
  /\ UNCHANGED <<fsFree, auxVars>>

(* Mutant: the cached copy is not cut at the reserved size.                 *)
WriteUnbounded(h) ==
  /\ step[h] = "writing"
  /\ fsFree > 0
  /\ fsFree' = fsFree - 1
  /\ written' = [written EXCEPT ![h] = @ + 1]
  /\ UNCHANGED <<controllerVars, step, request, freeBytes, auxVars>>

(* boundedCacheWriter copies a byte to the temporary file while it stays    *)
(* within the reservation.                                                  *)
Write(h) ==
  /\ step[h] = "writing"
  /\ written[h] < request[h]
  /\ fsFree > 0
  /\ fsFree' = fsFree - 1
  /\ written' = [written EXCEPT ![h] = @ + 1]
  /\ UNCHANGED <<controllerVars, step, request, freeBytes, auxVars>>

(* A reservation ends while the bytes written under it stay on disk: the    *)
(* readings taken so far may count them as free, and the ledger no longer   *)
(* counts them as reserved.                                                 *)
ReadingsOutdated == outdated' = [x \in Holders |-> step[x] = "read"]

(* What is left for the deferred calls: the file is renamed or removed, the *)
(* reservation not yet released.                                            *)
GiveUpFile(h) ==
  /\ written' = [written EXCEPT ![h] = 0]
  /\ step' = [step EXCEPT ![h] = "returning"]
  /\ UNCHANGED <<request, freeBytes>>

(* The file is renamed into place and the reservation committed; the bytes  *)
(* stay on disk.                                                            *)
Keep(h) ==
  /\ step[h] = "writing"
  /\ Commit(h, written[h], 0)
  /\ ReadingsOutdated
  /\ GiveUpFile(h)
  /\ UNCHANGED <<fsFree, staleGrant>>

(* An overflow, a stream error, a failed verification or a failed call of   *)
(* the commit: the removal of the file runs before the deferred Release.    *)
Discard(h) ==
  /\ step[h] = "writing"
  /\ fsFree' = fsFree + written[h]
  /\ GiveUpFile(h)
  /\ UNCHANGED <<controllerVars, auxVars>>

(* The removal fails, which the code ignores: the file stays.               *)
DiscardFails(h) ==
  /\ step[h] = "writing"
  /\ step' = [step EXCEPT ![h] = "leaving"]
  /\ UNCHANGED <<controllerVars, fsFree, request, freeBytes, written, auxVars>>

(* The deferred Release runs all the same; nothing counts the bytes of the  *)
(* file any more, which stays until the next start (CleanupStaleTemps).     *)
GiveBackLeavingFile(h) ==
  /\ step[h] = "leaving"
  /\ Release(h)
  /\ ReadingsOutdated
  /\ Return(h)
  /\ UNCHANGED <<fsFree, staleGrant>>

(* The deferred Release, which finds the Once fired after a commit.         *)
GiveBack(h) ==
  /\ step[h] = "returning"
  /\ Release(h)
  /\ Return(h)
  /\ UNCHANGED <<fsFree, auxVars>>

(* Garbage collection unlinks a stored body and then reports it.            *)
Collect(bytes) ==
  /\ bytes \in 1..committedBytes
  /\ fsFree' = fsFree + bytes
  /\ Remove(bytes)
  /\ UNCHANGED <<writerVars, auxVars>>

HeadroomNext ==
  \/ \E h \in Holders, size \in Sizes : ReadFree(h, size)
  \/ \E h \in Holders :
        \/ Admit(h) \/ Bypass(h) \/ Write(h) \/ Keep(h)
        \/ Discard(h) \/ DiscardFails(h) \/ GiveBack(h) \/ GiveBackLeavingFile(h)
  \/ \E bytes \in Sizes : Collect(bytes)

HeadroomSpec == HeadroomInit /\ [][HeadroomNext]_headroomVars

-----------------------------------------------------------------------------
(* The free bytes are those of a filesystem, writers hold a reservation     *)
(* while they write, and a file never outgrows its reservation              *)
(* (store.go:246-289, 411-422).                                             *)
HeadroomTypeOK ==
  /\ ControllerTypeOK
  /\ fsFree \in 0..MaxInt
  /\ step \in [Holders -> {"idle", "read", "writing", "leaving", "returning"}]
  /\ request \in [Holders -> 0..MaxInt] /\ freeBytes \in [Holders -> 0..MaxInt]
  /\ written \in [Holders -> 0..MaxInt]
  /\ outdated \in [Holders -> BOOLEAN] /\ staleGrant \in BOOLEAN
  /\ \A h \in Holders :
       /\ IF step[h] \in {"writing", "leaving"}
          THEN /\ ~reservation[h].done /\ reservation[h].bytes = request[h]
               /\ written[h] <= reservation[h].bytes
          ELSE written[h] = 0
       /\ step[h] \in {"idle", "read"} => reservation[h].done

(* Cache writes and uploads leave min_free_bytes free (configuration.md:     *)
(* "Parallel downloads therefore cannot independently overbook the same     *)
(* available bytes").                                                       *)
HeadroomKept == fsFree >= MinFreeBytes

(* What the admission test does guarantee with any number of writers: the   *)
(* headroom is only lost if some reservation was granted on a reading taken *)
(* before another one ended with its bytes on disk, because its write was   *)
(* committed or because its file could not be removed (store.go:280).       *)
(* Writes in flight and files that are removed cannot break it: they are    *)
(* subtracted from the reading (controller.go:58).                          *)
HeadroomKeptOnFreshReadings == ~staleGrant => HeadroomKept
=============================================================================
