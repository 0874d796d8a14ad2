-------------------------- MODULE Collection_proofs --------------------------
(***************************************************************************)
(* Proofs about the cache stores and the collections that run beside their  *)
(* writers, for every set of stores, keys, generations and concurrent       *)
(* writes, every choice of faults and any number of crashes.                *)
(*                                                                         *)
(* Everything rests on FilesInv, which says what a write in progress knows  *)
(* about the files of its key.  CollectionInv adds what the collector knows *)
(* in its exclusive sections and of its candidates, AccountsInv relates the *)
(* counters and the ledger to the entries, and OrphanInv the files to the   *)
(* metadata.  A write's step has one lemma, shared by the specification of  *)
(* the stores alone and the one of stores and collector.                    *)
(***************************************************************************)
EXTENDS Collection, StorageController_proofs, FunctionTheorems

-----------------------------------------------------------------------------
(* The inductive invariant of the files.                                    *)

(* A file is where the write that produced it put it, and the metadata of a *)
(* generation records the size its body file really has.                    *)
NamesMatch ==
  /\ \A k \in Keys : Parses(k) => meta[k].content = meta[k].path
  /\ \A k \in Keys : \A p \in Paths : Exists(k, p) => body[k][p].content = p
  /\ \A k \in Keys : Parses(k) /\ meta[k].path \in Gens /\ Exists(k, meta[k].path)
                       => body[k][meta[k].path].size = meta[k].size

(* No two writes use one suffix.                                            *)
GensDistinct ==
  \A v, w \in Holders : v # w /\ writer[w].gen # NoPath => writer[v].gen # writer[w].gen

BodyTempPCs == {"stream", "describe", "lock", "rename"}
MetaTempPCs == {"lock", "rename", "replace", "retry"}

(* What a running write may rely on: its temporary files are there and      *)
(* registered until it renames them, its generation is not in use before    *)
(* that, and in the commit section what it read of the previous entry still *)
(* holds until it removes or replaces the metadata itself.                  *)
TempsKept(w) ==
  LET k == writer[w].key
      g == writer[w].gen IN
  /\ writer[w].pc \notin {"idle", "create", "release"} => g \in Gens
  /\ writer[w].pc \in BodyTempPCs => g \in bodyTemps[k] /\ <<"body", g>> \in activeTemps[k]
  /\ writer[w].pc \in MetaTempPCs => g \in metaTemps[k] /\ <<"metadata", g>> \in activeTemps[k]

FilesKept(w) ==
  LET k == writer[w].key
      g == writer[w].gen IN
  /\ writer[w].pc \in BodyTempPCs => meta[k].path # g /\ body[k][g] = NoBody
  /\ writer[w].pc \in {"rename", "replace"} =>
       /\ meta[k].path # g
       /\ writer[w].prevPath = meta[k].path
       /\ writer[w].prevBytes = EntryBytes[k]
       /\ writer[w].prevValid = Complete(k)
  /\ writer[w].pc \in {"replace", "retry", "commit"} =>
       body[k][g] = [size |-> writer[w].written, content |-> g]
  /\ writer[w].pc \in {"retry", "commit"} => writer[w].prevPath # g
  /\ writer[w].pc = "retry" => meta[k] = AbsentMeta
  /\ writer[w].pc = "commit" => meta[k] = ParsedMeta(g, writer[w].written, g)

FilesInv ==
  /\ DiskTypeOK /\ WritersTypeOK
  /\ NamesMatch
  /\ GensDistinct
  /\ \A w \in Holders : TempsKept(w) /\ FilesKept(w)

(***************************************************************************)
(* An entry that Lookup serves comes from one write.                        *)
(***************************************************************************)
LEMMA NamesLemma ==
  ASSUME DiskTypeOK, NamesMatch
  PROVE  /\ HitsServeOneWrite
         /\ \A k \in Keys : Complete(k) => /\ meta[k].path \in Paths
                                           /\ Found(k) = meta[k].path
<1>1. \A k \in Keys : Complete(k) => meta[k].path \in Paths
  BY DEF DiskTypeOK, Metas, Complete
<1>2. \A k \in Keys : Complete(k) => /\ meta[k].content = meta[k].path
                                     /\ body[k][meta[k].path].content = meta[k].path
  BY <1>1 DEF NamesMatch, Complete
<1>3. \A k \in Keys : LookupOutcome(k) = "hit" => Complete(k)
  BY DEF LookupOutcome, Parses, DiskTypeOK, Metas
<1> QED
  BY <1>1, <1>2, <1>3 DEF HitsServeOneWrite, Found

-----------------------------------------------------------------------------
(* Steps that change one write, and what the others see of them.            *)

(* The step leaves what write v relies on alone: its temporary files, and   *)
(* either all files of its key or, while v is outside its commit section,   *)
(* at least the generation it is going to use.                              *)
Undisturbed(v) ==
  LET k == writer[v].key
      g == writer[v].gen IN
  /\ writer'[v] = writer[v]
  /\ writer[v].pc # "idle" =>
       /\ g \in bodyTemps[k] /\ <<"body", g>> \in activeTemps[k]
            => g \in bodyTemps'[k] /\ <<"body", g>> \in activeTemps'[k]
       /\ g \in metaTemps[k] /\ <<"metadata", g>> \in activeTemps[k]
            => g \in metaTemps'[k] /\ <<"metadata", g>> \in activeTemps'[k]
       /\ \/ meta'[k] = meta[k] /\ body'[k] = body[k]
          \/ /\ writer[v].pc \notin CommitPCs
             /\ g \in Gens => /\ meta'[k].path # g \/ meta'[k].path = meta[k].path
                              /\ body'[k][g] = NoBody \/ body'[k][g] = body[k][g]

(***************************************************************************)
(* What a write relies on survives a step that does not disturb it.         *)
(***************************************************************************)
LEMMA UndisturbedKept ==
  ASSUME FilesInv, NEW v \in Holders, Undisturbed(v)
  PROVE  TempsKept(v)' /\ FilesKept(v)'
<1> DEFINE k == writer[v].key
           g == writer[v].gen
<1>1. writer'[v] = writer[v] /\ TempsKept(v) /\ FilesKept(v)
  BY DEF Undisturbed, FilesInv
<1>2. CASE writer[v].pc = "idle"
  BY <1>1, <1>2 DEF TempsKept, FilesKept, BodyTempPCs, MetaTempPCs
<1>3. CASE writer[v].pc # "idle"
  <2>1. k \in Keys /\ writer[v] \in Writers
    BY <1>3 DEF FilesInv, WritersTypeOK, Writers, At
  <2>2. TempsKept(v)'
    BY <1>1, <1>3, <2>1 DEF TempsKept, Undisturbed, BodyTempPCs, MetaTempPCs
  <2>3. CASE meta'[k] = meta[k] /\ body'[k] = body[k]
    <3>1. Complete(k)' = Complete(k) /\ EntryBytes[k]' = EntryBytes[k]
      BY <1>1, <2>1, <2>3 DEF Complete, Parses, Exists, EntryBytes
    <3>2. k' = k /\ g' = g /\ meta[k]' = meta[k] /\ body[k]' = body[k]
      BY <1>1, <2>3
    <3>3. FilesKept(v)'
      BY <1>1, <3>1, <3>2, Zenon DEF FilesKept
    <3> QED
      BY <2>2, <3>3
  <2>4. CASE ~(meta'[k] = meta[k] /\ body'[k] = body[k])
    <3>1. /\ writer[v].pc \notin CommitPCs
          /\ g \in Gens => /\ meta'[k].path # g \/ meta'[k].path = meta[k].path
                           /\ body'[k][g] = NoBody \/ body'[k][g] = body[k][g]
      BY <1>3, <2>4 DEF Undisturbed
    <3>2. writer[v].pc \in BodyTempPCs => g \in Gens
      BY <1>1 DEF TempsKept, BodyTempPCs
    <3>3. FilesKept(v)'
      BY <1>1, <3>1, <3>2 DEF FilesKept, CommitPCs, BodyTempPCs
    <3> QED
      BY <2>2, <3>3
  <2> QED
    BY <2>3, <2>4
<1> QED
  BY <1>2, <1>3

(***************************************************************************)
(* A step of write w preserves FilesInv if it keeps the types and the       *)
(* names, disturbs no other write, draws a suffix of its own and leaves w   *)
(* with what its new place in the code relies on.                           *)
(***************************************************************************)
LEMMA OneWriter ==
  ASSUME FilesInv, NEW w \in Holders,
         DiskTypeOK', WritersTypeOK', NamesMatch',
         \A v \in Holders \ {w} : Undisturbed(v),
         \/ writer'[w].gen \in {NoPath, writer[w].gen}
         \/ \A v \in Holders : writer[v].gen # writer'[w].gen,
         TempsKept(w)', FilesKept(w)'
  PROVE  FilesInv'
<1>1. \A v \in Holders \ {w} : writer'[v] = writer[v]
  BY DEF Undisturbed
<1>2. GensDistinct'
  BY <1>1 DEF GensDistinct, FilesInv
<1>3. \A v \in Holders : TempsKept(v)' /\ FilesKept(v)'
  BY UndisturbedKept
<1> QED
  BY <1>2, <1>3 DEF FilesInv

(***************************************************************************)
(* A step that leaves the files alone leaves everyone else alone.           *)
(***************************************************************************)
LEMMA QuietStep ==
  ASSUME FilesInv, NEW v \in Holders, writer'[v] = writer[v], UNCHANGED <<disk, activeTemps>>
  PROVE  Undisturbed(v)
  BY DEF Undisturbed, disk

(***************************************************************************)
(* The types and names of the disk say nothing about memory.                *)
(***************************************************************************)
LEMMA SameDisk ==
  ASSUME FilesInv, UNCHANGED disk
  PROVE  DiskTypeOK' /\ NamesMatch'
  BY DEF FilesInv, DiskTypeOK, NamesMatch, disk, Parses, Exists

(***************************************************************************)
(* A write moves on outside its commit section and s.mu stays as it is.     *)
(***************************************************************************)
LEMMA MoveType ==
  ASSUME FilesInv, NEW w \in Holders, NEW x \in Writers,
         writer' = [writer EXCEPT ![w] = x], mu' = mu,
         activeTemps' \in [Keys -> SUBSET ({"body", "metadata"} \X Gens)],
         writer[w].pc \notin CommitPCs, x.pc \notin CommitPCs,
         x.pc = "idle" <=> x.key = NoKey
  PROVE  WritersTypeOK'
<1> USE DEF FilesInv, WritersTypeOK
<1>1. writer' \in [Holders -> Writers]
  OBVIOUS
<1>2. \A v \in Holders : writer'[v] = IF v = w THEN x ELSE writer[v]
  OBVIOUS
<1>3. \A v \in Holders : /\ At(v, "idle")' <=> writer'[v].key = NoKey
                         /\ writer'[v].pc \in CommitPCs => mu'[StoreUsed(v)'] = v
  BY <1>2 DEF At, StoreUsed
<1>4. \A s \in Stores : mu[s] # w
  OBVIOUS
<1>5. \A s \in Stores : mu'[s] \in Holders
                          => writer'[mu'[s]].pc \in CommitPCs /\ StoreOf[writer'[mu'[s]].key] = s
  BY <1>2, <1>4 DEF StoreUsed
<1> QED
  BY <1>1, <1>3, <1>5 DEF StoreUsed

(***************************************************************************)
(* A write moves on inside its commit section.                              *)
(***************************************************************************)
LEMMA CommitMoveType ==
  ASSUME FilesInv, NEW w \in Holders, NEW x \in Writers,
         writer' = [writer EXCEPT ![w] = x], UNCHANGED <<mu, activeTemps>>,
         writer[w].pc \in CommitPCs, x.pc \in CommitPCs, x.key = writer[w].key
  PROVE  WritersTypeOK'
<1> USE DEF FilesInv, WritersTypeOK
<1>1. writer' \in [Holders -> Writers]
  OBVIOUS
<1>2. \A v \in Holders : writer'[v] = IF v = w THEN x ELSE writer[v]
  OBVIOUS
<1>3. writer[w].key # NoKey /\ x.pc # "idle"
  BY DEF At, CommitPCs
<1>4. \A v \in Holders : /\ At(v, "idle")' <=> writer'[v].key = NoKey
                         /\ writer'[v].pc \in CommitPCs => mu'[StoreUsed(v)'] = v
  BY <1>2, <1>3 DEF At, StoreUsed
<1>5. \A s \in Stores : mu'[s] \in Holders
                          => writer'[mu'[s]].pc \in CommitPCs /\ StoreOf[writer'[mu'[s]].key] = s
  BY <1>2 DEF StoreUsed
<1> QED
  BY <1>1, <1>4, <1>5 DEF StoreUsed

(***************************************************************************)
(* A write leaves its commit section and s.mu with it.                      *)
(***************************************************************************)
LEMMA LeaveType ==
  ASSUME FilesInv, NEW w \in Holders, writer[w].pc \in CommitPCs, LeaveCommit(w),
         UNCHANGED activeTemps
  PROVE  /\ WritersTypeOK'
         /\ writer'[w] = [writer[w] EXCEPT !.pc = "dropMeta"]
         /\ \A v \in Holders \ {w} : writer'[v] = writer[v]
<1> USE DEF FilesInv, WritersTypeOK
<1> DEFINE x == [writer[w] EXCEPT !.pc = "dropMeta"]
<1>1. x \in Writers /\ writer[w].key \in Keys
  BY DEF Writers, WriterPCs, At, CommitPCs
<1>2. writer' = [writer EXCEPT ![w] = x]
  BY DEF LeaveCommit, Goto
<1>3. x.pc = "dropMeta" /\ x.key = writer[w].key
  BY DEF Writers
<1> HIDE DEF x
<1>4. StoreUsed(w) \in Stores /\ mu[StoreUsed(w)] = w
  BY <1>1, StoresAssumption DEF StoreUsed
<1>5. writer' \in [Holders -> Writers]
  BY <1>1, <1>2
<1>6. \A v \in Holders : writer'[v] = IF v = w THEN x ELSE writer[v]
  BY <1>2
<1>7. mu' \in [Stores -> Holders \cup {Collector, NoOne}]
  BY DEF LeaveCommit
<1>8. \A s \in Stores : mu'[s] = IF s = StoreUsed(w) THEN NoOne ELSE mu[s]
  BY DEF LeaveCommit
<1>9. \A v \in Holders : /\ At(v, "idle")' <=> writer'[v].key = NoKey
                         /\ writer'[v].pc \in CommitPCs => mu'[StoreUsed(v)'] = v
  <2> SUFFICES ASSUME NEW v \in Holders
               PROVE  /\ At(v, "idle")' <=> writer'[v].key = NoKey
                      /\ writer'[v].pc \in CommitPCs => mu'[StoreUsed(v)'] = v
    OBVIOUS
  <2>1. CASE v = w
    BY <1>1, <1>3, <1>6, <2>1, NamesAssumption DEF At, CommitPCs
  <2>2. CASE v # w
    <3>1. At(v, "idle")' <=> writer'[v].key = NoKey
      BY <1>6, <2>2 DEF At
    <3>2. ASSUME writer'[v].pc \in CommitPCs PROVE mu'[StoreUsed(v)'] = v
      <4>1. writer'[v] = writer[v]
        BY <1>6, <2>2
      <4>2. mu[StoreUsed(v)] = v /\ writer[v].key \in Keys
        BY <3>2, <4>1 DEF Writers, At, CommitPCs
      <4>3. StoreUsed(v) \in Stores /\ StoreUsed(v)' = StoreUsed(v)
        BY <4>1, <4>2, StoresAssumption DEF StoreUsed
      <4> QED
        BY <1>4, <1>8, <2>2, <4>2, <4>3
    <3> QED
      BY <3>1, <3>2
  <2> QED
    BY <2>1, <2>2
<1>10. \A s \in Stores : mu'[s] \in Holders
                          => writer'[mu'[s]].pc \in CommitPCs /\ StoreOf[writer'[mu'[s]].key] = s
  <2> SUFFICES ASSUME NEW s \in Stores, mu'[s] \in Holders
               PROVE  writer'[mu'[s]].pc \in CommitPCs /\ StoreOf[writer'[mu'[s]].key] = s
    OBVIOUS
  <2>1. s # StoreUsed(w) /\ mu'[s] = mu[s]
    BY <1>8, NamesAssumption
  <2>2. writer[mu[s]].pc \in CommitPCs /\ StoreUsed(mu[s]) = s
    BY <2>1
  <2>3. mu[s] # w
    BY <2>1, <2>2
  <2> QED
    BY <1>6, <2>1, <2>2, <2>3 DEF StoreUsed
<1> QED
  BY <1>2, <1>5, <1>6, <1>7, <1>9, <1>10 DEF x, StoreUsed

-----------------------------------------------------------------------------
(* The steps of a write.                                                    *)

(***************************************************************************)
(* A write moves on without touching a file.                                *)
(***************************************************************************)
LEMMA PlainMove ==
  ASSUME FilesInv, NEW w \in Holders, NEW x \in Writers,
         writer' = [writer EXCEPT ![w] = x], UNCHANGED <<disk, mu, activeTemps>>,
         writer[w].pc \notin CommitPCs, x.pc \notin CommitPCs,
         x.pc = "idle" <=> x.key = NoKey,
         x.gen \in {NoPath, writer[w].gen},
         x.pc \notin {"idle", "create", "release"} =>
           /\ writer[w].pc \notin {"idle", "create", "release"}
           /\ x.key = writer[w].key /\ x.gen = writer[w].gen,
         x.pc \in BodyTempPCs => writer[w].pc \in BodyTempPCs,
         x.pc \in MetaTempPCs => writer[w].pc \in MetaTempPCs
  PROVE  FilesInv'
<1>1. DiskTypeOK' /\ NamesMatch'
  BY SameDisk
<1>2. activeTemps' \in [Keys -> SUBSET ({"body", "metadata"} \X Gens)]
  BY DEF FilesInv, WritersTypeOK
<1>3. WritersTypeOK'
  BY <1>2, MoveType
<1>4. \A v \in Holders : writer'[v] = IF v = w THEN x ELSE writer[v]
  BY DEF FilesInv, WritersTypeOK
<1>5. \A v \in Holders \ {w} : Undisturbed(v)
  BY <1>4, QuietStep
<1>6. TempsKept(w) /\ FilesKept(w)
  BY DEF FilesInv
<1>7. TempsKept(w)'
  BY <1>4, <1>6 DEF TempsKept, disk, BodyTempPCs, MetaTempPCs
<1>8. FilesKept(w)'
  BY <1>4, <1>6 DEF FilesKept, disk, BodyTempPCs, CommitPCs
<1> QED
  BY <1>1, <1>3, <1>4, <1>5, <1>7, <1>8, OneWriter

(***************************************************************************)
(* What BeginWrite and Goto put in a writer's record.                       *)
(***************************************************************************)
LEMMA BeginWriteMove ==
  ASSUME FilesInv, NEW w \in Holders, At(w, "idle"), NEW k \in Keys, NEW n \in Sizes,
         BeginWrite(w, k, n), UNCHANGED <<disk, mu, activeTemps>>
  PROVE  FilesInv'
<1> DEFINE x == [IdleWriter EXCEPT !.pc = "create", !.key = k, !.length = n]
<1>1. x \in Writers
  <2>1. n \in 0..MaxInt
    BY InputsAssumption
  <2>2. IdleWriter \in Writers
    BY WidthAssumption DEF Writers, IdleWriter, WriterPCs
  <2> QED
    BY <2>1, <2>2 DEF Writers, WriterPCs
<1>2. x.pc = "create" /\ x.key = k /\ x.gen = NoPath
  BY DEF IdleWriter
<1>3. writer' = [writer EXCEPT ![w] = x]
  BY DEF BeginWrite
<1>4. k # NoKey
  BY NamesAssumption
<1> HIDE DEF x
<1> QED
  BY <1>1, <1>2, <1>3, <1>4, PlainMove DEF At, CommitPCs, BodyTempPCs, MetaTempPCs

LEMMA GotoMove ==
  ASSUME FilesInv, NEW w \in Holders, NEW pc \in {"dropMeta", "dropBody", "release"},
         Goto(w, pc), UNCHANGED <<disk, mu, activeTemps>>,
         \/ writer[w].pc \in {"stream", "describe", "lock"}
         \/ writer[w].pc = "create" /\ pc = "release"
  PROVE  FilesInv'
<1> DEFINE x == [writer[w] EXCEPT !.pc = pc]
<1>1. writer[w] \in Writers /\ writer[w].key # NoKey
  BY DEF FilesInv, WritersTypeOK, At
<1>2. x \in Writers /\ x.pc = pc /\ x.key = writer[w].key /\ x.gen = writer[w].gen
  BY <1>1 DEF Writers, WriterPCs
<1>3. writer' = [writer EXCEPT ![w] = x]
  BY DEF Goto
<1> HIDE DEF x
<1> QED
  BY <1>1, <1>2, <1>3, PlainMove DEF CommitPCs, BodyTempPCs, MetaTempPCs

LEMMA StreamMove ==
  ASSUME FilesInv, NEW w \in Holders, NEW n \in Sizes, StreamBody(w, n)
  PROVE  FilesInv'
<1> DEFINE x == [writer[w] EXCEPT !.pc = "describe", !.written = n]
<1>1. writer[w] \in Writers /\ writer[w].key # NoKey /\ writer[w].pc = "stream"
  BY DEF FilesInv, WritersTypeOK, At, StreamBody
<1>2. x \in Writers /\ x.pc = "describe" /\ x.key = writer[w].key /\ x.gen = writer[w].gen
  BY <1>1, InputsAssumption, WidthAssumption DEF Writers, WriterPCs
<1>3. writer' = [writer EXCEPT ![w] = x]
  BY <1>1 DEF StreamBody, Writers, FilesInv, WritersTypeOK
<1>4. UNCHANGED <<disk, mu, activeTemps>>
  BY DEF StreamBody
<1> HIDE DEF x
<1> QED
  BY <1>1, <1>2, <1>3, <1>4, PlainMove DEF CommitPCs, BodyTempPCs, MetaTempPCs

LEMMA StreamCutMove ==
  ASSUME FilesInv, NEW w \in Holders, NEW m \in Partial(w), At(w, "stream"),
         writer' = [writer EXCEPT ![w].pc = "dropBody", ![w].written = m],
         UNCHANGED <<disk, mu, activeTemps>>
  PROVE  FilesInv'
<1> DEFINE x == [writer[w] EXCEPT !.pc = "dropBody", !.written = m]
<1>1. writer[w] \in Writers /\ writer[w].key # NoKey /\ writer[w].pc = "stream"
  BY DEF FilesInv, WritersTypeOK, At
<1>2. m \in 0..MaxInt
  BY InputsAssumption, WidthAssumption DEF Partial
<1>3. x \in Writers /\ x.pc = "dropBody" /\ x.key = writer[w].key /\ x.gen = writer[w].gen
  BY <1>1, <1>2 DEF Writers, WriterPCs
<1>4. writer' = [writer EXCEPT ![w] = x]
  BY <1>1 DEF Writers, FilesInv, WritersTypeOK
<1> HIDE DEF x
<1> QED
  BY <1>1, <1>3, <1>4, PlainMove DEF CommitPCs, BodyTempPCs, MetaTempPCs

LEMMA ReleaseMove ==
  ASSUME FilesInv, NEW w \in Holders, At(w, "release"),
         writer' = [writer EXCEPT ![w] = IdleWriter], UNCHANGED <<disk, mu, activeTemps>>
  PROVE  FilesInv'
<1>1. /\ IdleWriter \in Writers
      /\ IdleWriter.pc = "idle" /\ IdleWriter.key = NoKey /\ IdleWriter.gen = NoPath
  BY WidthAssumption DEF IdleWriter, Writers, WriterPCs
<1> QED
  BY <1>1, PlainMove DEF At, CommitPCs, BodyTempPCs, MetaTempPCs

(***************************************************************************)
(* The temporary body file: its suffix is fresh, so no file and no other    *)
(* write has it.                                                            *)
(***************************************************************************)
LEMMA CreateBodyTempFiles ==
  ASSUME FilesInv, NEW w \in Holders, NEW g \in Gens, CreateBodyTemp(w, g)
  PROVE  FilesInv'
<1> DEFINE k == writer[w].key
           x == [writer[w] EXCEPT !.pc = "stream", !.gen = g]
<1>1. writer[w] \in Writers /\ k \in Keys /\ writer[w].pc = "create"
  BY DEF FilesInv, WritersTypeOK, At, CreateBodyTemp, Writers
<1>2. x \in Writers /\ x.pc = "stream" /\ x.key = k /\ x.gen = g /\ k # NoKey
  BY <1>1, NamesAssumption DEF Writers, WriterPCs
<1>3. writer' = [writer EXCEPT ![w] = x]
  BY <1>1 DEF CreateBodyTemp, Writers, FilesInv, WritersTypeOK
<1>4. UNCHANGED <<meta, body, metaTemps, mu>>
  BY DEF CreateBodyTemp
<1>5. /\ activeTemps \in [Keys -> SUBSET ({"body", "metadata"} \X Gens)]
      /\ bodyTemps \in [Keys -> SUBSET Gens]
  BY DEF FilesInv, WritersTypeOK, DiskTypeOK
<1>6. /\ activeTemps' = [activeTemps EXCEPT ![k] = @ \cup {<<"body", g>>}]
      /\ bodyTemps' = [bodyTemps EXCEPT ![k] = @ \cup {g}]
  BY DEF CreateBodyTemp, Register
<1>7. /\ activeTemps' \in [Keys -> SUBSET ({"body", "metadata"} \X Gens)]
      /\ bodyTemps' \in [Keys -> SUBSET Gens]
  BY <1>1, <1>5, <1>6
<1>8. WritersTypeOK'
  BY <1>1, <1>2, <1>3, <1>4, <1>7, MoveType DEF CommitPCs
<1>9. DiskTypeOK' /\ NamesMatch'
  BY <1>4, <1>7 DEF FilesInv, DiskTypeOK, NamesMatch, Parses, Exists
<1>10. /\ body[k][g] = NoBody /\ meta[k].path # g
       /\ \A v \in Holders : writer[v].gen # g
  BY DEF CreateBodyTemp, FreshGens, Exists
<1>11. \A v \in Holders : writer'[v] = IF v = w THEN x ELSE writer[v]
  BY <1>3 DEF FilesInv, WritersTypeOK
<1> HIDE DEF x
<1>12. /\ \A h \in Keys : bodyTemps[h] \subseteq bodyTemps'[h]
       /\ \A h \in Keys : activeTemps[h] \subseteq activeTemps'[h]
  BY <1>1, <1>5, <1>6
<1>13. \A v \in Holders \ {w} : writer[v].pc # "idle" => writer[v].key \in Keys
  BY DEF FilesInv, WritersTypeOK, Writers, At
<1>14. \A v \in Holders \ {w} : Undisturbed(v)
  BY <1>4, <1>11, <1>12, <1>13 DEF Undisturbed
<1>15. g \in bodyTemps'[k] /\ <<"body", g>> \in activeTemps'[k]
  BY <1>1, <1>5, <1>6
<1>16. TempsKept(w)'
  BY <1>2, <1>11, <1>15 DEF TempsKept, BodyTempPCs, MetaTempPCs
<1>17. FilesKept(w)'
  BY <1>2, <1>4, <1>10, <1>11 DEF FilesKept, BodyTempPCs
<1>18. \A v \in Holders : writer[v].gen # writer'[w].gen
  BY <1>2, <1>10, <1>11
<1> QED
  BY <1>8, <1>9, <1>14, <1>16, <1>17, <1>18, OneWriter

(***************************************************************************)
(* The temporary metadata file takes the suffix of the body's.              *)
(***************************************************************************)
LEMMA CreateMetaTempFiles ==
  ASSUME FilesInv, NEW w \in Holders, CreateMetaTemp(w)
  PROVE  FilesInv'
<1> DEFINE k == writer[w].key
           g == writer[w].gen
           x == [writer[w] EXCEPT !.pc = "lock"]
<1>1. writer[w] \in Writers /\ k \in Keys /\ writer[w].pc = "describe"
  BY DEF FilesInv, WritersTypeOK, At, CreateMetaTemp, Writers
<1>2. x \in Writers /\ x.pc = "lock" /\ x.key = k /\ x.gen = g /\ k # NoKey
  BY <1>1, NamesAssumption DEF Writers, WriterPCs
<1>3. writer' = [writer EXCEPT ![w] = x]
  BY DEF CreateMetaTemp, Goto
<1>4. UNCHANGED <<meta, body, bodyTemps, mu>>
  BY DEF CreateMetaTemp
<1>5. /\ activeTemps \in [Keys -> SUBSET ({"body", "metadata"} \X Gens)]
      /\ metaTemps \in [Keys -> SUBSET Gens]
  BY DEF FilesInv, WritersTypeOK, DiskTypeOK
<1>6. /\ activeTemps' = [activeTemps EXCEPT ![k] = @ \cup {<<"metadata", g>>}]
      /\ metaTemps' = [metaTemps EXCEPT ![k] = @ \cup {g}]
  BY DEF CreateMetaTemp, Register
<1>7. TempsKept(w) /\ FilesKept(w)
  BY DEF FilesInv
<1>8. g \in Gens /\ g \in bodyTemps[k] /\ <<"body", g>> \in activeTemps[k]
      /\ body[k][g] = NoBody /\ meta[k].path # g
  BY <1>1, <1>7 DEF TempsKept, FilesKept, BodyTempPCs
<1>9. /\ activeTemps' \in [Keys -> SUBSET ({"body", "metadata"} \X Gens)]
      /\ metaTemps' \in [Keys -> SUBSET Gens]
  BY <1>1, <1>5, <1>6, <1>8
<1>10. WritersTypeOK'
  BY <1>1, <1>2, <1>3, <1>4, <1>9, MoveType DEF CommitPCs
<1>11. DiskTypeOK' /\ NamesMatch'
  BY <1>4, <1>9 DEF FilesInv, DiskTypeOK, NamesMatch, Parses, Exists
<1>12. \A v \in Holders : writer'[v] = IF v = w THEN x ELSE writer[v]
  BY <1>3 DEF FilesInv, WritersTypeOK
<1> HIDE DEF x
<1>13. /\ \A h \in Keys : metaTemps[h] \subseteq metaTemps'[h]
       /\ \A h \in Keys : activeTemps[h] \subseteq activeTemps'[h]
  BY <1>1, <1>5, <1>6
<1>14. \A v \in Holders \ {w} : writer[v].pc # "idle" => writer[v].key \in Keys
  BY DEF FilesInv, WritersTypeOK, Writers, At
<1>15. \A v \in Holders \ {w} : Undisturbed(v)
  BY <1>4, <1>12, <1>13, <1>14 DEF Undisturbed
<1>16. g \in metaTemps'[k] /\ <<"metadata", g>> \in activeTemps'[k]
       /\ <<"body", g>> \in activeTemps'[k]
  BY <1>1, <1>5, <1>6, <1>8
<1>17. TempsKept(w)'
  BY <1>2, <1>4, <1>8, <1>12, <1>16 DEF TempsKept, BodyTempPCs, MetaTempPCs
<1>18. FilesKept(w)'
  BY <1>2, <1>4, <1>8, <1>12 DEF FilesKept, BodyTempPCs
<1>19. writer'[w].gen \in {NoPath, writer[w].gen}
  BY <1>2, <1>12
<1> QED
  BY <1>10, <1>11, <1>15, <1>17, <1>18, <1>19, OneWriter

(***************************************************************************)
(* Two writes of one store are never in their commit sections together, so  *)
(* a step of w that touches only its own temporary files and, in its commit *)
(* section, only the entry of its own key disturbs no other write.          *)
(***************************************************************************)
LEMMA OwnFilesOnly ==
  ASSUME FilesInv, NEW w \in Holders, writer[w].key \in Keys, writer[w].gen \in Gens,
         \A v \in Holders \ {w} : writer'[v] = writer[v],
         \A h \in Keys : bodyTemps[h] \ {writer[w].gen} \subseteq bodyTemps'[h],
         \A h \in Keys : metaTemps[h] \ {writer[w].gen} \subseteq metaTemps'[h],
         \A h \in Keys : activeTemps[h] \ ({"body", "metadata"} \X {writer[w].gen})
                           \subseteq activeTemps'[h],
         \A h \in Keys \ {writer[w].key} : meta'[h] = meta[h] /\ body'[h] = body[h],
         \/ meta' = meta /\ body' = body
         \/ /\ writer[w].pc \in CommitPCs
            /\ meta'[writer[w].key].path \in {meta[writer[w].key].path, NoPath, writer[w].gen}
            /\ \A p \in Gens \ {writer[w].gen} :
                 body'[writer[w].key][p] \in {NoBody, body[writer[w].key][p]}
  PROVE  \A v \in Holders \ {w} : Undisturbed(v)
<1> SUFFICES ASSUME NEW v \in Holders \ {w}
             PROVE  Undisturbed(v)
  OBVIOUS
<1> DEFINE k == writer[v].key
           g == writer[v].gen
<1>1. writer'[v] = writer[v]
  OBVIOUS
<1>2. CASE writer[v].pc = "idle"
  BY <1>1, <1>2 DEF Undisturbed
<1>3. CASE writer[v].pc # "idle"
  <2>1. k \in Keys
    BY <1>3 DEF FilesInv, WritersTypeOK, Writers, At
  <2>2. g # writer[w].gen
    BY NamesAssumption DEF FilesInv, GensDistinct
  <2>3. /\ g \in bodyTemps[k] /\ <<"body", g>> \in activeTemps[k]
              => g \in bodyTemps'[k] /\ <<"body", g>> \in activeTemps'[k]
        /\ g \in metaTemps[k] /\ <<"metadata", g>> \in activeTemps[k]
              => g \in metaTemps'[k] /\ <<"metadata", g>> \in activeTemps'[k]
    BY <2>1, <2>2
  <2>4. CASE meta'[k] = meta[k] /\ body'[k] = body[k]
    BY <1>1, <2>3, <2>4 DEF Undisturbed
  <2>5. CASE ~(meta'[k] = meta[k] /\ body'[k] = body[k])
    <3>1. k = writer[w].key /\ writer[w].pc \in CommitPCs
      BY <2>1, <2>5
    <3>2. writer[v].pc \notin CommitPCs
      BY <3>1 DEF FilesInv, WritersTypeOK, StoreUsed
    <3>3. g \in Gens => /\ meta'[k].path # g \/ meta'[k].path = meta[k].path
                        /\ body'[k][g] = NoBody \/ body'[k][g] = body[k][g]
      BY <2>2, <2>5, <3>1, NamesAssumption
    <3> QED
      BY <1>1, <2>3, <3>2, <3>3 DEF Undisturbed
  <2> QED
    BY <2>4, <2>5
<1> QED
  BY <1>2, <1>3

(***************************************************************************)
(* Removing a body file, a metadata file or both keeps the names right.     *)
(***************************************************************************)
LEMMA FilesRemoved ==
  ASSUME DiskTypeOK, NamesMatch, NEW k \in Keys, NEW p \in Paths,
         \/ body' = [body EXCEPT ![k][p] = NoBody]
         \/ body' = body,
         \/ meta' = [meta EXCEPT ![k] = AbsentMeta]
         \/ meta' = meta,
         bodyTemps' \in [Keys -> SUBSET Gens], metaTemps' \in [Keys -> SUBSET Gens]
  PROVE  /\ DiskTypeOK' /\ NamesMatch'
         /\ \A h \in Keys : meta'[h] \in {meta[h], AbsentMeta}
         /\ \A h \in Keys : \A q \in Paths : body'[h][q] \in {NoBody, body[h][q]}
         /\ \A h \in Keys \ {k} : meta'[h] = meta[h] /\ body'[h] = body[h]
         /\ \A q \in Paths \ {p} : body'[k][q] = body[k][q]
<1> USE DEF DiskTypeOK
<1>1. NoBody \in Bodies /\ AbsentMeta \in Metas
      /\ AbsentMeta.path = NoPath /\ AbsentMeta.state = "absent"
  BY DEF NoBody, AbsentMeta, Bodies, Metas
<1>2. body' \in [Keys -> [Paths -> Bodies]] /\ meta' \in [Keys -> Metas]
  <2>1. [body[k] EXCEPT ![p] = NoBody] \in [Paths -> Bodies]
    BY <1>1
  <2>2. body' \in [Keys -> [Paths -> Bodies]]
    BY <2>1
  <2>3. meta' \in [Keys -> Metas]
    BY <1>1
  <2> QED
    BY <2>2, <2>3
<1>3. /\ \A h \in Keys : meta'[h] \in {meta[h], AbsentMeta}
      /\ \A h \in Keys : \A q \in Paths : body'[h][q] \in {NoBody, body[h][q]}
      /\ \A h \in Keys \ {k} : meta'[h] = meta[h] /\ body'[h] = body[h]
      /\ \A q \in Paths \ {p} : body'[k][q] = body[k][q]
  OBVIOUS
<1>4. \A h \in Keys : meta'[h].path = NoPath <=> ~Parses(h)'
  BY <1>1, <1>3 DEF Parses
<1>5. \A h \in Keys : Parses(h)' => meta'[h].content = meta'[h].path
  BY <1>1, <1>3 DEF Parses, NamesMatch
<1>6. \A h \in Keys : \A q \in Paths : Exists(h, q)' => body'[h][q].content = q
  BY <1>3 DEF Exists, NamesMatch
<1>7. \A h \in Keys : Parses(h)' /\ meta'[h].path \in Gens /\ Exists(h, meta[h].path)'
                       => body'[h][meta'[h].path].size = meta'[h].size
  BY <1>1, <1>3 DEF Exists, Parses, NamesMatch, Paths
<1> QED
  BY <1>2, <1>3, <1>4, <1>5, <1>6, <1>7 DEF NamesMatch

(***************************************************************************)
(* Taking s.mu and reading the previous entry.                              *)
(***************************************************************************)
LEMMA LockCommitFiles ==
  ASSUME FilesInv, NEW w \in Holders, LockCommit(w)
  PROVE  FilesInv'
<1> DEFINE k == writer[w].key
           s == StoreUsed(w)
           x == [writer[w] EXCEPT !.pc = "rename", !.prevPath = meta[k].path,
                                  !.prevBytes = EntryBytes[k], !.prevValid = Complete(k)]
<1>1. writer[w] \in Writers /\ k \in Keys /\ writer[w].pc = "lock" /\ k # NoKey
  BY DEF FilesInv, WritersTypeOK, At, LockCommit, Writers
<1>2. /\ meta[k].path \in Paths \cup {NoPath} /\ EntryBytes[k] \in Nat /\ Complete(k) \in BOOLEAN
  <2>1. meta[k] \in Metas
    BY <1>1 DEF FilesInv, DiskTypeOK
  <2>2. Complete(k) \in BOOLEAN
    BY DEF Complete, Parses, Exists
  <2> QED
    BY <1>1, <2>1, <2>2 DEF Metas, EntryBytes
<1>3. /\ x \in Writers /\ x.pc = "rename" /\ x.key = k /\ x.gen = writer[w].gen
      /\ x.prevPath = meta[k].path /\ x.prevBytes = EntryBytes[k] /\ x.prevValid = Complete(k)
  BY <1>1, <1>2 DEF Writers, WriterPCs
<1>4. writer' = [writer EXCEPT ![w] = x]
  BY <1>1 DEF LockCommit, Writers, FilesInv, WritersTypeOK, PreviousBytes
<1>5. UNCHANGED <<disk, activeTemps>>
  BY DEF LockCommit
<1> HIDE DEF x
<1>6. s \in Stores /\ mu[s] = NoOne /\ mu' = [mu EXCEPT ![s] = w]
  BY <1>1, StoresAssumption DEF LockCommit, StoreUsed, Free
<1>7. \A v \in Holders : writer'[v] = IF v = w THEN x ELSE writer[v]
  BY <1>4 DEF FilesInv, WritersTypeOK
<1>8. WritersTypeOK'
  <2> USE DEF FilesInv, WritersTypeOK
  <2>1. writer' \in [Holders -> Writers] /\ mu' \in [Stores -> Holders \cup {Collector, NoOne}]
    BY <1>3, <1>4, <1>6
  <2>2. \A t \in Stores : mu'[t] = IF t = s THEN w ELSE mu[t]
    BY <1>6
  <2>3. \A v \in Holders : At(v, "idle")' <=> writer'[v].key = NoKey
    BY <1>1, <1>3, <1>7 DEF At
  <2>4. \A v \in Holders : writer'[v].pc \in CommitPCs => mu'[StoreOf[writer'[v].key]] = v
    <3> SUFFICES ASSUME NEW v \in Holders, writer'[v].pc \in CommitPCs
                 PROVE  mu'[StoreOf[writer'[v].key]] = v
      OBVIOUS
    <3>1. CASE v = w
      BY <1>3, <1>6, <1>7, <2>2, <3>1 DEF StoreUsed
    <3>2. CASE v # w
      <4>1. writer'[v] = writer[v] /\ mu[StoreUsed(v)] = v
        BY <1>7, <3>2
      <4>2. writer[v].key \in Keys
        BY <4>1 DEF Writers, At, CommitPCs
      <4>3. StoreUsed(v) \in Stores /\ StoreUsed(v) # s
        BY <1>6, <4>1, <4>2, StoresAssumption, NamesAssumption DEF StoreUsed
      <4> QED
        BY <2>2, <4>1, <4>3 DEF StoreUsed
    <3> QED
      BY <3>1, <3>2
  <2>5. \A t \in Stores : mu'[t] \in Holders
                          => writer'[mu'[t]].pc \in CommitPCs /\ StoreOf[writer'[mu'[t]].key] = t
    <3> SUFFICES ASSUME NEW t \in Stores, mu'[t] \in Holders
                 PROVE  writer'[mu'[t]].pc \in CommitPCs /\ StoreOf[writer'[mu'[t]].key] = t
      OBVIOUS
    <3>1. CASE t = s
      BY <1>3, <1>7, <2>2, <3>1 DEF StoreUsed, CommitPCs
    <3>2. CASE t # s
      <4>1. mu'[t] = mu[t] /\ writer[mu[t]].pc \in CommitPCs /\ StoreUsed(mu[t]) = t
        BY <2>2, <3>2
      <4>2. mu[t] # w
        BY <1>1, <4>1 DEF CommitPCs
      <4> QED
        BY <1>7, <4>1, <4>2 DEF StoreUsed
    <3> QED
      BY <3>1, <3>2
  <2> QED
    BY <1>5, <2>1, <2>3, <2>4, <2>5 DEF StoreUsed
<1>9. DiskTypeOK' /\ NamesMatch'
  BY <1>5, SameDisk
<1>10. \A v \in Holders \ {w} : Undisturbed(v)
  BY <1>5, <1>7, QuietStep
<1>11. TempsKept(w) /\ FilesKept(w)
  BY DEF FilesInv
<1>12. TempsKept(w)'
  BY <1>1, <1>3, <1>5, <1>7, <1>11 DEF TempsKept, BodyTempPCs, MetaTempPCs, disk
<1>13. Complete(k)' = Complete(k) /\ EntryBytes[k]' = EntryBytes[k] /\ k' = k
  BY <1>1, <1>3, <1>5, <1>7 DEF Complete, Parses, Exists, EntryBytes, disk
<1>14. FilesKept(w)'
  <2>1. meta[k].path # writer[w].gen /\ body[k][writer[w].gen] = NoBody
    BY <1>1, <1>11 DEF FilesKept, BodyTempPCs
  <2> QED
    BY <1>3, <1>5, <1>7, <1>13, <2>1 DEF FilesKept, BodyTempPCs, disk
<1> QED
  BY <1>3, <1>7, <1>8, <1>9, <1>10, <1>12, <1>14, OneWriter

(***************************************************************************)
(* What the invariant says of a write in its commit section.                *)
(***************************************************************************)
LEMMA CommitFacts ==
  ASSUME FilesInv, NEW w \in Holders, writer[w].pc \in CommitPCs
  PROVE  /\ writer[w] \in Writers /\ writer[w].key \in Keys /\ writer[w].gen \in Gens
         /\ writer[w].gen \in Paths /\ writer[w].gen # NoPath
         /\ meta[writer[w].key] \in Metas
         /\ body[writer[w].key] \in [Paths -> Bodies]
<1>1. writer[w] \in Writers /\ writer[w].key \in Keys
  BY DEF FilesInv, WritersTypeOK, Writers, At, CommitPCs
<1>2. writer[w].gen \in Gens
  BY DEF FilesInv, TempsKept, CommitPCs
<1> QED
  BY <1>1, <1>2, NamesAssumption DEF Paths, FilesInv, DiskTypeOK

(***************************************************************************)
(* Leaving the commit section, whatever of its own entry the write removed. *)
(***************************************************************************)
LEMMA LeaveFiles ==
  ASSUME FilesInv, NEW w \in Holders, writer[w].pc \in CommitPCs, LeaveCommit(w),
         UNCHANGED <<activeTemps, bodyTemps, metaTemps>>,
         NEW p \in Paths,
         \/ body' = [body EXCEPT ![writer[w].key][p] = NoBody]
         \/ body' = body,
         \/ meta' = [meta EXCEPT ![writer[w].key] = AbsentMeta]
         \/ meta' = meta
  PROVE  FilesInv'
<1> DEFINE k == writer[w].key
           g == writer[w].gen
<1>1. /\ writer[w] \in Writers /\ k \in Keys /\ g \in Gens
      /\ g \in Paths /\ g # NoPath
  BY CommitFacts
<1>2. /\ WritersTypeOK'
      /\ writer'[w] = [writer[w] EXCEPT !.pc = "dropMeta"]
      /\ \A v \in Holders \ {w} : writer'[v] = writer[v]
  BY LeaveType
<1>3. writer'[w].pc = "dropMeta" /\ writer'[w].gen = g /\ writer'[w].key = k
  BY <1>1, <1>2 DEF Writers
<1>4. bodyTemps' \in [Keys -> SUBSET Gens] /\ metaTemps' \in [Keys -> SUBSET Gens]
      /\ DiskTypeOK /\ NamesMatch
  BY DEF FilesInv, DiskTypeOK
<1>5. /\ DiskTypeOK' /\ NamesMatch'
      /\ \A h \in Keys : meta'[h] \in {meta[h], AbsentMeta}
      /\ \A h \in Keys : \A q \in Paths : body'[h][q] \in {NoBody, body[h][q]}
      /\ \A h \in Keys \ {k} : meta'[h] = meta[h] /\ body'[h] = body[h]
  BY <1>1, <1>4, FilesRemoved
<1>6. \A v \in Holders \ {w} : Undisturbed(v)
  <2>1. meta'[k].path \in {meta[k].path, NoPath, g}
    BY <1>1, <1>5 DEF AbsentMeta
  <2>2. \A q \in Gens \ {g} : body'[k][q] \in {NoBody, body[k][q]}
    BY <1>1, <1>5 DEF Paths
  <2> QED
    BY <1>1, <1>2, <1>5, <2>1, <2>2, OwnFilesOnly
<1>7. TempsKept(w)' /\ FilesKept(w)'
  BY <1>1, <1>3 DEF TempsKept, FilesKept, BodyTempPCs, MetaTempPCs
<1> QED
  BY <1>2, <1>3, <1>5, <1>6, <1>7, OneWriter

LEMMA RenameBodyFiles ==
  ASSUME FilesInv, NEW w \in Holders, RenameBody(w)
  PROVE  FilesInv'
<1> DEFINE k == writer[w].key
           g == writer[w].gen
           b == [size |-> writer[w].written, content |-> g]
           x == [writer[w] EXCEPT !.pc = "replace"]
<1>1. writer[w].pc = "rename" /\ writer[w].pc \in CommitPCs
  BY DEF RenameBody, At, CommitPCs
<1>2. /\ writer[w] \in Writers /\ k \in Keys /\ g \in Gens /\ g \in Paths /\ g # NoPath
      /\ meta[k] \in Metas /\ body[k] \in [Paths -> Bodies]
  BY <1>1, CommitFacts
<1>3. /\ x \in Writers /\ x.pc = "replace" /\ x.key = k /\ x.gen = g
      /\ x.prevPath = writer[w].prevPath /\ x.prevBytes = writer[w].prevBytes
      /\ x.prevValid = writer[w].prevValid /\ x.written = writer[w].written
  BY <1>2 DEF Writers, WriterPCs
<1>4. writer' = [writer EXCEPT ![w] = x]
  BY DEF RenameBody, Goto
<1>5. UNCHANGED <<meta, metaTemps, mu, activeTemps>>
  BY DEF RenameBody
<1>6. b \in Bodies /\ b # NoBody /\ b.content = g /\ b.size = writer[w].written
  BY <1>2, WidthAssumption DEF Bodies, Writers, NoBody
<1>7. body' = [body EXCEPT ![k][g] = b] /\ bodyTemps' = [bodyTemps EXCEPT ![k] = @ \ {g}]
  BY DEF RenameBody, generationPath
<1> HIDE DEF x, b
<1>8. /\ DiskTypeOK /\ NamesMatch /\ TempsKept(w) /\ FilesKept(w)
      /\ body \in [Keys -> [Paths -> Bodies]] /\ bodyTemps \in [Keys -> SUBSET Gens]
  BY DEF FilesInv, DiskTypeOK
<1>9. /\ \A h \in Keys \ {k} : body'[h] = body[h]
      /\ \A p \in Paths : body'[k][p] = IF p = g THEN b ELSE body[k][p]
      /\ body' \in [Keys -> [Paths -> Bodies]]
      /\ bodyTemps' \in [Keys -> SUBSET Gens]
  <2>1. [body[k] EXCEPT ![g] = b] \in [Paths -> Bodies]
    BY <1>2, <1>6
  <2> QED
    BY <1>2, <1>7, <1>8, <2>1
<1>10. WritersTypeOK'
  BY <1>1, <1>3, <1>4, <1>5, CommitMoveType DEF CommitPCs
<1>11. \A v \in Holders : writer'[v] = IF v = w THEN x ELSE writer[v]
  BY <1>4 DEF FilesInv, WritersTypeOK
<1>12. DiskTypeOK'
  BY <1>5, <1>8, <1>9 DEF DiskTypeOK, Parses
<1>13. /\ meta[k].path # g /\ body[k][g] = NoBody
       /\ writer[w].prevPath = meta[k].path /\ writer[w].prevBytes = EntryBytes[k]
       /\ writer[w].prevValid = Complete(k)
  BY <1>1, <1>8 DEF FilesKept, BodyTempPCs
<1>14. NamesMatch'
  <2>1. \A h \in Keys : Parses(h)' => meta'[h].content = meta'[h].path
    BY <1>5, <1>8 DEF NamesMatch, Parses
  <2>2. \A h \in Keys : \A p \in Paths : Exists(h, p)' => body'[h][p].content = p
    BY <1>6, <1>8, <1>9 DEF NamesMatch, Exists
  <2>3. \A h \in Keys : Parses(h)' /\ meta'[h].path \in Gens /\ Exists(h, meta[h].path)'
                          => body'[h][meta'[h].path].size = meta'[h].size
    BY <1>5, <1>8, <1>9, <1>13 DEF NamesMatch, Exists, Parses, Paths
  <2> QED
    BY <2>1, <2>2, <2>3 DEF NamesMatch
<1>15. \A v \in Holders \ {w} : Undisturbed(v)
  <2>1. \A h \in Keys : bodyTemps[h] \ {g} \subseteq bodyTemps'[h]
    BY <1>2, <1>7, <1>8
  <2>2. \A p \in Gens \ {g} : body'[k][p] \in {NoBody, body[k][p]}
    BY <1>9 DEF Paths
  <2> QED
    BY <1>1, <1>2, <1>5, <1>9, <1>11, <2>1, <2>2, OwnFilesOnly
<1>16. TempsKept(w)'
  BY <1>1, <1>2, <1>3, <1>5, <1>8, <1>11 DEF TempsKept, BodyTempPCs, MetaTempPCs
<1>17. FilesKept(w)'
  <2>1. \A p \in Paths \ {g} : body'[k][p] = body[k][p]
    BY <1>9
  <2>2. Complete(k)' = Complete(k)
    <3>1. Parses(k) => meta[k].path \in Paths \ {g}
      BY <1>2, <1>13, <1>8 DEF DiskTypeOK, Metas
    <3>2. k' = k /\ meta[k]' = meta[k]
      BY <1>3, <1>5, <1>11
    <3>3. Parses(k) => body'[k][meta[k].path] = body[k][meta[k].path]
      BY <2>1, <3>1
    <3>4. meta[k].path' = meta[k].path /\ Parses(k)' = Parses(k) /\ body[k]' = body'[k]
      BY <3>2 DEF Parses
    <3> QED
      BY <3>2, <3>3, <3>4 DEF Complete, Exists
  <2>3. k' = k /\ g' = g /\ EntryBytes[k]' = EntryBytes[k]
    BY <1>2, <1>3, <1>5, <1>11, <2>2 DEF EntryBytes
  <2>4. writer'[w] = x /\ body'[k][g] = [size |-> x.written, content |-> g]
    BY <1>2, <1>3, <1>9, <1>11 DEF b
  <2> QED
    BY <1>3, <1>5, <1>13, <2>2, <2>3, <2>4 DEF FilesKept, BodyTempPCs
<1> QED
  BY <1>3, <1>10, <1>11, <1>12, <1>14, <1>15, <1>16, <1>17, OneWriter

LEMMA ReplaceMetaFiles ==
  ASSUME FilesInv, NEW w \in Holders, ReplaceMeta(w)
  PROVE  FilesInv'
<1> DEFINE k == writer[w].key
           g == writer[w].gen
           m == ParsedMeta(g, writer[w].written, g)
           x == [writer[w] EXCEPT !.pc = "commit"]
<1>1. writer[w].pc \in {"replace", "retry"} /\ writer[w].pc \in CommitPCs
  BY DEF ReplaceMeta, At, CommitPCs
<1>2. /\ writer[w] \in Writers /\ k \in Keys /\ g \in Gens /\ g \in Paths /\ g # NoPath
  BY <1>1, CommitFacts
<1>3. /\ x \in Writers /\ x.pc = "commit" /\ x.key = k /\ x.gen = g
      /\ x.prevPath = writer[w].prevPath /\ x.written = writer[w].written
  BY <1>2 DEF Writers, WriterPCs
<1>4. writer' = [writer EXCEPT ![w] = x]
  BY DEF ReplaceMeta, Goto
<1>5. UNCHANGED <<body, bodyTemps, mu, activeTemps>>
  BY DEF ReplaceMeta
<1>6. /\ m \in Metas /\ m.path = g /\ m.content = g /\ m.state = "parsed"
      /\ m.size = writer[w].written
  BY <1>2, WidthAssumption DEF Metas, ParsedMeta, Writers
<1>7. meta' = [meta EXCEPT ![k] = m] /\ metaTemps' = [metaTemps EXCEPT ![k] = @ \ {g}]
  BY DEF ReplaceMeta, generationPath
<1> HIDE DEF x, m
<1>8. /\ DiskTypeOK /\ NamesMatch /\ TempsKept(w) /\ FilesKept(w)
      /\ meta \in [Keys -> Metas] /\ metaTemps \in [Keys -> SUBSET Gens]
  BY DEF FilesInv, DiskTypeOK
<1>9. /\ \A h \in Keys : meta'[h] = IF h = k THEN m ELSE meta[h]
      /\ meta' \in [Keys -> Metas] /\ metaTemps' \in [Keys -> SUBSET Gens]
  BY <1>2, <1>6, <1>7, <1>8
<1>10. WritersTypeOK'
  BY <1>1, <1>3, <1>4, <1>5, CommitMoveType DEF CommitPCs
<1>11. \A v \in Holders : writer'[v] = IF v = w THEN x ELSE writer[v]
  BY <1>4 DEF FilesInv, WritersTypeOK
<1>12. DiskTypeOK'
  <2>1. \A h \in Keys : meta'[h].path = NoPath <=> ~Parses(h)'
    BY <1>2, <1>6, <1>8, <1>9 DEF DiskTypeOK, Parses
  <2> QED
    BY <1>5, <1>8, <1>9, <2>1 DEF DiskTypeOK
<1>13. body[k][g] = [size |-> writer[w].written, content |-> g] /\ writer[w].prevPath # g
  BY <1>1, <1>8 DEF FilesKept
<1>14. NamesMatch'
  <2>1. \A h \in Keys : Parses(h)' => meta'[h].content = meta'[h].path
    BY <1>6, <1>8, <1>9 DEF NamesMatch, Parses
  <2>2. \A h \in Keys : \A p \in Paths : Exists(h, p)' => body'[h][p].content = p
    BY <1>5, <1>8 DEF NamesMatch, Exists
  <2>3. \A h \in Keys : Parses(h)' /\ meta'[h].path \in Gens /\ Exists(h, meta[h].path)'
                          => body'[h][meta'[h].path].size = meta'[h].size
    BY <1>5, <1>6, <1>8, <1>9, <1>13 DEF NamesMatch, Exists, Parses
  <2> QED
    BY <2>1, <2>2, <2>3 DEF NamesMatch
<1>15. \A v \in Holders \ {w} : Undisturbed(v)
  <2>1. \A h \in Keys : metaTemps[h] \ {g} \subseteq metaTemps'[h]
    BY <1>2, <1>7, <1>8
  <2> QED
    BY <1>1, <1>2, <1>5, <1>6, <1>9, <1>11, <2>1, OwnFilesOnly
<1>16. TempsKept(w)'
  BY <1>2, <1>3, <1>11 DEF TempsKept, BodyTempPCs, MetaTempPCs
<1>17. FilesKept(w)'
  <2>1. writer'[w] = x /\ body'[k][g] = [size |-> x.written, content |-> g]
        /\ meta'[k] = ParsedMeta(g, x.written, g) /\ x.prevPath # g
    BY <1>2, <1>3, <1>5, <1>9, <1>11, <1>13 DEF m
  <2> QED
    BY <1>3, <2>1 DEF FilesKept, BodyTempPCs, ParsedMeta
<1> QED
  BY <1>3, <1>10, <1>11, <1>12, <1>14, <1>15, <1>16, <1>17, OneWriter

LEMMA RemoveDestinationFiles ==
  ASSUME FilesInv, NEW w \in Holders, RemoveDestination(w)
  PROVE  FilesInv'
<1> DEFINE k == writer[w].key
           g == writer[w].gen
           x == [writer[w] EXCEPT !.pc = "retry"]
<1>1. writer[w].pc = "replace" /\ writer[w].pc \in CommitPCs
  BY DEF RemoveDestination, At, CommitPCs
<1>2. /\ writer[w] \in Writers /\ k \in Keys /\ g \in Gens /\ g \in Paths /\ g # NoPath
  BY <1>1, CommitFacts
<1>3. /\ x \in Writers /\ x.pc = "retry" /\ x.key = k /\ x.gen = g
      /\ x.prevPath = writer[w].prevPath /\ x.written = writer[w].written
  BY <1>2 DEF Writers, WriterPCs
<1>4. writer' = [writer EXCEPT ![w] = x]
  BY DEF RemoveDestination, Goto
<1>5. UNCHANGED <<body, bodyTemps, metaTemps, mu, activeTemps>>
  BY DEF RemoveDestination
<1>6. meta' = [meta EXCEPT ![k] = AbsentMeta]
  BY DEF RemoveDestination
<1> HIDE DEF x
<1>7. /\ DiskTypeOK /\ NamesMatch /\ TempsKept(w) /\ FilesKept(w) /\ meta \in [Keys -> Metas]
      /\ bodyTemps' \in [Keys -> SUBSET Gens] /\ metaTemps' \in [Keys -> SUBSET Gens]
  BY <1>5 DEF FilesInv, DiskTypeOK
<1>8. DiskTypeOK' /\ NamesMatch' /\ \A h \in Keys \ {k} : meta'[h] = meta[h]
  BY <1>2, <1>5, <1>6, <1>7, FilesRemoved
<1>9. WritersTypeOK'
  BY <1>1, <1>3, <1>4, <1>5, CommitMoveType DEF CommitPCs
<1>10. \A v \in Holders : writer'[v] = IF v = w THEN x ELSE writer[v]
  BY <1>4 DEF FilesInv, WritersTypeOK
<1>11. meta'[k] = AbsentMeta /\ meta'[k].path = NoPath
  BY <1>2, <1>6, <1>7 DEF AbsentMeta
<1>12. \A v \in Holders \ {w} : Undisturbed(v)
  BY <1>1, <1>2, <1>5, <1>8, <1>10, <1>11, OwnFilesOnly
<1>13. TempsKept(w)'
  BY <1>1, <1>2, <1>3, <1>5, <1>7, <1>10 DEF TempsKept, BodyTempPCs, MetaTempPCs
<1>14. FilesKept(w)'
  <2>1. /\ body[k][g] = [size |-> writer[w].written, content |-> g]
        /\ meta[k].path # g /\ writer[w].prevPath = meta[k].path
    BY <1>1, <1>7 DEF FilesKept
  <2> QED
    BY <1>3, <1>5, <1>10, <1>11, <2>1 DEF FilesKept, BodyTempPCs
<1> QED
  BY <1>3, <1>8, <1>9, <1>10, <1>12, <1>13, <1>14, OneWriter

LEMMA FinishPutFiles ==
  ASSUME FilesInv, NEW w \in Holders, FinishPut(w)
  PROVE  FilesInv'
<1> DEFINE k == writer[w].key
           g == writer[w].gen
<1>1. writer[w].pc = "commit" /\ writer[w].pc \in CommitPCs
  BY DEF FinishPut, At, CommitPCs
<1>2. g \in Paths /\ writer[w] \in Writers
  BY <1>1, CommitFacts
<1>3. /\ LeaveCommit(w) /\ meta' = meta
      /\ UNCHANGED <<activeTemps, bodyTemps, metaTemps>>
  BY DEF FinishPut
<1>4. \/ body' = body
      \/ body' = [body EXCEPT ![k][g] = NoBody]
      \/ writer[w].prevPath # NoPath /\ body' = [body EXCEPT ![k][writer[w].prevPath] = NoBody]
  <2>1. Unlink(k, g) \/ RemovePrevious(w)
    BY DEF FinishPut, generationPath
  <2> QED
    BY <2>1 DEF Unlink, RemovePrevious, generationPath
<1>5. writer[w].prevPath # NoPath => writer[w].prevPath \in Paths
  BY <1>2 DEF Writers
<1> QED
  BY <1>1, <1>2, <1>3, <1>4, <1>5, LeaveFiles

LEMMA ReplaceFailsFiles ==
  ASSUME FilesInv, NEW w \in Holders, ReplaceFails(w)
  PROVE  FilesInv'
<1>1. writer[w].pc \in CommitPCs
  BY DEF ReplaceFails, At, CommitPCs
<1>2. writer[w].gen \in Paths
  BY <1>1, CommitFacts
<1> QED
  BY <1>1, <1>2, LeaveFiles DEF ReplaceFails, Unlink, generationPath

LEMMA RenameBodyFailsFiles ==
  ASSUME FilesInv, NEW w \in Holders, RenameBodyFails(w)
  PROVE  FilesInv'
<1>1. writer[w].pc \in CommitPCs
  BY DEF RenameBodyFails, At, CommitPCs
<1>2. writer[w].gen \in Paths
  BY <1>1, CommitFacts
<1> QED
  BY <1>1, <1>2, LeaveFiles DEF RenameBodyFails, disk

(***************************************************************************)
(* The deferred removal of a temporary file, which may fail, and its        *)
(* removal from activeTemps.                                                *)
(***************************************************************************)
LEMMA DropFiles ==
  ASSUME FilesInv, NEW w \in Holders, NEW pc \in {"dropBody", "release"}, Goto(w, pc),
         \/ writer[w].pc = "dropMeta"
         \/ writer[w].pc = "dropBody" /\ pc = "release",
         UNCHANGED <<meta, body, mu>>,
         \/ bodyTemps' = [bodyTemps EXCEPT ![writer[w].key] = @ \ {writer[w].gen}]
         \/ bodyTemps' = bodyTemps,
         \/ metaTemps' = [metaTemps EXCEPT ![writer[w].key] = @ \ {writer[w].gen}]
         \/ metaTemps' = metaTemps,
         NEW kind \in {"body", "metadata"},
         activeTemps' = [activeTemps EXCEPT ![writer[w].key] = @ \ {<<kind, writer[w].gen>>}]
  PROVE  FilesInv'
<1> DEFINE k == writer[w].key
           g == writer[w].gen
           x == [writer[w] EXCEPT !.pc = pc]
<1>1. writer[w] \in Writers /\ k \in Keys /\ k # NoKey
  BY DEF FilesInv, WritersTypeOK, At, Writers
<1>2. g \in Gens /\ g # NoPath
  BY NamesAssumption DEF FilesInv, TempsKept
<1>3. x \in Writers /\ x.pc = pc /\ x.key = k /\ x.gen = g
  BY <1>1 DEF Writers, WriterPCs
<1>4. writer' = [writer EXCEPT ![w] = x]
  BY DEF Goto
<1> HIDE DEF x
<1>5. \A v \in Holders : writer'[v] = IF v = w THEN x ELSE writer[v]
  BY <1>4 DEF FilesInv, WritersTypeOK
<1>6. /\ activeTemps \in [Keys -> SUBSET ({"body", "metadata"} \X Gens)]
      /\ bodyTemps \in [Keys -> SUBSET Gens] /\ metaTemps \in [Keys -> SUBSET Gens]
  BY DEF FilesInv, WritersTypeOK, DiskTypeOK
<1>7. /\ activeTemps' \in [Keys -> SUBSET ({"body", "metadata"} \X Gens)]
      /\ bodyTemps' \in [Keys -> SUBSET Gens] /\ metaTemps' \in [Keys -> SUBSET Gens]
  BY <1>1, <1>6
<1>8. WritersTypeOK'
  BY <1>1, <1>3, <1>4, <1>7, MoveType DEF CommitPCs
<1>9. DiskTypeOK' /\ NamesMatch'
  BY <1>7 DEF FilesInv, DiskTypeOK, NamesMatch, Parses, Exists
<1>10. \A v \in Holders \ {w} : Undisturbed(v)
  <2>1. \A h \in Keys : bodyTemps[h] \ {g} \subseteq bodyTemps'[h]
    BY <1>1, <1>6
  <2>2. \A h \in Keys : metaTemps[h] \ {g} \subseteq metaTemps'[h]
    BY <1>1, <1>6
  <2>3. \A h \in Keys : activeTemps[h] \ ({"body", "metadata"} \X {g}) \subseteq activeTemps'[h]
    BY <1>1, <1>6
  <2> QED
    BY <1>1, <1>2, <1>5, <2>1, <2>2, <2>3, OwnFilesOnly
<1>11. TempsKept(w)' /\ FilesKept(w)'
  BY <1>2, <1>3, <1>5 DEF TempsKept, FilesKept, BodyTempPCs, MetaTempPCs
<1> QED
  BY <1>3, <1>5, <1>8, <1>9, <1>10, <1>11, OneWriter

(***************************************************************************)
(* Every step of a write preserves FilesInv.                                *)
(***************************************************************************)
LEMMA PutFiles ==
  ASSUME FilesInv, NEW w \in Holders, Put(w)
  PROVE  FilesInv'
<1>1. ASSUME NEW k \in Keys, NEW n \in Sizes, NEW free \in FreeReadings, PutAdmitted(w, k, n, free)
      PROVE  FilesInv'
  BY <1>1, BeginWriteMove DEF PutAdmitted
<1>2. ASSUME UNCHANGED <<disk, mu, activeTemps, writer>> PROVE FilesInv'
  <2>1. \A v \in Holders : Undisturbed(v)
    BY <1>2, QuietStep
  <2>2. DiskTypeOK' /\ NamesMatch'
    BY <1>2, SameDisk
  <2>3. WritersTypeOK'
    BY <1>2 DEF FilesInv, WritersTypeOK, At, StoreUsed
  <2>4. TempsKept(w)' /\ FilesKept(w)'
    BY <2>1, UndisturbedKept
  <2>5. writer'[w].gen \in {NoPath, writer[w].gen}
    BY <1>2
  <2> QED
    BY <2>1, <2>2, <2>3, <2>4, <2>5, OneWriter
<1> QED
  BY <1>1, <1>2 DEF Put, PutRefused, PutUnknownLength

LEMMA PutStepFiles ==
  ASSUME FilesInv, NEW w \in Holders, PutStep(w)
  PROVE  FilesInv'
<1>1. ASSUME NEW g \in Gens, CreateBodyTemp(w, g) PROVE FilesInv'
  BY <1>1, CreateBodyTempFiles
<1>2. CASE CreateBodyTempFails(w)
  BY <1>2, GotoMove DEF CreateBodyTempFails, At
<1>3. ASSUME NEW n \in Sizes, StreamBody(w, n) PROVE FilesInv'
  BY <1>3, StreamMove
<1>4. ASSUME NEW n \in Sizes, NEW m \in Partial(w), StreamOverflows(w, n, m) PROVE FilesInv'
  BY <1>4, StreamCutMove DEF StreamOverflows
<1>5. ASSUME NEW m \in Partial(w), StreamFails(w, m) PROVE FilesInv'
  BY <1>5, StreamCutMove DEF StreamFails
<1>6. CASE CreateMetaTemp(w)
  BY <1>6, CreateMetaTempFiles
<1>7. CASE CreateMetaTempFails(w)
  BY <1>7, GotoMove DEF CreateMetaTempFails, At
<1>8. CASE WriteMetaTempFails(w)
  BY <1>8, GotoMove DEF WriteMetaTempFails, At
<1>9. CASE LockCommit(w)
  BY <1>9, LockCommitFiles
<1>10. CASE RenameBody(w)
  BY <1>10, RenameBodyFiles
<1>11. CASE RenameBodyFails(w)
  BY <1>11, RenameBodyFailsFiles
<1>12. CASE ReplaceMeta(w)
  BY <1>12, ReplaceMetaFiles
<1>13. CASE ReplaceFails(w)
  BY <1>13, ReplaceFailsFiles
<1>14. CASE FinishPut(w)
  BY <1>14, FinishPutFiles
<1>15. CASE DropMetaTemp(w)
  BY <1>15, DropFiles DEF DropMetaTemp, At
<1>16. CASE DropBodyTemp(w)
  BY <1>16, DropFiles DEF DropBodyTemp, At
<1>17. CASE ReleasePut(w)
  BY <1>17, ReleaseMove DEF ReleasePut
<1>18. CASE RemoveDestination(w)
  BY <1>18, RemoveDestinationFiles
<1> QED
  BY <1>1, <1>2, <1>3, <1>4, <1>5, <1>6, <1>7, <1>8, <1>9, <1>10, <1>11, <1>12, <1>13, <1>14,
     <1>15, <1>16, <1>17, <1>18 DEF PutStep

(***************************************************************************)
(* CleanupStaleTemps spares the temporary files of running writes.          *)
(***************************************************************************)
LEMMA CleanupFiles ==
  ASSUME FilesInv, NEW s \in Stores, CleanupStaleTemps(s)
  PROVE  FilesInv'
<1>1. PICK old \in SUBSET InactiveTemps(s) : RemoveTemps(old)
  BY DEF CleanupStaleTemps
<1>2. UNCHANGED <<meta, body, mu, activeTemps, writer>>
  BY DEF CleanupStaleTemps
<1>3. DiskTypeOK' /\ NamesMatch'
  <2>1. /\ bodyTemps \in [Keys -> SUBSET Gens] /\ metaTemps \in [Keys -> SUBSET Gens]
    BY DEF FilesInv, DiskTypeOK
  <2>2. /\ bodyTemps' \in [Keys -> SUBSET Gens] /\ metaTemps' \in [Keys -> SUBSET Gens]
    BY <1>1, <2>1 DEF RemoveTemps
  <2> QED
    BY <1>2, <2>2 DEF FilesInv, DiskTypeOK, NamesMatch, Parses, Exists
<1>4. WritersTypeOK'
  BY <1>2 DEF FilesInv, WritersTypeOK, At, StoreUsed
<1>5. \A v \in Holders : Undisturbed(v)
  <2> SUFFICES ASSUME NEW v \in Holders, writer[v].pc # "idle"
               PROVE  Undisturbed(v)
    BY <1>2 DEF Undisturbed
  <2> DEFINE k == writer[v].key
             g == writer[v].gen
  <2>1. k \in Keys
    BY DEF FilesInv, WritersTypeOK, Writers, At
  <2>2. \A t : <<k, t>> \in old => t \notin activeTemps[k]
    BY <1>1 DEF InactiveTemps
  <2>3. g \in bodyTemps[k] /\ <<"body", g>> \in activeTemps[k] => g \in bodyTemps'[k]
    BY <1>1, <2>1, <2>2 DEF RemoveTemps
  <2>4. g \in metaTemps[k] /\ <<"metadata", g>> \in activeTemps[k] => g \in metaTemps'[k]
    BY <1>1, <2>1, <2>2 DEF RemoveTemps
  <2> QED
    BY <1>2, <2>3, <2>4 DEF Undisturbed
<1>6. GensDistinct'
  BY <1>2 DEF FilesInv, GensDistinct
<1>7. \A v \in Holders : TempsKept(v)' /\ FilesKept(v)'
  BY <1>5, UndisturbedKept
<1> QED
  BY <1>3, <1>4, <1>6, <1>7 DEF FilesInv

(***************************************************************************)
(* A restart finds the files as they are and no write running.              *)
(***************************************************************************)
LEMMA CrashFiles ==
  ASSUME FilesInv, Crash
  PROVE  FilesInv'
<1>1. \E old : RemoveTemps(old)
  BY DEF Crash
<1>2. UNCHANGED <<meta, body>> /\ FreshProcess
  BY DEF Crash
<1>3. DiskTypeOK' /\ NamesMatch'
  <2>1. /\ bodyTemps \in [Keys -> SUBSET Gens] /\ metaTemps \in [Keys -> SUBSET Gens]
    BY DEF FilesInv, DiskTypeOK
  <2>2. /\ bodyTemps' \in [Keys -> SUBSET Gens] /\ metaTemps' \in [Keys -> SUBSET Gens]
    BY <1>1, <2>1 DEF RemoveTemps
  <2> QED
    BY <1>2, <2>2 DEF FilesInv, DiskTypeOK, NamesMatch, Parses, Exists
<1>4. IdleWriter \in Writers /\ IdleWriter.pc = "idle" /\ IdleWriter.key = NoKey
      /\ IdleWriter.gen = NoPath
  BY WidthAssumption DEF IdleWriter, Writers, WriterPCs
<1>5. /\ writer' \in [Holders -> Writers]
      /\ \A w \in Holders : writer'[w] = IdleWriter
      /\ activeTemps' \in [Keys -> SUBSET ({"body", "metadata"} \X Gens)]
      /\ mu' \in [Stores -> Holders \cup {Collector, NoOne}]
      /\ \A s \in Stores : mu'[s] = NoOne
  BY <1>2, <1>4 DEF FreshProcess
<1>6. WritersTypeOK'
  BY <1>4, <1>5, NamesAssumption DEF WritersTypeOK, At, StoreUsed, CommitPCs
<1>7. GensDistinct'
  BY <1>4, <1>5 DEF GensDistinct
<1>8. \A v \in Holders : TempsKept(v)' /\ FilesKept(v)'
  BY <1>4, <1>5 DEF TempsKept, FilesKept, BodyTempPCs, MetaTempPCs
<1> QED
  BY <1>3, <1>6, <1>7, <1>8 DEF FilesInv

(***************************************************************************)
(* The files an older release may have left.                                *)
(***************************************************************************)
LEMMA StartFiles == StoreInit => FilesInv
<1> SUFFICES ASSUME StoreInit PROVE FilesInv
  OBVIOUS
<1>1. PICK files \in [Keys -> FilesAtStart] :
       /\ meta = [k \in Keys |-> files[k][1]]
       /\ body = [k \in Keys |-> [p \in Paths |-> IF p = Legacy THEN files[k][2] ELSE NoBody]]
  BY DEF StoreInit
<1>2. \A k \in Keys :
        /\ meta[k] \in Metas
        /\ meta[k].path = NoPath <=> ~Parses(k)
        /\ Parses(k) => meta[k].path = Legacy /\ meta[k].content = Legacy
        /\ files[k][2] \in Bodies
        /\ files[k][2] # NoBody => files[k][2].content = Legacy
  <2> SUFFICES ASSUME NEW k \in Keys
               PROVE  /\ meta[k] \in Metas
                      /\ meta[k].path = NoPath <=> ~Parses(k)
                      /\ Parses(k) => meta[k].path = Legacy /\ meta[k].content = Legacy
                      /\ files[k][2] \in Bodies
                      /\ files[k][2] # NoBody => files[k][2].content = Legacy
    OBVIOUS
  <2>1. meta[k] = files[k][1] /\ files[k] \in FilesAtStart
    BY <1>1
  <2>2. NoBody \in Bodies
    BY DEF NoBody, Bodies
  <2>3. CASE files[k] = <<AbsentMeta, NoBody>>
    BY <2>1, <2>2, <2>3 DEF AbsentMeta, Metas, Parses
  <2>4. CASE files[k] = <<MalformedMeta, NoBody>>
    BY <2>1, <2>2, <2>4 DEF AbsentMeta, MalformedMeta, Metas, Parses
  <2>5. CASE files[k] \in {<<ParsedMeta(Legacy, n, Legacy), b>> :
               n \in StartSizes, b \in {NoBody} \cup [size : StartSizes, content : {Legacy}]}
    <3>1. PICK n \in StartSizes, b \in {NoBody} \cup [size : StartSizes, content : {Legacy}] :
            files[k] = <<ParsedMeta(Legacy, n, Legacy), b>>
      BY <2>5
    <3>2. n \in Nat /\ Legacy \in Paths /\ Legacy # NoPath
      BY StartAssumption, WidthAssumption, NamesAssumption DEF Paths
    <3>3. meta[k] = ParsedMeta(Legacy, n, Legacy) /\ files[k][2] = b
      BY <2>1, <3>1
    <3>4. b \in Bodies /\ (b # NoBody => b.content = Legacy)
      <4>1. CASE b = NoBody
        BY <2>2, <4>1
      <4>2. CASE b # NoBody
        <5>1. b \in [size : StartSizes, content : {Legacy}]
          BY <4>2
        <5>2. StartSizes \subseteq Nat
          BY StartAssumption, WidthAssumption
        <5> QED
          BY <3>2, <5>1, <5>2 DEF Bodies
      <4> QED
        BY <4>1, <4>2
    <3> QED
      BY <3>2, <3>3, <3>4 DEF ParsedMeta, Metas, Parses
  <2> QED
    BY <2>1, <2>3, <2>4, <2>5 DEF FilesAtStart
<1>3. NoBody \in Bodies
  BY DEF NoBody, Bodies
<1>4. DiskTypeOK
  BY <1>1, <1>2, <1>3 DEF DiskTypeOK, StoreInit
<1>5. NamesMatch
  <2>1. \A k \in Keys : \A p \in Paths : Exists(k, p) => body[k][p].content = p
    BY <1>1, <1>2 DEF Exists
  <2> QED
    BY <1>2, <2>1, NamesAssumption DEF NamesMatch
<1>6. IdleWriter \in Writers /\ IdleWriter.pc = "idle" /\ IdleWriter.key = NoKey
      /\ IdleWriter.gen = NoPath
  BY WidthAssumption DEF IdleWriter, Writers, WriterPCs
<1>7. /\ \A w \in Holders : writer[w] = IdleWriter
      /\ \A s \in Stores : mu[s] = NoOne
      /\ writer \in [Holders -> Writers]
      /\ activeTemps \in [Keys -> SUBSET ({"body", "metadata"} \X Gens)]
      /\ mu \in [Stores -> Holders \cup {Collector, NoOne}]
  BY <1>6 DEF StoreInit
<1>8. WritersTypeOK
  BY <1>6, <1>7, NamesAssumption DEF WritersTypeOK, At, StoreUsed, CommitPCs
<1>9. GensDistinct
  BY <1>6, <1>7 DEF GensDistinct
<1>10. \A v \in Holders : TempsKept(v) /\ FilesKept(v)
  BY <1>6, <1>7 DEF TempsKept, FilesKept, BodyTempPCs, MetaTempPCs
<1> QED
  BY <1>4, <1>5, <1>8, <1>9, <1>10 DEF FilesInv

-----------------------------------------------------------------------------
(* The stores on their own, without a collector.                            *)

LEMMA StoreStepFiles ==
  ASSUME FilesInv, [StoreNext]_storeVars
  PROVE  FilesInv'
<1>1. ASSUME NEW w \in Holders, Put(w) PROVE FilesInv'
  BY <1>1, PutFiles
<1>2. ASSUME NEW w \in Holders, PutStep(w) PROVE FilesInv'
  BY <1>2, PutStepFiles
<1>3. ASSUME NEW s \in Stores, CleanupStaleTemps(s) PROVE FilesInv'
  BY <1>3, CleanupFiles
<1>4. CASE Crash
  BY <1>4, CrashFiles
<1>5. CASE UNCHANGED storeVars
  <2>1. UNCHANGED <<disk, mu, activeTemps, writer>>
    BY <1>5 DEF storeVars, disk
  <2>2. \A v \in Holders : Undisturbed(v)
    BY <2>1, QuietStep
  <2>3. DiskTypeOK' /\ NamesMatch'
    BY <2>1, SameDisk
  <2>4. WritersTypeOK' /\ GensDistinct'
    BY <2>1 DEF FilesInv, WritersTypeOK, At, StoreUsed, GensDistinct
  <2>5. \A v \in Holders : TempsKept(v)' /\ FilesKept(v)'
    BY <2>2, UndisturbedKept
  <2> QED
    BY <2>3, <2>4, <2>5 DEF FilesInv
<1> QED
  BY <1>1, <1>2, <1>3, <1>4, <1>5 DEF StoreNext

LEMMA StoreFiles == StoreSpec => []FilesInv
<1>1. StoreInit => FilesInv
  BY StartFiles
<1>2. FilesInv /\ [StoreNext]_storeVars => FilesInv'
  BY StoreStepFiles
<1> QED
  BY <1>1, <1>2, PTL DEF StoreSpec

(***************************************************************************)
(* Whatever fails, dies or overtakes whom: the files have their types,      *)
(* s.mu is held by exactly the write in its commit section, and a lookup    *)
(* that hits serves a body and metadata of one write (store.go:98-140,      *)
(* 349-378).                                                                *)
(***************************************************************************)
THEOREM StoreHitsServeOneWrite ==
  StoreSpec => [](DiskTypeOK /\ WritersTypeOK /\ HitsServeOneWrite)
<1>1. FilesInv => DiskTypeOK /\ WritersTypeOK /\ HitsServeOneWrite
  BY NamesLemma DEF FilesInv
<1> QED
  BY <1>1, StoreFiles, PTL

(***************************************************************************)
(* The temporary files of a running write are there until it renames them,  *)
(* also while CleanupStaleTemps runs (store.go:260-265, 488-491).           *)
(***************************************************************************)
THEOREM StoreActiveTempsSurvive == StoreSpec => []ActiveTempsSurvive
<1>1. FilesInv => ActiveTempsSurvive
  BY DEF FilesInv, TempsKept, ActiveTempsSurvive, BodyTempPCs, MetaTempPCs
<1> QED
  BY <1>1, StoreFiles, PTL

-----------------------------------------------------------------------------
(* The stores and the collector.                                            *)

(* What the collector relies on in its exclusive sections, and what it      *)
(* knows of its candidates: a generation always has the size its metadata   *)
(* records, and the body of an older release only ever disappears.          *)
WalkOK ==
  /\ gc.pc \in ExclusivePCs => gc.store \in Stores
  /\ gc.pc \in {"walk", "walkMeta"} => gc.todo \subseteq CompleteIn(gc.store)
  /\ gc.pc \in {"walkMeta", "evictMeta"} => gc.key \in KeysOf(gc.store) /\ ~Complete(gc.key)

CandidatesOK ==
  \A c \in gc.candidates :
    c.path = Legacy /\ Exists(c.key, Legacy) => body[c.key][Legacy].size = c.size

PendingPCs == {"walk", "walkMeta", "report", "evictMeta", "evictReport"}
PendingOK == gc.pc \notin PendingPCs => gc.pending = 0

CollectionInv ==
  /\ FilesInv /\ ControllerInv
  /\ CollectorTypeOK /\ WalkOK /\ CandidatesOK /\ PendingOK

(***************************************************************************)
(* A write touches the entry of a key only while it holds s.mu of the       *)
(* key's store, only ever removes the body of an older release, and never   *)
(* takes s.mu from the collector or hands it over.                          *)
(***************************************************************************)
LEMMA WriterTouches ==
  ASSUME FilesInv, NEW w \in Holders, Put(w) \/ PutStep(w)
  PROVE  /\ \A k \in Keys : mu[StoreOf[k]] # w => meta'[k] = meta[k] /\ body'[k] = body[k]
         /\ \A k \in Keys : body'[k][Legacy] \in {NoBody, body[k][Legacy]}
         /\ \A s \in Stores : mu[s] = Collector <=> mu'[s] = Collector
         /\ \A k \in Keys \ {writer[w].key} : meta'[k] = meta[k] /\ body'[k] = body[k]
<1>1. CASE UNCHANGED <<meta, body, mu>>
  BY <1>1
<1>2. CASE LockCommit(w)
  <2>1. UNCHANGED <<meta, body>>
    BY <1>2 DEF LockCommit, disk
  <2>2. mu' = [mu EXCEPT ![StoreUsed(w)] = w] /\ mu[StoreUsed(w)] = NoOne
    BY <1>2 DEF LockCommit, Free
  <2>3. \A s \in Stores : mu[s] = Collector <=> mu'[s] = Collector
    BY <2>2, NamesAssumption DEF FilesInv, WritersTypeOK
  <2> QED
    BY <2>1, <2>3
<1>3. CASE writer[w].pc \in CommitPCs /\ PutStep(w)
  <2> DEFINE k == writer[w].key
             g == writer[w].gen
  <2>1. /\ writer[w] \in Writers /\ k \in Keys /\ g \in Gens /\ g \in Paths /\ g # NoPath
        /\ body[k] \in [Paths -> Bodies] /\ mu[StoreOf[k]] = w
    BY <1>3, CommitFacts DEF FilesInv, WritersTypeOK, StoreUsed
  <2>2. /\ \/ mu' = mu
           \/ mu' = [mu EXCEPT ![StoreOf[k]] = NoOne]
        /\ \/ meta' = meta
           \/ meta' = [meta EXCEPT ![k] = AbsentMeta]
           \/ meta' = [meta EXCEPT ![k] = ParsedMeta(g, writer[w].written, g)]
        /\ \/ body' = body
           \/ \E p \in Paths : body' = [body EXCEPT ![k][p] = NoBody]
           \/ body' = [body EXCEPT ![k][g] = [size |-> writer[w].written, content |-> g]]
    <3>1. CASE RenameBody(w)
      BY <3>1 DEF RenameBody, generationPath
    <3>2. CASE RenameBodyFails(w)
      BY <3>2 DEF RenameBodyFails, LeaveCommit, disk, StoreUsed
    <3>3. CASE ReplaceMeta(w)
      BY <3>3 DEF ReplaceMeta, generationPath
    <3>4. CASE ReplaceFails(w)
      BY <2>1, <3>4 DEF ReplaceFails, Unlink, LeaveCommit, generationPath, StoreUsed
    <3>5. CASE FinishPut(w)
      <4>1. mu' = [mu EXCEPT ![StoreOf[k]] = NoOne] /\ meta' = meta
        BY <3>5 DEF FinishPut, LeaveCommit, StoreUsed
      <4>2. Unlink(k, g) \/ RemovePrevious(w)
        BY <3>5 DEF FinishPut, generationPath
      <4>3. writer[w].prevPath # NoPath => writer[w].prevPath \in Paths
        BY <2>1 DEF Writers
      <4> QED
        BY <2>1, <4>1, <4>2, <4>3 DEF Unlink, RemovePrevious
    <3>6. CASE RemoveDestination(w)
      BY <3>6 DEF RemoveDestination
    <3> QED
      BY <1>3, <3>1, <3>2, <3>3, <3>4, <3>5, <3>6
         DEF PutStep, CommitPCs, At, CreateBodyTemp, CreateBodyTempFails, StreamBody, StreamOverflows,
             StreamFails, CreateMetaTemp, CreateMetaTempFails, WriteMetaTempFails, LockCommit,
             DropMetaTemp, DropBodyTemp, ReleasePut
  <2>3. \A s \in Stores : mu[s] = Collector <=> mu'[s] = Collector
    BY <2>1, <2>2, NamesAssumption DEF FilesInv, WritersTypeOK
  <2>6. \A h \in Keys \ {k} : meta'[h] = meta[h] /\ body'[h] = body[h]
    BY <2>2 DEF FilesInv, DiskTypeOK
  <2>4. \A h \in Keys : mu[StoreOf[h]] # w => meta'[h] = meta[h] /\ body'[h] = body[h]
    BY <2>1, <2>6
  <2>5. \A h \in Keys : body'[h][Legacy] \in {NoBody, body[h][Legacy]}
    <3>1. g # Legacy /\ Legacy \in Paths /\ body \in [Keys -> [Paths -> Bodies]]
      BY <2>1, NamesAssumption DEF Paths, FilesInv, DiskTypeOK
    <3>2. CASE \E p \in Paths : body' = [body EXCEPT ![k][p] = NoBody]
      BY <2>1, <3>1, <3>2
    <3>3. CASE body' = [body EXCEPT ![k][g] = [size |-> writer[w].written, content |-> g]]
      BY <2>1, <3>1, <3>3
    <3>4. CASE body' = body
      BY <3>4
    <3> QED
      BY <2>2, <3>2, <3>3, <3>4
  <2> QED
    BY <2>3, <2>4, <2>5, <2>6
<1>4. CASE writer[w].pc \notin CommitPCs /\ PutStep(w) /\ ~LockCommit(w)
  <2>1. UNCHANGED <<meta, body, mu>>
    BY <1>4 DEF PutStep, CommitPCs, At, CreateBodyTemp, CreateBodyTempFails, StreamBody,
        StreamOverflows, StreamFails, CreateMetaTemp, CreateMetaTempFails, WriteMetaTempFails,
        RenameBody, RenameBodyFails, ReplaceMeta, RemoveDestination,
        ReplaceFails, FinishPut, DropMetaTemp,
        DropBodyTemp, ReleasePut, disk
  <2> QED
    BY <1>1, <2>1
<1>5. CASE Put(w)
  <2>1. UNCHANGED <<meta, body, mu>>
    BY <1>5 DEF Put, PutAdmitted, PutRefused, PutUnknownLength, disk
  <2> QED
    BY <1>1, <2>1
<1> QED
  BY <1>2, <1>3, <1>4, <1>5

(***************************************************************************)
(* The controller keeps its invariant under the calls that writes make.     *)
(***************************************************************************)
LEMMA WriterLedger ==
  ASSUME FilesInv, ControllerInv, NEW w \in Holders, Put(w) \/ PutStep(w)
  PROVE  ControllerInv'
<1>1. CASE UNCHANGED controllerVars
  BY <1>1, ControllerStutter
<1>2. ASSUME NEW n \in Sizes \cup {0}, RecordBypass(n) PROVE ControllerInv'
  <2>1. n \in -1..MaxInt
    BY InputsAssumption, WidthAssumption
  <2> QED
    BY <1>2, <2>1, RecordBypassInv
<1>3. ASSUME NEW n \in Sizes, NEW free \in FreeReadings, ReserveGranted(w, n, free)
      PROVE  ControllerInv'
  <2>1. n \in -1..MaxInt /\ free \in 0..MaxInt
    BY InputsAssumption, WidthAssumption
  <2> QED
    BY <1>3, <2>1, ReserveGrantedInv
<1>4. CASE Put(w)
  BY <1>1, <1>2, <1>3, <1>4 DEF Put, PutAdmitted, PutRefused, PutUnknownLength, ReserveRefused
<1>5. CASE FinishPut(w)
  <2>1. writer[w].written \in 0..MaxInt /\ writer[w].prevBytes \in Nat
    BY DEF FilesInv, WritersTypeOK, Writers
  <2>2. CASE HasController
    <3>1. Commit(w, writer[w].written, writer[w].prevBytes)
      BY <1>5, <2>2 DEF FinishPut
    <3> QED
      BY <2>1, <3>1, CommitInv
  <2> QED
    BY <1>1, <1>5, <2>2 DEF FinishPut
<1>6. CASE ReleasePut(w)
  BY <1>1, <1>6, ReleaseInv DEF ReleasePut
<1>7. ASSUME NEW n \in Sizes, NEW m \in Partial(w), StreamOverflows(w, n, m) PROVE ControllerInv'
  BY <1>2, <1>7 DEF StreamOverflows
<1>8. CASE PutStep(w)
  <2>1. \/ UNCHANGED controllerVars
        \/ FinishPut(w) \/ ReleasePut(w)
        \/ \E n \in Sizes, m \in Partial(w) : StreamOverflows(w, n, m)
    BY <1>8 DEF PutStep, CreateBodyTemp, CreateBodyTempFails, StreamBody,
        StreamFails, CreateMetaTemp, CreateMetaTempFails, WriteMetaTempFails,
        RenameBody, RenameBodyFails, ReplaceMeta, RemoveDestination,
        ReplaceFails, DropMetaTemp, LockCommit,
        DropBodyTemp
  <2> QED
    BY <1>1, <1>5, <1>6, <1>7, <2>1
<1> QED
  BY <1>4, <1>8

(***************************************************************************)
(* What Reconcile adds up is a natural number.                              *)
(***************************************************************************)
LEMMA EntryBytesType ==
  ASSUME DiskTypeOK
  PROVE  /\ \A k \in Keys : EntryBytes[k] \in Nat
         /\ Total(Keys, EntryBytes) \in Nat
<1>1. \A k \in Keys : EntryBytes[k] \in Nat
  BY DEF DiskTypeOK, EntryBytes, Metas
<1> QED
  BY <1>1, StoresAssumption, TotalType

LEMMA CrashLedger ==
  ASSUME FilesInv, Crash
  PROVE  ControllerInv'
<1>1. committedBytes' \in 0..MaxInt
  <2>1. Total(Keys, EntryBytes) \in Nat
    BY EntryBytesType DEF FilesInv
  <2> QED
    BY <2>1, WidthAssumption DEF Crash, FreshController, Min
<1> QED
  BY <1>1, FreshLedgerInv DEF Crash, FreshController

LEMMA StartLedger == StoreInit => ControllerInv
<1> SUFFICES ASSUME StoreInit PROVE ControllerInv
  OBVIOUS
<1>1. committedBytes \in 0..MaxInt
  <2>1. Total(Keys, EntryBytes) \in Nat
    BY StartFiles, EntryBytesType DEF FilesInv
  <2> QED
    BY <2>1, WidthAssumption DEF StoreInit, Min
<1>2. ControllerTypeOK
  BY <1>1, WidthAssumption DEF StoreInit, ControllerTypeOK, Reservations, SpentReservation
<1>3. \A h \in Holders : Outstanding[h] = 0
  BY DEF StoreInit, Outstanding, SpentReservation
<1>4. Total(Holders, Outstanding) = 0
  BY <1>3, TotalZero
<1> QED
  BY <1>2, <1>4 DEF ControllerInv, ReservedIsOutstanding, StoreInit

(***************************************************************************)
(* The collector takes or returns an s.mu that no write holds.              *)
(***************************************************************************)
LEMMA CollectorMu ==
  ASSUME FilesInv, UNCHANGED <<writer, activeTemps>>,
         NEW s \in Stores, mu[s] \notin Holders,
         mu' = mu \/ mu' = [mu EXCEPT ![s] = Collector] \/ mu' = [mu EXCEPT ![s] = NoOne]
  PROVE  WritersTypeOK'
<1> USE DEF FilesInv, WritersTypeOK
<1>1. mu' \in [Stores -> Holders \cup {Collector, NoOne}]
  OBVIOUS
<1>2. \A t \in Stores : t = s \/ mu'[t] = mu[t]
  OBVIOUS
<1>3. mu'[s] \notin Holders
  BY NamesAssumption
<1>4. \A w \in Holders : writer[w].pc \in CommitPCs =>
        StoreOf[writer[w].key] \in Stores /\ mu[StoreOf[writer[w].key]] = w
  BY StoresAssumption DEF StoreUsed, Writers, At, CommitPCs
<1>5. \A w \in Holders : writer[w].pc \in CommitPCs => mu'[StoreOf[writer[w].key]] = w
  BY <1>2, <1>4
<1>6. \A t \in Stores : mu'[t] \in Holders
                          => writer[mu'[t]].pc \in CommitPCs /\ StoreOf[writer[mu'[t]].key] = t
  BY <1>2, <1>3 DEF StoreUsed
<1> QED
  BY <1>1, <1>5, <1>6 DEF At, StoreUsed

(***************************************************************************)
(* The collector removes files of a key whose s.mu no write holds.          *)
(***************************************************************************)
LEMMA CollectorFiles ==
  ASSUME FilesInv, UNCHANGED <<writer, activeTemps, bodyTemps, metaTemps>>,
         NEW k \in Keys, mu[StoreOf[k]] \notin Holders, NEW p \in Paths,
         body' = [body EXCEPT ![k][p] = NoBody] \/ body' = body,
         meta' = [meta EXCEPT ![k] = AbsentMeta] \/ meta' = meta,
         WritersTypeOK'
  PROVE  FilesInv'
<1>1. bodyTemps' \in [Keys -> SUBSET Gens] /\ metaTemps' \in [Keys -> SUBSET Gens]
      /\ DiskTypeOK /\ NamesMatch
  BY DEF FilesInv, DiskTypeOK
<1>2. /\ DiskTypeOK' /\ NamesMatch'
      /\ \A h \in Keys : meta'[h] \in {meta[h], AbsentMeta}
      /\ \A h \in Keys : \A q \in Paths : body'[h][q] \in {NoBody, body[h][q]}
      /\ \A h \in Keys \ {k} : meta'[h] = meta[h] /\ body'[h] = body[h]
  BY <1>1, FilesRemoved
<1>3. \A v \in Holders : Undisturbed(v)
  <2> SUFFICES ASSUME NEW v \in Holders, writer[v].pc # "idle"
               PROVE  Undisturbed(v)
    BY DEF Undisturbed
  <2> DEFINE h == writer[v].key
             g == writer[v].gen
  <2>1. h \in Keys
    BY DEF FilesInv, WritersTypeOK, Writers, At
  <2>2. CASE h # k
    BY <1>2, <2>1, <2>2 DEF Undisturbed
  <2>3. CASE h = k
    <3>1. writer[v].pc \notin CommitPCs
      BY <2>3 DEF FilesInv, WritersTypeOK, StoreUsed
    <3>2. g \in Gens => /\ meta'[h].path # g \/ meta'[h].path = meta[h].path
                        /\ body'[h][g] = NoBody \/ body'[h][g] = body[h][g]
      BY <1>2, <2>1, NamesAssumption DEF AbsentMeta, Paths
    <3> QED
      BY <3>1, <3>2 DEF Undisturbed
  <2> QED
    BY <2>2, <2>3
<1>4. \A v \in Holders : TempsKept(v)' /\ FilesKept(v)'
  BY <1>3, UndisturbedKept
<1>5. GensDistinct'
  BY DEF FilesInv, GensDistinct
<1> QED
  BY <1>2, <1>4, <1>5 DEF FilesInv

(***************************************************************************)
(* A step of the collector that leaves the stores alone, outside its        *)
(* exclusive sections or between two entries of a walk.                     *)
(***************************************************************************)
LEMMA StoresStutter ==
  ASSUME FilesInv, ControllerInv, UNCHANGED storeVars
  PROVE  FilesInv' /\ ControllerInv'
<1>1. FilesInv'
  BY StoreStepFiles
<1>2. ControllerInv'
  BY ControllerStutter DEF storeVars, controllerVars
<1> QED
  BY <1>1, <1>2

LEMMA GcQuiet ==
  ASSUME CollectionInv, UNCHANGED storeVars, gc' \in Collections, serving' \in BOOLEAN,
         gc.pc \notin ExclusivePCs, gc'.pc \notin ExclusivePCs,
         gc'.candidates \subseteq gc.candidates,
         gc'.pc \notin PendingPCs => gc'.pending = 0
  PROVE  CollectionInv'
<1>1. FilesInv' /\ ControllerInv'
  BY StoresStutter DEF CollectionInv
<1>2. CollectorTypeOK'
  BY DEF CollectionInv, CollectorTypeOK, storeVars
<1>3. WalkOK'
  BY DEF WalkOK, ExclusivePCs
<1>4. CandidatesOK'
  BY DEF CollectionInv, CandidatesOK, Exists, storeVars
<1> QED
  BY <1>1, <1>2, <1>3, <1>4 DEF CollectionInv, PendingOK

(***************************************************************************)
(* The run ends outside an exclusive section.                               *)
(***************************************************************************)
LEMMA FinishRunType ==
  ASSUME CollectorTypeOK, FinishRun
  PROVE  /\ gc' \in Collections /\ serving' \in BOOLEAN
         /\ gc'.pc = "idle" /\ gc'.pending = 0 /\ gc'.candidates = {}
         /\ gc'.unreported = gc.unreported + gc.pending
<1> DEFINE u == gc.unreported + gc.pending
<1>1. u \in Nat
  BY DEF CollectorTypeOK, Collections
<1>2. gc' = [pc |-> "idle", left |-> {}, todo |-> {}, store |-> NoOne, key |-> NoKey, pending |-> 0,
             goal |-> 0, removed |-> 0, candidates |-> {}, unreported |-> u]
  BY DEF FinishRun, IdleCollection
<1> HIDE DEF u
<1>3. gc' \in Collections
  BY <1>1, <1>2 DEF Collections, CollectionPCs
<1> QED
  BY <1>2, <1>3 DEF FinishRun, u

LEMMA FinishQuietly ==
  ASSUME CollectionInv, UNCHANGED storeVars, FinishRun, gc.pc \notin ExclusivePCs
  PROVE  CollectionInv'
<1>1. /\ gc' \in Collections /\ serving' \in BOOLEAN
      /\ gc'.pc = "idle" /\ gc'.pending = 0 /\ gc'.candidates = {}
  BY FinishRunType DEF CollectionInv
<1> QED
  BY <1>1, GcQuiet DEF ExclusivePCs

(***************************************************************************)
(* The listing of candidates and the steps between two stores.              *)
(***************************************************************************)
LEMMA GoalType ==
  ASSUME ControllerInv
  PROVE  committedBytes - LowBytes \in Int
<1>1. MaxBytes \in Nat /\ LowBasisPoints \in Nat /\ committedBytes \in Nat
  BY LimitsAssumption, WidthAssumption DEF ControllerInv, ControllerTypeOK
<1>2. LowBytes \in Int
  <2>1. /\ MaxBytes \div 10000 \in Int /\ MaxBytes % 10000 \in Int
    BY <1>1
  <2>2. \A a, b \in Int : a * b \in Int
    OBVIOUS
  <2>3. (MaxBytes \div 10000) * LowBasisPoints \in Int /\ (MaxBytes % 10000) * LowBasisPoints \in Int
    BY <1>1, <2>1, <2>2
  <2>4. \A a \in Int : a \div 10000 \in Int
    OBVIOUS
  <2> QED
    BY <2>3, <2>4 DEF LowBytes, scaleBasisPoints
<1> QED
  BY <1>1, <1>2

LEMMA GcPlainSteps ==
  ASSUME CollectionInv,
         \/ StartRun \/ CollectByAge \/ CollectUnderPressure \/ AgeDone \/ TakeSnapshot
         \/ ListDone \/ ListFails \/ EvictDone \/ CancelRun
         \/ \E c \in gc.candidates : EvictStale(c) \/ EvictSkip(c)
  PROVE  CollectionInv'
<1>1. gc \in Collections /\ serving \in BOOLEAN /\ CollectorTypeOK
  BY DEF CollectionInv, CollectorTypeOK
<1>2. gc.pc \notin PendingPCs => gc.pending = 0
  BY DEF CollectionInv, PendingOK
<1>3. CASE StartRun \/ CollectByAge \/ CollectUnderPressure \/ ListDone
  <2>1. \/ gc.pc = "idle" /\ gc' = [gc EXCEPT !.pc = "collect"]
        \/ gc.pc = "collect" /\ gc' = [gc EXCEPT !.pc = "age", !.left = Stores]
        \/ gc.pc = "collect" /\ gc' = [gc EXCEPT !.pc = "snapshot"]
        \/ gc.pc = "list" /\ gc' = [gc EXCEPT !.pc = "evict"]
    BY <1>3 DEF StartRun, CollectByAge, CollectUnderPressure, ListDone, GCAt
  <2>2. UNCHANGED <<storeVars, serving>>
    BY <1>3 DEF StartRun, CollectByAge, CollectUnderPressure, ListDone
  <2>3. /\ gc' \in Collections /\ gc'.candidates = gc.candidates /\ gc'.pending = gc.pending
        /\ gc.pc \in {"idle", "collect", "list"} /\ gc'.pc \in {"collect", "age", "snapshot", "evict"}
    BY <1>1, <2>1 DEF Collections, CollectionPCs
  <2> QED
    BY <1>1, <1>2, <2>2, <2>3, GcQuiet DEF ExclusivePCs, PendingPCs
<1>4. CASE AgeDone \/ ListFails \/ EvictDone \/ CancelRun
  <2>1. UNCHANGED storeVars /\ FinishRun /\ gc.pc \in {"age", "list", "evict"}
    BY <1>4 DEF AgeDone, ListFails, EvictDone, CancelRun, GCAt
  <2> QED
    BY <2>1, FinishQuietly DEF ExclusivePCs
<1>5. CASE TakeSnapshot
  <2>1. UNCHANGED storeVars /\ gc.pc = "snapshot"
    BY <1>5 DEF TakeSnapshot, GCAt
  <2>2. CASE FinishRun
    BY <2>1, <2>2, FinishQuietly DEF ExclusivePCs
  <2>3. CASE ~FinishRun
    <3> DEFINE goal == committedBytes - LowBytes
    <3>1. /\ ~(goal <= 0) /\ UNCHANGED serving
          /\ gc' = [gc EXCEPT !.pc = "list", !.goal = goal, !.left = Stores]
      BY <1>5, <2>3 DEF TakeSnapshot
    <3>2. goal \in Int
      BY GoalType DEF CollectionInv
    <3>3. goal \in Nat
      BY <3>1, <3>2
    <3> HIDE DEF goal
    <3>4. /\ gc' \in Collections /\ gc'.candidates = gc.candidates /\ gc'.pending = gc.pending
          /\ gc'.pc = "list"
      BY <1>1, <3>1, <3>3 DEF Collections, CollectionPCs
    <3> QED
      BY <1>1, <1>2, <2>1, <3>1, <3>4, GcQuiet DEF ExclusivePCs, PendingPCs
  <2> QED
    BY <2>2, <2>3
<1>6. CASE \E c \in gc.candidates : EvictStale(c) \/ EvictSkip(c)
  <2>1. PICK c \in gc.candidates : EvictStale(c) \/ EvictSkip(c)
    BY <1>6
  <2>2. /\ gc.pc = "evict" /\ gc' = [gc EXCEPT !.candidates = @ \ {c}]
        /\ UNCHANGED <<storeVars, serving>>
    BY <2>1 DEF EvictStale, EvictSkip, Evicting, GCAt
  <2>3. /\ gc' \in Collections /\ gc'.candidates \subseteq gc.candidates
        /\ gc'.pending = gc.pending /\ gc'.pc = "evict"
    BY <1>1, <2>2 DEF Collections
  <2> QED
    BY <1>1, <1>2, <2>2, <2>3, GcQuiet DEF ExclusivePCs, PendingPCs
<1> QED
  BY <1>3, <1>4, <1>5, <1>6

LEMMA ListStoreInv ==
  ASSUME CollectionInv, NEW s \in Stores, ListStore(s)
  PROVE  CollectionInv'
<1>1. /\ gc \in Collections /\ serving \in BOOLEAN /\ gc.pc = "list"
      /\ UNCHANGED storeVars /\ UNCHANGED serving
      /\ gc' = [gc EXCEPT !.left = @ \ {s}, !.candidates = @ \cup CandidatesOf(s)]
  BY DEF CollectionInv, CollectorTypeOK, ListStore, GCAt
<1>2. \A k \in CompleteIn(s) : /\ k \in Keys /\ Complete(k)
                               /\ meta[k].path \in Paths /\ meta[k].size \in Nat
  BY DEF CompleteIn, KeysOf, CollectionInv, FilesInv, DiskTypeOK, Metas, Complete
<1>3. /\ CandidatesOf(s) \subseteq Candidates
      /\ \A c \in CandidatesOf(s) : Exists(c.key, c.path) /\ body[c.key][c.path].size = c.size
  BY <1>2 DEF CandidatesOf, Candidates, Complete
<1>4. /\ gc' \in Collections /\ gc'.pc = "list" /\ gc'.pending = gc.pending
      /\ gc'.candidates = gc.candidates \cup CandidatesOf(s)
  BY <1>1, <1>3 DEF Collections
<1>5. FilesInv' /\ ControllerInv'
  BY <1>1, StoresStutter DEF CollectionInv
<1>6. CollectorTypeOK'
  BY <1>1, <1>4 DEF CollectionInv, CollectorTypeOK, storeVars, ExclusivePCs
<1>7. WalkOK'
  BY <1>4 DEF WalkOK, ExclusivePCs
<1>8. CandidatesOK'
  BY <1>1, <1>3, <1>4 DEF CollectionInv, CandidatesOK, Exists, storeVars
<1>9. PendingOK'
  BY <1>1, <1>4 DEF CollectionInv, PendingOK, PendingPCs
<1> QED
  BY <1>5, <1>6, <1>7, <1>8, <1>9 DEF CollectionInv

(***************************************************************************)
(* A walk takes s.mu, reads which entries are complete, and skips some.     *)
(***************************************************************************)
LEMMA LockStoreInv ==
  ASSUME CollectionInv, NEW s \in Stores, LockStore(s)
  PROVE  CollectionInv'
<1>1. PICK old \in SUBSET CompleteIn(s) :
        gc' = [gc EXCEPT !.pc = "walk", !.store = s, !.todo = old, !.left = @ \ {s}]
  BY DEF LockStore
<1>2. /\ gc \in Collections /\ serving \in BOOLEAN /\ gc.pc = "age"
      /\ mu[s] = NoOne /\ mu' = [mu EXCEPT ![s] = Collector]
      /\ UNCHANGED <<disk, controllerVars, activeTemps, writer, serving>>
  BY DEF CollectionInv, CollectorTypeOK, LockStore, GCAt, CanTake
<1>3. CompleteIn(s) \subseteq Keys
  BY DEF CompleteIn, KeysOf
<1>4. /\ gc' \in Collections /\ gc'.pc = "walk" /\ gc'.store = s /\ gc'.todo = old
      /\ gc'.candidates = gc.candidates
  BY <1>1, <1>2, <1>3 DEF Collections, CollectionPCs
<1>5. WritersTypeOK'
  BY <1>2, CollectorMu, NamesAssumption DEF CollectionInv
<1>6. FilesInv'
  <2>1. DiskTypeOK' /\ NamesMatch'
    BY <1>2, SameDisk DEF CollectionInv
  <2>2. \A v \in Holders : Undisturbed(v)
    BY <1>2, QuietStep DEF CollectionInv
  <2>3. \A v \in Holders : TempsKept(v)' /\ FilesKept(v)'
    BY <2>2, UndisturbedKept DEF CollectionInv
  <2>4. GensDistinct'
    BY <1>2 DEF CollectionInv, FilesInv, GensDistinct
  <2> QED
    BY <1>5, <2>1, <2>3, <2>4 DEF FilesInv
<1>7. ControllerInv'
  BY <1>2, ControllerStutter DEF CollectionInv
<1>8. CollectorTypeOK'
  <2>1. \A t \in Stores : mu'[t] = IF t = s THEN Collector ELSE mu[t]
    BY <1>2 DEF CollectionInv, FilesInv, WritersTypeOK
  <2>2. \A t \in Stores : mu[t] # Collector
    BY <1>2 DEF CollectionInv, CollectorTypeOK, ExclusivePCs
  <2> QED
    BY <1>2, <1>4, <2>1, <2>2 DEF CollectorTypeOK, ExclusivePCs
<1>9. WalkOK'
  <2>1. CompleteIn(s)' = CompleteIn(s)
    BY <1>2 DEF CompleteIn, Complete, Parses, Exists, disk
  <2> QED
    BY <1>4, <2>1 DEF WalkOK
<1>10. CandidatesOK'
  BY <1>2, <1>4 DEF CollectionInv, CandidatesOK, Exists, disk
<1>11. PendingOK'
  BY <1>4 DEF PendingOK, PendingPCs
<1> QED
  BY <1>6, <1>7, <1>8, <1>9, <1>10, <1>11 DEF CollectionInv

LEMMA AgeSkipInv ==
  ASSUME CollectionInv, NEW k \in Keys, AgeSkip(k)
  PROVE  CollectionInv'
<1>1. /\ gc \in Collections /\ serving \in BOOLEAN /\ gc.pc = "walk"
      /\ gc' = [gc EXCEPT !.todo = @ \ {k}]
      /\ UNCHANGED storeVars /\ UNCHANGED serving
  BY DEF CollectionInv, CollectorTypeOK, AgeSkip, GCAt
<1>2. /\ gc' \in Collections /\ gc'.pc = "walk" /\ gc'.store = gc.store
      /\ gc'.todo \subseteq gc.todo /\ gc'.candidates = gc.candidates
  BY <1>1 DEF Collections, CollectionPCs
<1>3. FilesInv' /\ ControllerInv'
  BY <1>1, StoresStutter DEF CollectionInv
<1>4. CollectorTypeOK'
  BY <1>1, <1>2 DEF CollectionInv, CollectorTypeOK, storeVars
<1>5. WalkOK'
  <2>1. CompleteIn(gc.store)' = CompleteIn(gc.store)
    BY <1>1, <1>2 DEF CompleteIn, Complete, Parses, Exists, storeVars
  <2> QED
    BY <1>1, <1>2, <2>1 DEF CollectionInv, WalkOK
<1>6. CandidatesOK'
  BY <1>1, <1>2 DEF CollectionInv, CandidatesOK, Exists, storeVars
<1>7. PendingOK'
  BY <1>2 DEF PendingOK, PendingPCs
<1> QED
  BY <1>3, <1>4, <1>5, <1>6, <1>7 DEF CollectionInv

(***************************************************************************)
(* The collector removes the body of an entry, or its metadata, under s.mu. *)
(***************************************************************************)
LEMMA BodyRemoved ==
  ASSUME FilesInv, NEW k \in Keys, Parses(k), mu[StoreOf[k]] \notin Holders, RemoveBody(k),
         UNCHANGED <<meta, bodyTemps, metaTemps, activeTemps, writer>>,
         mu' = mu \/ mu' = [mu EXCEPT ![StoreOf[k]] = Collector]
  PROVE  /\ FilesInv' /\ ~Complete(k)'
         /\ \A h \in Keys \ {k} : Complete(h)' = Complete(h)
         /\ \A h \in Keys : body'[h][Legacy] \in {NoBody, body[h][Legacy]}
<1> DEFINE p == meta[k].path
<1>1. p \in Paths /\ StoreOf[k] \in Stores /\ Legacy \in Paths
  BY StoresAssumption DEF FilesInv, DiskTypeOK, Metas, Paths
<1>2. /\ body' = [body EXCEPT ![k][p] = NoBody] /\ meta' = meta
      /\ bodyTemps' \in [Keys -> SUBSET Gens] /\ metaTemps' \in [Keys -> SUBSET Gens]
      /\ DiskTypeOK /\ NamesMatch
  BY DEF RemoveBody, FilesInv, DiskTypeOK
<1>3. WritersTypeOK'
  BY <1>1, CollectorMu
<1> HIDE DEF p
<1>4. FilesInv'
  BY <1>1, <1>2, <1>3, CollectorFiles
<1>5. /\ \A h \in Keys : \A q \in Paths : body'[h][q] \in {NoBody, body[h][q]}
      /\ \A h \in Keys \ {k} : meta'[h] = meta[h] /\ body'[h] = body[h]
  BY <1>1, <1>2, FilesRemoved
<1>6. body'[k][p] = NoBody
  BY <1>1, <1>2 DEF DiskTypeOK
<1>7. ~Complete(k)'
  BY <1>2, <1>6 DEF Complete, Exists, p
<1>8. \A h \in Keys \ {k} : Complete(h)' = Complete(h)
  BY <1>5 DEF Complete, Parses, Exists
<1> QED
  BY <1>1, <1>4, <1>5, <1>7, <1>8

LEMMA MetaRemoved ==
  ASSUME FilesInv, NEW k \in Keys, ~Complete(k), mu[StoreOf[k]] \notin Holders, RemoveMeta(k),
         UNCHANGED <<body, bodyTemps, metaTemps, activeTemps, writer>>,
         mu' = mu \/ mu' = [mu EXCEPT ![StoreOf[k]] = NoOne]
  PROVE  FilesInv' /\ \A h \in Keys : Complete(h)' = Complete(h)
<1>1. /\ body' = body /\ (meta' = meta \/ meta' = [meta EXCEPT ![k] = AbsentMeta])
      /\ bodyTemps' \in [Keys -> SUBSET Gens] /\ metaTemps' \in [Keys -> SUBSET Gens]
      /\ DiskTypeOK /\ NamesMatch /\ Legacy \in Paths /\ StoreOf[k] \in Stores
  BY StoresAssumption DEF RemoveMeta, FilesInv, DiskTypeOK, Paths
<1>2. WritersTypeOK'
  BY <1>1, CollectorMu
<1>3. FilesInv'
  BY <1>1, <1>2, CollectorFiles
<1>4. /\ \A h \in Keys : meta'[h] \in {meta[h], AbsentMeta}
      /\ \A h \in Keys \ {k} : meta'[h] = meta[h] /\ body'[h] = body[h]
  BY <1>1, FilesRemoved
<1>5. ~Complete(k)'
  BY <1>1, <1>4 DEF Complete, Parses, Exists, AbsentMeta
<1>6. \A h \in Keys \ {k} : Complete(h)' = Complete(h)
  BY <1>4 DEF Complete, Parses, Exists
<1> QED
  BY <1>3, <1>5, <1>6 DEF Complete

(***************************************************************************)
(* The candidates stay right when bodies of older releases only disappear.  *)
(***************************************************************************)
LEMMA CandidatesKept ==
  ASSUME CollectorTypeOK, CandidatesOK, gc'.candidates \subseteq gc.candidates,
         \A h \in Keys : body'[h][Legacy] \in {NoBody, body[h][Legacy]}
  PROVE  CandidatesOK'
<1>1. \A c \in gc.candidates : c.key \in Keys
  BY DEF CollectorTypeOK, Collections, Candidates
<1> QED
  BY <1>1 DEF CandidatesOK, Exists

LEMMA AgeUnlinkInv ==
  ASSUME CollectionInv, NEW k \in Keys, AgeUnlink(k)
  PROVE  CollectionInv' /\ Complete(k)
<1>1. /\ gc \in Collections /\ serving \in BOOLEAN /\ gc.pc = "walk" /\ k \in gc.todo
      /\ RemoveBody(k)
      /\ gc' = [gc EXCEPT !.pc = "walkMeta", !.key = k, !.todo = @ \ {k},
                          !.pending = @ + meta[k].size]
      /\ UNCHANGED <<controllerVars, meta, bodyTemps, metaTemps, mu, activeTemps, writer, serving>>
  BY DEF CollectionInv, CollectorTypeOK, AgeUnlink, GCAt
<1>2. /\ gc.store \in Stores /\ gc.todo \subseteq CompleteIn(gc.store)
      /\ mu[gc.store] = Collector
  BY <1>1 DEF CollectionInv, WalkOK, CollectorTypeOK, ExclusivePCs
<1>3. Complete(k) /\ StoreOf[k] = gc.store /\ Parses(k) /\ mu[StoreOf[k]] \notin Holders
  BY <1>1, <1>2, NamesAssumption DEF CompleteIn, KeysOf, Complete
<1>4. /\ FilesInv' /\ ~Complete(k)'
      /\ \A h \in Keys \ {k} : Complete(h)' = Complete(h)
      /\ \A h \in Keys : body'[h][Legacy] \in {NoBody, body[h][Legacy]}
  BY <1>1, <1>3, BodyRemoved DEF CollectionInv
<1>5. meta[k].size \in Nat
  BY DEF CollectionInv, FilesInv, DiskTypeOK, Metas
<1>6. /\ gc' \in Collections /\ gc'.pc = "walkMeta" /\ gc'.store = gc.store
      /\ gc'.key = k /\ gc'.todo = gc.todo \ {k} /\ gc'.candidates = gc.candidates
  <2> DEFINE n == gc.pending + meta[k].size
  <2>1. n \in Nat
    BY <1>1, <1>5 DEF Collections
  <2>2. gc' = [gc EXCEPT !.pc = "walkMeta", !.key = k, !.todo = @ \ {k}, !.pending = n]
    BY <1>1
  <2> HIDE DEF n
  <2> QED
    BY <1>1, <2>1, <2>2 DEF Collections, CollectionPCs
<1>7. ControllerInv'
  BY <1>1, ControllerStutter DEF CollectionInv
<1>8. CollectorTypeOK'
  BY <1>1, <1>6 DEF CollectionInv, CollectorTypeOK, ExclusivePCs
<1>9. WalkOK'
  <2>1. gc'.todo \subseteq {h \in KeysOf(gc.store) : Complete(h)'}
    BY <1>2, <1>4, <1>6 DEF CompleteIn, KeysOf
  <2>2. CompleteIn(gc.store)' = {h \in KeysOf(gc.store) : Complete(h)'}
    BY <1>6 DEF CompleteIn, KeysOf
  <2>3. ~Complete(gc.key)'
    BY <1>4, <1>6 DEF Complete, Parses, Exists
  <2> QED
    BY <1>2, <1>3, <1>6, <2>1, <2>2, <2>3 DEF WalkOK, KeysOf
<1>10. CandidatesOK'
  BY <1>4, <1>6, CandidatesKept DEF CollectionInv
<1>11. PendingOK'
  BY <1>6 DEF PendingOK, PendingPCs
<1> QED
  BY <1>3, <1>4, <1>7, <1>8, <1>9, <1>10, <1>11 DEF CollectionInv

LEMMA AgeUnlinkMetaInv ==
  ASSUME CollectionInv, AgeUnlinkMeta
  PROVE  CollectionInv' /\ \A h \in Keys : Complete(h)' = Complete(h)
<1>1. /\ gc \in Collections /\ serving \in BOOLEAN /\ gc.pc = "walkMeta"
      /\ RemoveMeta(gc.key)
      /\ gc' = [gc EXCEPT !.pc = "walk", !.key = NoKey]
      /\ UNCHANGED <<controllerVars, body, bodyTemps, metaTemps, mu, activeTemps, writer, serving>>
  BY DEF CollectionInv, CollectorTypeOK, AgeUnlinkMeta, GCAt
<1>2. /\ gc.store \in Stores /\ gc.todo \subseteq CompleteIn(gc.store)
      /\ gc.key \in KeysOf(gc.store) /\ ~Complete(gc.key)
      /\ mu[gc.store] = Collector
  BY <1>1 DEF CollectionInv, WalkOK, CollectorTypeOK, ExclusivePCs
<1>3. gc.key \in Keys /\ mu[StoreOf[gc.key]] \notin Holders
  BY <1>2, NamesAssumption DEF KeysOf
<1>4. FilesInv' /\ \A h \in Keys : Complete(h)' = Complete(h)
  BY <1>1, <1>2, <1>3, MetaRemoved DEF CollectionInv
<1>5. /\ gc' \in Collections /\ gc'.pc = "walk" /\ gc'.store = gc.store
      /\ gc'.todo = gc.todo /\ gc'.candidates = gc.candidates
  BY <1>1 DEF Collections, CollectionPCs
<1>6. ControllerInv'
  BY <1>1, ControllerStutter DEF CollectionInv
<1>7. CollectorTypeOK'
  BY <1>1, <1>5 DEF CollectionInv, CollectorTypeOK, ExclusivePCs
<1>8. WalkOK'
  <2>1. CompleteIn(gc.store)' = CompleteIn(gc.store)
    BY <1>4, <1>5 DEF CompleteIn, KeysOf
  <2> QED
    BY <1>2, <1>5, <2>1 DEF WalkOK
<1>9. CandidatesOK'
  BY <1>1, <1>5, CandidatesKept DEF CollectionInv
<1>10. PendingOK'
  BY <1>5 DEF PendingOK, PendingPCs
<1> QED
  BY <1>4, <1>6, <1>7, <1>8, <1>9, <1>10 DEF CollectionInv

(***************************************************************************)
(* The collector returns s.mu at the end of a walk, complete or not.        *)
(***************************************************************************)
LEMMA UnlockInv ==
  ASSUME CollectionInv, gc.pc \in ExclusivePCs, UNCHANGED <<disk, activeTemps, writer>>,
         mu' = [mu EXCEPT ![gc.store] = NoOne],
         gc' \in Collections, gc'.pc \notin ExclusivePCs
  PROVE  FilesInv' /\ (serving' \in BOOLEAN => CollectorTypeOK') /\ WalkOK'
<1>1. gc.store \in Stores /\ mu[gc.store] = Collector
  BY DEF CollectionInv, WalkOK, CollectorTypeOK
<1>2. WritersTypeOK'
  BY <1>1, CollectorMu, NamesAssumption DEF CollectionInv
<1>3. DiskTypeOK' /\ NamesMatch'
  BY SameDisk DEF CollectionInv
<1>4. \A v \in Holders : Undisturbed(v)
  BY QuietStep DEF CollectionInv
<1>5. \A v \in Holders : TempsKept(v)' /\ FilesKept(v)'
  BY <1>4, UndisturbedKept DEF CollectionInv
<1>6. GensDistinct'
  BY DEF CollectionInv, FilesInv, GensDistinct
<1>7. \A s \in Stores : mu'[s] # Collector
  <2>1. \A s \in Stores : mu'[s] = IF s = gc.store THEN NoOne ELSE mu[s]
    BY <1>1 DEF CollectionInv, FilesInv, WritersTypeOK
  <2>2. \A s \in Stores : s # gc.store => mu[s] # Collector
    BY DEF CollectionInv, CollectorTypeOK
  <2> QED
    BY <2>1, <2>2, NamesAssumption
<1>8. serving' \in BOOLEAN => CollectorTypeOK'
  BY <1>7 DEF CollectorTypeOK
<1>9. WalkOK'
  BY DEF WalkOK, ExclusivePCs
<1> QED
  BY <1>2, <1>3, <1>5, <1>6, <1>8, <1>9 DEF FilesInv

LEMMA UnlockStoreInv ==
  ASSUME CollectionInv, UnlockStore
  PROVE  CollectionInv'
<1>1. /\ gc \in Collections /\ serving \in BOOLEAN /\ gc.pc = "walk"
      /\ gc' = [gc EXCEPT !.pc = "report", !.store = NoOne]
      /\ mu' = [mu EXCEPT ![gc.store] = NoOne]
      /\ UNCHANGED <<controllerVars, disk, activeTemps, writer, serving>>
  BY DEF CollectionInv, CollectorTypeOK, UnlockStore, GCAt
<1>2. /\ gc' \in Collections /\ gc'.pc = "report" /\ gc'.candidates = gc.candidates
  BY <1>1 DEF Collections, CollectionPCs
<1>3. FilesInv' /\ CollectorTypeOK' /\ WalkOK'
  BY <1>1, <1>2, UnlockInv DEF ExclusivePCs
<1>4. ControllerInv'
  BY <1>1, ControllerStutter DEF CollectionInv
<1>5. CandidatesOK'
  BY <1>1, <1>2, CandidatesKept DEF CollectionInv, disk
<1>6. PendingOK'
  BY <1>2 DEF PendingOK, PendingPCs
<1> QED
  BY <1>3, <1>4, <1>5, <1>6 DEF CollectionInv

LEMMA WalkFailsInv ==
  ASSUME CollectionInv, WalkFails
  PROVE  CollectionInv'
<1>1. /\ gc.pc = "walk" /\ FinishRun
      /\ mu' = [mu EXCEPT ![gc.store] = NoOne]
      /\ UNCHANGED <<controllerVars, disk, activeTemps, writer>>
  BY DEF WalkFails, GCAt
<1>2. /\ gc' \in Collections /\ serving' \in BOOLEAN
      /\ gc'.pc = "idle" /\ gc'.pending = 0 /\ gc'.candidates = {}
  BY <1>1, FinishRunType DEF CollectionInv
<1>3. FilesInv' /\ CollectorTypeOK' /\ WalkOK'
  BY <1>1, <1>2, UnlockInv DEF ExclusivePCs
<1>4. ControllerInv'
  BY <1>1, ControllerStutter DEF CollectionInv
<1>5. CandidatesOK' /\ PendingOK'
  BY <1>2 DEF CandidatesOK, PendingOK
<1> QED
  BY <1>3, <1>4, <1>5 DEF CollectionInv

(***************************************************************************)
(* The report to the controller, after s.mu has been released.              *)
(***************************************************************************)
LEMMA ReportInv ==
  ASSUME CollectionInv, ReportAge \/ ReportEvicted
  PROVE  CollectionInv'
<1>1. /\ gc \in Collections /\ serving \in BOOLEAN /\ gc.pc \in {"report", "evictReport"}
      /\ \/ gc' = [gc EXCEPT !.pc = "age", !.pending = 0]
         \/ gc' = [gc EXCEPT !.pc = "evict", !.removed = @ + gc.pending, !.pending = 0]
      /\ UNCHANGED <<disk, mu, activeTemps, writer, serving>>
  BY DEF CollectionInv, CollectorTypeOK, ReportAge, ReportEvicted, GCAt
<1>2. gc.pending \in Nat /\ gc.removed \in Nat
  BY <1>1 DEF Collections
<1>3. /\ gc' \in Collections /\ gc'.pc \in {"age", "evict"} /\ gc'.candidates = gc.candidates
      /\ gc'.pending = 0
  <2> DEFINE n == gc.removed + gc.pending
  <2>1. n \in Nat
    BY <1>2
  <2>2. \/ gc' = [gc EXCEPT !.pc = "age", !.pending = 0]
        \/ gc' = [gc EXCEPT !.pc = "evict", !.removed = n, !.pending = 0]
    BY <1>1
  <2> HIDE DEF n
  <2>3. CASE gc' = [gc EXCEPT !.pc = "age", !.pending = 0]
    BY <1>1, <2>3 DEF Collections, CollectionPCs
  <2>4. CASE gc' = [gc EXCEPT !.pc = "evict", !.removed = n, !.pending = 0]
    BY <1>1, <2>1, <2>4 DEF Collections, CollectionPCs
  <2> QED
    BY <2>2, <2>3, <2>4
<1>4. ControllerInv'
  <2>1. Remove(gc.pending) \/ UNCHANGED controllerVars
    BY DEF ReportAge, ReportEvicted
  <2>2. CASE Remove(gc.pending)
    BY <1>2, <2>2, RemoveInv DEF CollectionInv
  <2>3. CASE UNCHANGED controllerVars
    BY <2>3, ControllerStutter DEF CollectionInv
  <2> QED
    BY <2>1, <2>2, <2>3
<1>5. FilesInv'
  <2>1. WritersTypeOK' /\ GensDistinct'
    BY <1>1 DEF CollectionInv, FilesInv, WritersTypeOK, At, StoreUsed, GensDistinct
  <2>2. DiskTypeOK' /\ NamesMatch'
    BY <1>1, SameDisk DEF CollectionInv
  <2>3. \A v \in Holders : Undisturbed(v)
    BY <1>1, QuietStep DEF CollectionInv
  <2>4. \A v \in Holders : TempsKept(v)' /\ FilesKept(v)'
    BY <2>3, UndisturbedKept DEF CollectionInv
  <2> QED
    BY <2>1, <2>2, <2>4 DEF FilesInv
<1>6. CollectorTypeOK' /\ WalkOK'
  BY <1>1, <1>3 DEF CollectionInv, CollectorTypeOK, WalkOK, ExclusivePCs
<1>7. CandidatesOK'
  BY <1>1, <1>3, CandidatesKept DEF CollectionInv, disk
<1>8. PendingOK'
  BY <1>3 DEF PendingOK
<1> QED
  BY <1>4, <1>5, <1>6, <1>7, <1>8 DEF CollectionInv

(***************************************************************************)
(* A candidate that is still listed is a complete entry.                    *)
(***************************************************************************)
LEMMA CandidateComplete ==
  ASSUME CollectionInv, NEW c \in gc.candidates, StillListed(c), Exists(c.key, meta[c.key].path)
  PROVE  c.key \in Keys /\ Complete(c.key) /\ meta[c.key].size = c.size /\ c.size \in Nat
<1>1. c.key \in Keys /\ c.path \in Paths /\ c.size \in Nat
  BY DEF CollectionInv, CollectorTypeOK, Collections, Candidates
<1>2. Parses(c.key) /\ meta[c.key].path = c.path /\ meta[c.key].size = c.size
  BY DEF StillListed
<1>3. body[c.key][c.path].size = c.size
  BY <1>1, <1>2 DEF CollectionInv, CandidatesOK, FilesInv, NamesMatch, Paths
<1> QED
  BY <1>1, <1>2, <1>3 DEF Complete

LEMMA EvictUnlinkInv ==
  ASSUME CollectionInv, NEW c \in gc.candidates, EvictUnlink(c)
  PROVE  CollectionInv'
<1> DEFINE k == c.key
<1>1. k \in Keys /\ Complete(k) /\ meta[k].size = c.size /\ c.size \in Nat
  BY CandidateComplete DEF EvictUnlink
<1>2. /\ gc \in Collections /\ serving \in BOOLEAN /\ gc.pc = "evict"
      /\ mu[StoreOf[k]] = NoOne /\ mu' = [mu EXCEPT ![StoreOf[k]] = Collector]
      /\ RemoveBody(k)
      /\ gc' = [gc EXCEPT !.pc = "evictMeta", !.candidates = @ \ {c}, !.key = k,
                          !.store = StoreOf[k], !.pending = c.size]
      /\ UNCHANGED <<controllerVars, meta, bodyTemps, metaTemps, activeTemps, writer, serving>>
  BY DEF CollectionInv, CollectorTypeOK, EvictUnlink, Evicting, GCAt, CanTake
<1>3. Parses(k) /\ mu[StoreOf[k]] \notin Holders /\ StoreOf[k] \in Stores
  BY <1>1, <1>2, NamesAssumption, StoresAssumption DEF Complete
<1> HIDE DEF k
<1>4. /\ FilesInv' /\ ~Complete(k)'
      /\ \A h \in Keys : body'[h][Legacy] \in {NoBody, body[h][Legacy]}
  BY <1>1, <1>2, <1>3, BodyRemoved DEF CollectionInv
<1>5. /\ gc' \in Collections /\ gc'.pc = "evictMeta" /\ gc'.store = StoreOf[k]
      /\ gc'.key = k /\ gc'.candidates \subseteq gc.candidates
  BY <1>1, <1>2, <1>3 DEF Collections, CollectionPCs
<1>6. ControllerInv'
  BY <1>2, ControllerStutter DEF CollectionInv
<1>7. CollectorTypeOK'
  <2>1. \A t \in Stores : mu'[t] = IF t = StoreOf[k] THEN Collector ELSE mu[t]
    BY <1>2, <1>3 DEF CollectionInv, FilesInv, WritersTypeOK
  <2>2. \A t \in Stores : mu[t] # Collector
    BY <1>2 DEF CollectionInv, CollectorTypeOK, ExclusivePCs
  <2> QED
    BY <1>2, <1>5, <2>1, <2>2 DEF CollectorTypeOK, ExclusivePCs
<1>8. WalkOK'
  <2>1. ~Complete(gc.key)'
    BY <1>4, <1>5 DEF Complete, Parses, Exists, k
  <2> QED
    BY <1>1, <1>3, <1>5, <2>1 DEF WalkOK, KeysOf
<1>9. CandidatesOK'
  BY <1>4, <1>5, CandidatesKept DEF CollectionInv
<1>10. PendingOK'
  BY <1>5 DEF PendingOK, PendingPCs
<1> QED
  BY <1>4, <1>6, <1>7, <1>8, <1>9, <1>10 DEF CollectionInv

LEMMA EvictUnlinkMetaInv ==
  ASSUME CollectionInv, EvictUnlinkMeta
  PROVE  CollectionInv' /\ \A h \in Keys : Complete(h)' = Complete(h)
<1>1. /\ gc \in Collections /\ serving \in BOOLEAN /\ gc.pc = "evictMeta"
      /\ RemoveMeta(gc.key) /\ mu' = [mu EXCEPT ![gc.store] = NoOne]
      /\ gc' = [gc EXCEPT !.pc = "evictReport", !.key = NoKey, !.store = NoOne]
      /\ UNCHANGED <<controllerVars, body, bodyTemps, metaTemps, activeTemps, writer, serving>>
  BY DEF CollectionInv, CollectorTypeOK, EvictUnlinkMeta, GCAt
<1>2. /\ gc.store \in Stores
      /\ gc.key \in KeysOf(gc.store) /\ ~Complete(gc.key)
      /\ mu[gc.store] = Collector
  BY <1>1 DEF CollectionInv, WalkOK, CollectorTypeOK, ExclusivePCs
<1>3. gc.key \in Keys /\ StoreOf[gc.key] = gc.store /\ mu[StoreOf[gc.key]] \notin Holders
  BY <1>2, NamesAssumption DEF KeysOf
<1>4. FilesInv' /\ \A h \in Keys : Complete(h)' = Complete(h)
  BY <1>1, <1>2, <1>3, MetaRemoved DEF CollectionInv
<1>5. /\ gc' \in Collections /\ gc'.pc = "evictReport" /\ gc'.candidates = gc.candidates
  BY <1>1 DEF Collections, CollectionPCs
<1>6. ControllerInv'
  BY <1>1, ControllerStutter DEF CollectionInv
<1>7. CollectorTypeOK' /\ WalkOK'
  <2>1. \A s \in Stores : mu'[s] = IF s = gc.store THEN NoOne ELSE mu[s]
    BY <1>1, <1>2 DEF CollectionInv, FilesInv, WritersTypeOK
  <2>2. \A s \in Stores : s # gc.store => mu[s] # Collector
    BY DEF CollectionInv, CollectorTypeOK
  <2> QED
    BY <1>1, <1>5, <2>1, <2>2, NamesAssumption DEF CollectorTypeOK, WalkOK, ExclusivePCs
<1>8. CandidatesOK'
  BY <1>1, <1>5, CandidatesKept DEF CollectionInv
<1>9. PendingOK'
  BY <1>5 DEF PendingOK, PendingPCs
<1> QED
  BY <1>4, <1>6, <1>7, <1>8, <1>9 DEF CollectionInv

(***************************************************************************)
(* A write cannot disturb the collector: where the collector works, it      *)
(* holds s.mu.                                                              *)
(***************************************************************************)
LEMMA WriterInv ==
  ASSUME CollectionInv, NEW w \in Holders, Put(w) \/ PutStep(w), UNCHANGED <<gc, serving>>
  PROVE  CollectionInv'
<1>1. FilesInv'
  BY PutFiles, PutStepFiles DEF CollectionInv
<1>2. ControllerInv'
  BY WriterLedger DEF CollectionInv
<1>3. /\ \A k \in Keys : mu[StoreOf[k]] # w => meta'[k] = meta[k] /\ body'[k] = body[k]
      /\ \A k \in Keys : body'[k][Legacy] \in {NoBody, body[k][Legacy]}
      /\ \A s \in Stores : mu[s] = Collector <=> mu'[s] = Collector
  BY WriterTouches DEF CollectionInv
<1>4. CollectorTypeOK'
  BY <1>3 DEF CollectionInv, CollectorTypeOK
<1>5. WalkOK'
  <2> SUFFICES ASSUME gc.pc \in ExclusivePCs
               PROVE  WalkOK'
    BY DEF WalkOK, ExclusivePCs
  <2>1. gc.store \in Stores /\ mu[gc.store] = Collector /\ Collector # w
    BY NamesAssumption DEF CollectionInv, WalkOK, CollectorTypeOK
  <2>2. \A k \in KeysOf(gc.store) : Complete(k)' = Complete(k)
    BY <1>3, <2>1 DEF KeysOf, Complete, Parses, Exists
  <2>3. CompleteIn(gc.store)' = CompleteIn(gc.store)
    BY <2>2 DEF CompleteIn, KeysOf
  <2>4. WalkOK
    BY DEF CollectionInv
  <2>5. gc.key \in KeysOf(gc.store) => Complete(gc.key)' = Complete(gc.key)
    BY <1>3, <2>1 DEF KeysOf, Complete, Parses, Exists
  <2> QED
    BY <2>3, <2>4, <2>5 DEF WalkOK, KeysOf
<1>6. CandidatesOK'
  BY <1>3, CandidatesKept DEF CollectionInv
<1>7. PendingOK'
  BY DEF CollectionInv, PendingOK
<1> QED
  BY <1>1, <1>2, <1>4, <1>5, <1>6, <1>7 DEF CollectionInv

LEMMA StartedCollectionType ==
  /\ StartedCollection \in Collections
  /\ StartedCollection.pc = "collect" /\ StartedCollection.candidates = {}
  /\ StartedCollection.pending = 0 /\ StartedCollection.unreported = 0
<1>1. StartedCollection =
        [pc |-> "collect", left |-> {}, todo |-> {}, store |-> NoOne, key |-> NoKey, pending |-> 0,
         goal |-> 0, removed |-> 0, candidates |-> {}, unreported |-> 0]
  BY DEF StartedCollection, IdleCollection
<1> QED
  BY <1>1 DEF Collections, CollectionPCs

LEMMA CollectionInitInv == CollectionInit => CollectionInv
<1> SUFFICES ASSUME CollectionInit PROVE CollectionInv
  OBVIOUS
<1>1. FilesInv /\ ControllerInv
  BY StartFiles, StartLedger DEF CollectionInit
<1>2. /\ gc \in Collections /\ gc.pc = "collect" /\ gc.candidates = {} /\ gc.pending = 0
      /\ serving \in BOOLEAN
  BY StartedCollectionType DEF CollectionInit
<1>3. CollectorTypeOK
  BY <1>2, NamesAssumption DEF CollectorTypeOK, CollectionInit, StoreInit, ExclusivePCs
<1>4. WalkOK /\ CandidatesOK /\ PendingOK
  BY <1>2 DEF WalkOK, CandidatesOK, PendingOK, ExclusivePCs
<1> QED
  BY <1>1, <1>3, <1>4 DEF CollectionInv

LEMMA RestartInv ==
  ASSUME CollectionInv, Restart
  PROVE  CollectionInv'
<1>1. FilesInv' /\ ControllerInv'
  BY CrashFiles, CrashLedger DEF CollectionInv, Restart
<1>2. /\ gc' \in Collections /\ gc'.pc = "collect" /\ gc'.candidates = {} /\ gc'.pending = 0
      /\ serving' \in BOOLEAN
  BY StartedCollectionType DEF Restart
<1>3. CollectorTypeOK'
  BY <1>2, NamesAssumption DEF CollectorTypeOK, Restart, Crash, FreshProcess, ExclusivePCs
<1>4. WalkOK' /\ CandidatesOK' /\ PendingOK'
  BY <1>2 DEF WalkOK, CandidatesOK, PendingOK, ExclusivePCs
<1> QED
  BY <1>1, <1>3, <1>4 DEF CollectionInv

(***************************************************************************)
(* Every step of the composition preserves the invariant.                   *)
(***************************************************************************)
LEMMA CollectionStepInv ==
  ASSUME CollectionInv, CollectionStep
  PROVE  CollectionInv'
<1>1. ASSUME NEW s \in Stores, LockStore(s) PROVE CollectionInv'
  BY <1>1, LockStoreInv
<1>2. ASSUME NEW s \in Stores, ListStore(s) PROVE CollectionInv'
  BY <1>2, ListStoreInv
<1>3. ASSUME NEW k \in Keys, AgeUnlink(k) PROVE CollectionInv'
  BY <1>3, AgeUnlinkInv
<1>4. ASSUME NEW k \in Keys, AgeSkip(k) PROVE CollectionInv'
  BY <1>4, AgeSkipInv
<1>5. ASSUME NEW c \in gc.candidates, EvictUnlink(c) PROVE CollectionInv'
  BY <1>5, EvictUnlinkInv
<1>6. CASE AgeUnlinkMeta
  BY <1>6, AgeUnlinkMetaInv
<1>7. CASE EvictUnlinkMeta
  BY <1>7, EvictUnlinkMetaInv
<1>8. CASE UnlockStore
  BY <1>8, UnlockStoreInv
<1>9. CASE WalkFails
  BY <1>9, WalkFailsInv
<1>10. CASE ReportAge \/ ReportEvicted
  BY <1>10, ReportInv
<1>11. CASE \/ CollectByAge \/ CollectUnderPressure \/ AgeDone \/ TakeSnapshot
            \/ ListDone \/ ListFails \/ EvictDone
            \/ \E c \in gc.candidates : EvictStale(c) \/ EvictSkip(c)
  BY <1>11, GcPlainSteps
<1> QED
  BY <1>1, <1>2, <1>3, <1>4, <1>5, <1>6, <1>7, <1>8, <1>9, <1>10, <1>11 DEF CollectionStep

LEMMA CollectionNextInv ==
  ASSUME CollectionInv, [CollectionNext]_collectionVars
  PROVE  CollectionInv'
<1>1. ASSUME NEW w \in Holders, Serve(w) \/ WriterStep(w) PROVE CollectionInv'
  BY <1>1, WriterInv DEF Serve, WriterStep
<1>2. CASE StartRun \/ CancelRun
  BY <1>2, GcPlainSteps
<1>3. CASE CollectionStep
  BY <1>3, CollectionStepInv
<1>4. CASE Restart
  BY <1>4, RestartInv
<1>5. CASE UNCHANGED collectionVars
  <2>1. UNCHANGED storeVars /\ UNCHANGED <<gc, serving>>
    BY <1>5 DEF collectionVars
  <2>2. FilesInv' /\ ControllerInv'
    BY <2>1, StoresStutter DEF CollectionInv
  <2>3. CollectorTypeOK' /\ PendingOK'
    BY <2>1 DEF CollectionInv, CollectorTypeOK, PendingOK, storeVars
  <2>4. CandidatesOK'
    BY <2>1, CandidatesKept DEF CollectionInv, storeVars
  <2>5. WalkOK'
    BY <2>1 DEF CollectionInv, WalkOK, CompleteIn, Complete, Parses, Exists, storeVars
  <2> QED
    BY <2>2, <2>3, <2>4, <2>5 DEF CollectionInv
<1> QED
  BY <1>1, <1>2, <1>3, <1>4, <1>5 DEF CollectionNext

LEMMA CollectionInvariant == CollectionSpec => []CollectionInv
<1>1. CollectionInit => CollectionInv
  BY CollectionInitInv
<1>2. CollectionInv /\ [CollectionNext]_collectionVars => CollectionInv'
  BY CollectionNextInv
<1> QED
  BY <1>1, <1>2, PTL DEF CollectionSpec

(***************************************************************************)
(* With a collector running beside the writers: s.mu is held by one writer  *)
(* in its commit section or by the collector in an exclusive section of its *)
(* own, the reserved bytes are those of the running writes, and a lookup    *)
(* that hits still serves one write (store.go:188, 349, 513).               *)
(***************************************************************************)
THEOREM CollectionExclusive ==
  CollectionSpec => [](/\ DiskTypeOK /\ WritersTypeOK /\ CollectorTypeOK /\ ControllerTypeOK
                       /\ ReservedIsOutstanding /\ HitsServeOneWrite /\ ActiveTempsSurvive)
<1>1. CollectionInv => /\ DiskTypeOK /\ WritersTypeOK /\ CollectorTypeOK /\ ControllerTypeOK
                       /\ ReservedIsOutstanding
  BY DEF CollectionInv, FilesInv, ControllerInv
<1>2. CollectionInv => HitsServeOneWrite
  BY NamesLemma DEF CollectionInv, FilesInv
<1>3. CollectionInv => ActiveTempsSurvive
  BY DEF CollectionInv, FilesInv, TempsKept, ActiveTempsSurvive, BodyTempPCs, MetaTempPCs
<1> QED
  BY <1>1, <1>2, <1>3, CollectionInvariant, PTL

-----------------------------------------------------------------------------
(* The stores implement EntryCache.                                         *)

(* What Lookup finds is the generation that the metadata names, or nothing. *)
FoundOK ==
  \A k \in Keys : /\ Found(k) \in Paths \cup {NoPath}
                  /\ Complete(k) => Found(k) \in Paths

LEMMA FilesFound ==
  ASSUME FilesInv
  PROVE  FoundOK
  BY NamesLemma DEF FilesInv, FoundOK, Found

(***************************************************************************)
(* No step of the composition touches the entries of two keys.              *)
(***************************************************************************)
LEMMA OneKeyAtATime ==
  ASSUME CollectionInv, [CollectionNext]_collectionVars
  PROVE  \/ UNCHANGED <<meta, body>>
         \/ \E k \in Keys : \A h \in Keys \ {k} : meta'[h] = meta[h] /\ body'[h] = body[h]
<1> DEFINE Goal == \/ UNCHANGED <<meta, body>>
                   \/ \E k \in Keys : \A h \in Keys \ {k} : meta'[h] = meta[h] /\ body'[h] = body[h]
<1> SUFFICES Goal
  OBVIOUS
<1>1. meta \in [Keys -> Metas] /\ body \in [Keys -> [Paths -> Bodies]]
  BY DEF CollectionInv, FilesInv, DiskTypeOK
<1>2. ASSUME NEW w \in Holders, Serve(w) \/ WriterStep(w) PROVE Goal
  <2>1. \A k \in Keys \ {writer[w].key} : meta'[k] = meta[k] /\ body'[k] = body[k]
    BY <1>2, WriterTouches DEF Serve, WriterStep, CollectionInv
  <2>2. CASE writer[w].key \in Keys
    BY <2>1, <2>2
  <2>3. CASE writer[w].key \notin Keys
    <3>1. writer[w].pc = "idle"
      BY <2>3 DEF CollectionInv, FilesInv, WritersTypeOK, Writers, At
    <3>2. UNCHANGED <<meta, body>>
      BY <1>2, <3>1 DEF Serve, WriterStep, Put, PutAdmitted, PutRefused, PutUnknownLength, disk,
         PutStep, At, CreateBodyTemp, CreateBodyTempFails, StreamBody, StreamOverflows,
         StreamFails, CreateMetaTemp, CreateMetaTempFails, WriteMetaTempFails, LockCommit,
         RenameBody, RenameBodyFails, ReplaceMeta, RemoveDestination,
         ReplaceFails, FinishPut, DropMetaTemp,
         DropBodyTemp, ReleasePut
    <3> QED
      BY <3>2
  <2> QED
    BY <2>2, <2>3
<1>3. ASSUME NEW k \in Keys, RemoveBody(k), meta' = meta PROVE Goal
  BY <1>1, <1>3 DEF RemoveBody
<1>4. ASSUME NEW k \in Keys, RemoveMeta(k), body' = body PROVE Goal
  BY <1>1, <1>4 DEF RemoveMeta
<1>5. ASSUME NEW k \in Keys, AgeUnlink(k) PROVE Goal
  BY <1>3, <1>5 DEF AgeUnlink
<1>6. ASSUME NEW c \in gc.candidates, EvictUnlink(c) PROVE Goal
  <2>1. c.key \in Keys
    BY DEF CollectionInv, CollectorTypeOK, Collections, Candidates
  <2> QED
    BY <1>3, <1>6, <2>1 DEF EvictUnlink
<1>7. CASE AgeUnlinkMeta \/ EvictUnlinkMeta
  <2>1. gc.key \in Keys /\ RemoveMeta(gc.key) /\ body' = body
    BY <1>7 DEF CollectionInv, WalkOK, KeysOf, AgeUnlinkMeta, EvictUnlinkMeta, GCAt
  <2> QED
    BY <1>4, <2>1
<1>8. CASE \/ StartRun \/ CancelRun \/ CollectByAge \/ CollectUnderPressure \/ AgeDone
           \/ TakeSnapshot \/ ListDone \/ ListFails \/ EvictDone
           \/ UnlockStore \/ WalkFails \/ ReportAge \/ ReportEvicted
  BY <1>8 DEF StartRun, CancelRun, CollectByAge, CollectUnderPressure, AgeDone, TakeSnapshot,
     ListDone, ListFails, EvictDone, UnlockStore, WalkFails, ReportAge, ReportEvicted, storeVars, disk
<1>9. ASSUME NEW s \in Stores, LockStore(s) \/ ListStore(s) PROVE Goal
  BY <1>9 DEF LockStore, ListStore, storeVars, disk
<1>10. ASSUME NEW k \in Keys, AgeSkip(k) PROVE Goal
  BY <1>10 DEF AgeSkip, storeVars
<1>11. ASSUME NEW c \in gc.candidates, EvictStale(c) \/ EvictSkip(c) PROVE Goal
  BY <1>11 DEF EvictStale, EvictSkip, storeVars
<1>12. CASE Restart \/ UNCHANGED collectionVars
  BY <1>12 DEF Restart, Crash, collectionVars, storeVars
<1> HIDE DEF Goal
<1>13. CASE CollectionStep
  BY <1>5, <1>6, <1>7, <1>8, <1>9, <1>10, <1>11, <1>13 DEF CollectionStep
<1> QED
  BY <1>2, <1>8, <1>12, <1>13 DEF CollectionNext

(***************************************************************************)
(* A step that changes the files of at most one key is a Put, a Drop or a   *)
(* stutter of the abstract cache.                                           *)
(***************************************************************************)
LEMMA EntryStep ==
  ASSUME FoundOK, FoundOK',
         \/ UNCHANGED <<meta, body>>
         \/ \E k \in Keys : \A h \in Keys \ {k} : meta'[h] = meta[h] /\ body'[h] = body[h]
  PROVE  [Abstract!CacheNext]_([k \in Keys |-> Found(k)])
<1> DEFINE e == [k \in Keys |-> Found(k)]
<1>1. CASE UNCHANGED <<meta, body>>
  <2>1. \A k \in Keys : Found(k)' = Found(k)
    BY <1>1 DEF Found, Complete, Parses, Exists
  <2> QED
    BY <2>1
<1>2. ASSUME NEW k \in Keys, \A h \in Keys \ {k} : meta'[h] = meta[h] /\ body'[h] = body[h]
      PROVE  [Abstract!CacheNext]_e
  <2>1. \A h \in Keys \ {k} : Found(h)' = Found(h)
    BY <1>2 DEF Found, Complete, Parses, Exists
  <2>2. Found(k)' \in Paths \cup {NoPath} /\ NoPath \notin Paths
    BY NamesAssumption DEF FoundOK, Paths
  <2>3. e' = [e EXCEPT ![k] = Found(k)']
    BY <2>1
  <2>4. CASE Found(k)' \in Paths
    <3>1. Abstract!Put(k, Found(k)')
      BY <2>3, <2>4 DEF Abstract!Put
    <3> QED
      BY <2>4, <3>1 DEF Abstract!CacheNext
  <2>5. CASE Found(k)' = NoPath /\ Found(k) # NoPath
    <3>1. Abstract!Drop(k)
      BY <2>3, <2>5 DEF Abstract!Drop
    <3> QED
      BY <3>1 DEF Abstract!CacheNext
  <2>6. CASE Found(k)' = NoPath /\ Found(k) = NoPath
    BY <2>1, <2>6
  <2> QED
    BY <2>2, <2>4, <2>5, <2>6
<1> QED
  BY <1>1, <1>2

(***************************************************************************)
(* Stores, writers, crashes and collections together implement EntryCache:  *)
(* what Lookup would find under a key changes from one whole write to       *)
(* another or to nothing, one key at a time (store.go:98-140, 185-217,      *)
(* 349-390, 549-557).                                                       *)
(***************************************************************************)
THEOREM CollectionImplementsEntryCache == CollectionSpec => ImplementsEntryCache
<1>1. CollectionInv => FoundOK
  BY FilesFound DEF CollectionInv
<1>2. FoundOK => Abstract!CacheInit
  BY DEF FoundOK, Abstract!CacheInit
<1>3. CollectionInit => Abstract!CacheInit
  BY <1>1, <1>2, CollectionInitInv
<1>4. CollectionInv /\ FoundOK /\ FoundOK' /\ [CollectionNext]_collectionVars
        => [Abstract!CacheNext]_([k \in Keys |-> Found(k)])
  <2> SUFFICES ASSUME CollectionInv, FoundOK, FoundOK', [CollectionNext]_collectionVars
               PROVE  [Abstract!CacheNext]_([k \in Keys |-> Found(k)])
    OBVIOUS
  <2>1. \/ UNCHANGED <<meta, body>>
        \/ \E k \in Keys : \A h \in Keys \ {k} : meta'[h] = meta[h] /\ body'[h] = body[h]
    BY OneKeyAtATime
  <2> QED
    BY <2>1, EntryStep
<1> QED
  BY <1>1, <1>3, <1>4, CollectionInvariant, PTL
     DEF CollectionSpec, ImplementsEntryCache, Abstract!CacheSpec

-----------------------------------------------------------------------------
(* The counters, the ledger and the disk.                                   *)
(*                                                                          *)
(* A write that has removed or replaced the metadata has not yet changed    *)
(* the counters: until then its key is booked with the entry it replaces.   *)
FinishPCs == {"retry", "commit"}
Finishing(k) ==
  LET m == mu[StoreOf[k]] IN m \in Holders /\ writer[m].pc \in FinishPCs /\ writer[m].key = k

Booked ==
  [k \in Keys |-> IF Finishing(k) THEN writer[mu[StoreOf[k]]].prevBytes ELSE EntryBytes[k]]

BookedObject ==
  [k \in Keys |-> IF IF Finishing(k) THEN writer[mu[StoreOf[k]]].prevValid ELSE Complete(k)
                  THEN 1 ELSE 0]

(* The counters are never below what is booked.  They stay above it when a  *)
(* replace() that failed for good took an entry away.                       *)
CountersCover ==
  /\ bytes \in [Stores -> Nat] /\ objects \in [Stores -> Nat]
  /\ \A s \in Stores : Total(KeysOf(s), Booked) <= bytes[s]
  /\ \A s \in Stores : Total(KeysOf(s), BookedObject) <= objects[s]

CountersExact ==
  \A s \in Stores : /\ bytes[s] = Total(KeysOf(s), Booked)
                    /\ objects[s] = Total(KeysOf(s), BookedObject)

(* A write has its reservation until it commits, and never writes more.     *)
ReservedPCs == {"create", "stream", "describe", "lock", "rename", "replace", "retry", "commit"}
WriteReserved(w) ==
  LET x == writer[w] IN
  /\ x.pc \in ReservedPCs => /\ ~reservation[w].done
                             /\ reservation[w].bytes = x.length
                             /\ x.written <= x.length
  /\ x.pc \in {"replace", "retry", "commit"} => x.gen \notin bodyTemps[x.key]
  /\ x.pc \in {"dropMeta", "dropBody"} /\ x.gen \in bodyTemps[x.key]
       => ~reservation[w].done /\ x.written <= reservation[w].bytes

(* The ledger, up to d bytes that were removed and not reported.            *)
LedgerInv(d) ==
  HasController =>
    /\ \A w \in Holders : WriteReserved(w)
    /\ committedBytes = AllStoreBytes + d

AccountsInv(d) == CountersCover /\ LedgerInv(d)

(* No sum of bytes on disk reaches the largest int64.                       *)
BytesFit(d) == HasController => AllStoreBytes + d <= MaxInt

Debt == gc.pending + gc.unreported
DebtInv == AccountsInv(Debt)
DebtFits == BytesFit(Debt)

(***************************************************************************)
(* Laws of the sums over the keys of one store and over the stores.         *)
(***************************************************************************)
LEMMA KeysOfFinite ==
  \A s : IsFiniteSet(KeysOf(s)) /\ KeysOf(s) \subseteq Keys
<1>1. \A s : KeysOf(s) \in SUBSET Keys
  BY DEF KeysOf
<1> QED
  BY <1>1, StoresAssumption, FS_Subset

(***************************************************************************)
(* Reconcile of every store, added up, counts every key once.               *)
(***************************************************************************)
LEMMA TotalOfStores ==
  ASSUME NEW f, \A k \in Keys : f[k] \in Nat,
         NEW F, \A s \in Stores : F[s] = Total(KeysOf(s), f)
  PROVE  Total(Stores, F) = Total(Keys, f)
<1> DEFINE Part(s) == Slots(KeysOf(s), f)
           b == [s \in Stores |-> CHOOSE b : b \in Bijection(1..F[s], Part(s))]
           A == Slots(Stores, F)
           B == Slots(Keys, f)
           G == [x \in A |-> b[x[1]][x[2]]]
<1>1. ASSUME NEW s \in Stores
      PROVE  /\ F[s] \in Nat
             /\ b[s] \in Bijection(1..F[s], Part(s))
  <2>1. IsFiniteSet(KeysOf(s)) /\ \A k \in KeysOf(s) : f[k] \in Nat
    BY KeysOfFinite
  <2>2. IsFiniteSet(Part(s)) /\ Cardinality(Part(s)) = F[s]
    BY <2>1, TotalType DEF Total
  <2>3. F[s] \in Nat /\ ExistsBijection(1..F[s], Part(s))
    BY <2>2, FS_CardinalityType
  <2>4. Bijection(1..F[s], Part(s)) # {}
    BY <2>3 DEF ExistsBijection
  <2> HIDE DEF Part
  <2> QED
    BY <2>3, <2>4
<1>2. \A s \in Stores : /\ b[s] \in [1..F[s] -> Part(s)]
                        /\ \A i, j \in 1..F[s] : b[s][i] = b[s][j] => i = j
                        /\ \A t \in Part(s) : \E i \in 1..F[s] : b[s][i] = t
  <2> HIDE DEF b, Part
  <2> QED
    BY <1>1, Fun_BijectionProperties
<1> HIDE DEF b
<1>3. \A x \in A : x[1] \in Stores /\ x[2] \in 1..F[x[1]] /\ x = <<x[1], x[2]>>
  BY DEF Slots
<1>4. \A s \in Stores : \A t \in Part(s) : t \in B /\ StoreOf[t[1]] = s
  BY DEF Slots, KeysOf
<1>5. \A t \in B : t[1] \in Keys /\ StoreOf[t[1]] \in Stores /\ t \in Part(StoreOf[t[1]])
  BY StoresAssumption DEF Slots, KeysOf
<1>6. \A s \in Stores : \A i \in 1..F[s] : <<s, i>> \in A
  BY DEF Slots
<1> HIDE DEF A, B, Part
<1>20. \A x \in A : b[x[1]][x[2]] \in Part(x[1])
  <2>1. \A s \in Stores : \A i \in 1..F[s] : b[s][i] \in Part(s)
    BY <1>2
  <2> QED
    BY <1>3, <2>1
<1>7. G \in [A -> B]
  <2>1. \A x \in A : b[x[1]][x[2]] \in B
    BY <1>3, <1>4, <1>20
  <2> QED
    BY <2>1
<1>8. \A x, y \in A : G[x] = G[y] => x = y
  <2> SUFFICES ASSUME NEW x \in A, NEW y \in A, G[x] = G[y] PROVE x = y
    OBVIOUS
  <2>1. G[x] \in Part(x[1]) /\ G[y] \in Part(y[1])
    BY <1>20
  <2>2. x[1] = y[1]
    BY <1>3, <1>4, <2>1
  <2>3. x[2] = y[2]
    BY <1>2, <1>3, <2>2
  <2> QED
    BY <1>3, <2>2, <2>3
<1>9. \A t \in B : \E x \in A : G[x] = t
  <2> SUFFICES ASSUME NEW t \in B PROVE \E x \in A : G[x] = t
    OBVIOUS
  <2> DEFINE s == StoreOf[t[1]]
  <2>1. s \in Stores /\ t \in Part(s)
    BY <1>5
  <2>2. PICK i \in 1..F[s] : b[s][i] = t
    BY <1>2, <2>1
  <2>3. <<s, i>> \in A
    BY <1>6, <2>1, <2>2
  <2>4. G[<<s, i>>] = t
    BY <2>2, <2>3
  <2> QED
    BY <2>3, <2>4
<1> HIDE DEF G
<1>10. G \in Bijection(A, B)
  BY <1>7, <1>8, <1>9, Fun_IsBij
<1>11. IsFiniteSet(A)
  BY <1>1, StoresAssumption, TotalType DEF A
<1>12. Cardinality(B) = Cardinality(A)
  <2>1. ExistsBijection(A, B)
    BY <1>10 DEF ExistsBijection
  <2> QED
    BY <1>11, <2>1, FS_Bijection
<1> QED
  BY <1>12 DEF Total, A, B

(***************************************************************************)
(* A sum of ones is a cardinality.                                          *)
(***************************************************************************)
LEMMA TotalOfOnes ==
  ASSUME NEW S, IsFiniteSet(S), NEW f, NEW T \in SUBSET S,
         \A x \in S : f[x] = IF x \in T THEN 1 ELSE 0
  PROVE  Total(S, f) = Cardinality(T)
<1> DEFINE B == Slots(S, f)
           G == [x \in T |-> <<x, 1>>]
<1>1. \A t \in B : \E x \in T : t = <<x, 1>>
  BY DEF Slots
<1>2. \A x \in T : <<x, 1>> \in B
  BY DEF Slots
<1> HIDE DEF B
<1>3. G \in Bijection(T, B)
  <2>1. G \in [T -> B]
    BY <1>2
  <2>2. \A x, y \in T : G[x] = G[y] => x = y
    OBVIOUS
  <2>3. \A t \in B : \E x \in T : G[x] = t
    BY <1>1
  <2> HIDE DEF G
  <2> QED
    BY <2>1, <2>2, <2>3, Fun_IsBij
<1>4. IsFiniteSet(T)
  BY FS_Subset
<1>5. ExistsBijection(T, B)
  BY <1>3 DEF ExistsBijection
<1> QED
  BY <1>4, <1>5, FS_Bijection DEF Total, B

(***************************************************************************)
(* A per-store counter c that covers the sums of f covers those of g after  *)
(* one key and its store's counter have changed by the same amount.         *)
(***************************************************************************)
LEMMA CounterStep ==
  ASSUME NEW f, NEW g, NEW c \in [Stores -> Nat], NEW e, NEW k \in Keys,
         \A x \in Keys : f[x] \in Nat, \A x \in Keys : g[x] \in Nat,
         \A x \in Keys \ {k} : f[x] = g[x],
         \A s \in Stores : Total(KeysOf(s), f) <= c[s],
         \A s \in Stores : e[s] = IF s = StoreOf[k] THEN c[s] - f[k] + g[k] ELSE c[s]
  PROVE  /\ \A s \in Stores : e[s] \in Nat
         /\ \A s \in Stores : Total(KeysOf(s), g) <= e[s]
         /\ \A s \in Stores : c[s] = Total(KeysOf(s), f) => e[s] = Total(KeysOf(s), g)
         /\ Total(Stores, e) = Total(Stores, c) - f[k] + g[k]
<1> DEFINE t == StoreOf[k]
<1>1. t \in Stores /\ k \in KeysOf(t)
  BY StoresAssumption DEF KeysOf
<1>2. IsFiniteSet(KeysOf(t)) /\ KeysOf(t) \subseteq Keys
  BY KeysOfFinite
<1>3. /\ \A x \in KeysOf(t) : f[x] \in Nat
      /\ \A x \in KeysOf(t) : g[x] \in Nat
      /\ \A x \in KeysOf(t) \ {k} : f[x] = g[x]
  BY <1>2
<1>4. Total(KeysOf(t), g) = Total(KeysOf(t), f) - f[k] + g[k]
  BY <1>1, <1>2, <1>3, TotalUpdate
<1>5. f[k] <= Total(KeysOf(t), f) /\ Total(KeysOf(t), f) \in Nat
  BY <1>1, <1>2, <1>3, TotalBoundsTerm, TotalType
<1>6. f[k] \in Nat /\ g[k] \in Nat /\ c[t] \in Nat /\ Total(KeysOf(t), f) <= c[t]
  BY <1>1
<1>7. c[t] - f[k] + g[k] \in Nat
  BY <1>5, <1>6
<1>8. \A s \in Stores : e[s] \in Nat /\ e[s] = IF s = t THEN c[t] - f[k] + g[k] ELSE c[s]
  BY <1>1, <1>7
<1>9. \A s \in Stores \ {t} : Total(KeysOf(s), g) = Total(KeysOf(s), f)
  <2> SUFFICES ASSUME NEW s \in Stores \ {t} PROVE Total(KeysOf(s), g) = Total(KeysOf(s), f)
    OBVIOUS
  <2>1. \A x \in KeysOf(s) : f[x] = g[x]
    BY DEF KeysOf
  <2> QED
    BY <2>1, TotalEqual
<1>10. Total(KeysOf(t), g) <= e[t] /\ (c[t] = Total(KeysOf(t), f) => e[t] = Total(KeysOf(t), g))
  BY <1>1, <1>4, <1>5, <1>6, <1>8
<1>11. Total(Stores, e) = Total(Stores, c) - c[t] + e[t]
  <2>1. /\ \A s \in Stores : c[s] \in Nat
        /\ \A s \in Stores : e[s] \in Nat
        /\ \A s \in Stores \ {t} : c[s] = e[s]
    BY <1>8
  <2>2. IsFiniteSet(Stores) /\ t \in Stores
    BY <1>1, StoresAssumption
  <2>3. \A y \in Stores : (\A s \in Stores \ {y} : c[s] = e[s])
                             => Total(Stores, e) = Total(Stores, c) - c[y] + e[y]
    BY <2>1, <2>2, TotalUpdate
  <2> QED
    BY <2>1, <2>2, <2>3
<1>12. Total(Stores, c) \in Nat
  BY StoresAssumption, TotalType
<1>13. Total(Stores, e) = Total(Stores, c) - f[k] + g[k]
  BY <1>1, <1>6, <1>7, <1>8, <1>11, <1>12
<1> QED
  BY <1>8, <1>9, <1>10, <1>13

(***************************************************************************)
(* The same when no counter changes and no key is booked with more.         *)
(***************************************************************************)
LEMMA CounterKept ==
  ASSUME NEW f, NEW g, NEW c \in [Stores -> Nat],
         \A x \in Keys : f[x] \in Nat, \A x \in Keys : g[x] \in Nat,
         \A x \in Keys : g[x] <= f[x],
         \A s \in Stores : Total(KeysOf(s), f) <= c[s]
  PROVE  \A s \in Stores : Total(KeysOf(s), g) <= c[s]
<1> SUFFICES ASSUME NEW s \in Stores PROVE Total(KeysOf(s), g) <= c[s]
  OBVIOUS
<1>1. IsFiniteSet(KeysOf(s)) /\ KeysOf(s) \subseteq Keys
  BY KeysOfFinite
<1>2. \A x \in KeysOf(s) : g[x] \in Nat /\ f[x] \in Nat /\ g[x] <= f[x]
  BY <1>1
<1>3. Total(KeysOf(s), g) <= Total(KeysOf(s), f)
  BY <1>1, <1>2, TotalMonotone
<1>4. Total(KeysOf(s), g) \in Nat /\ Total(KeysOf(s), f) \in Nat
  BY <1>1, <1>2, TotalType
<1>5. c[s] \in Nat /\ Total(KeysOf(s), f) <= c[s]
  OBVIOUS
<1> QED
  BY <1>3, <1>4, <1>5

(***************************************************************************)
(* How a step may change what is booked: not at all, for one key whose      *)
(* store's counters follow, or downwards while the counters stay.           *)
(***************************************************************************)
BooksOK == \A k \in Keys : Booked[k] \in Nat /\ BookedObject[k] \in Nat /\ EntryBytes[k] \in Nat

SameBook(k) == Booked'[k] = Booked[k] /\ BookedObject'[k] = BookedObject[k]
SameBooks == UNCHANGED counters /\ \A k \in Keys : SameBook(k)

Rebooked(k) ==
  /\ \A h \in Keys \ {k} : SameBook(h)
  /\ bytes' = [bytes EXCEPT ![StoreOf[k]] = @ - Booked[k] + Booked'[k]]
  /\ objects' = [objects EXCEPT ![StoreOf[k]] = @ - BookedObject[k] + BookedObject'[k]]

Lost ==
  /\ UNCHANGED counters
  /\ \A k \in Keys : Booked'[k] <= Booked[k] /\ BookedObject'[k] <= BookedObject[k]

LEMMA FilesBooks ==
  ASSUME FilesInv
  PROVE  BooksOK
<1>1. \A k \in Keys : EntryBytes[k] \in Nat
  BY EntryBytesType DEF FilesInv
<1>2. \A w \in Holders : writer[w].prevBytes \in Nat
  BY DEF FilesInv, WritersTypeOK, Writers
<1>3. \A k \in Keys : Booked[k] \in Nat
  BY <1>1, <1>2 DEF Booked, Finishing
<1>4. \A k \in Keys : BookedObject[k] \in Nat
  BY DEF BookedObject
<1> QED
  BY <1>1, <1>3, <1>4 DEF BooksOK

LEMMA SameBooksCover ==
  ASSUME CountersCover, SameBooks
  PROVE  /\ CountersCover' /\ AllStoreBytes' = AllStoreBytes
         /\ CountersExact => CountersExact'
<1>1. UNCHANGED <<bytes, objects>>
  BY DEF SameBooks, counters
<1>2. \A s \in Stores : Total(KeysOf(s), Booked') = Total(KeysOf(s), Booked)
  <2> SUFFICES ASSUME NEW s \in Stores PROVE Total(KeysOf(s), Booked') = Total(KeysOf(s), Booked)
    OBVIOUS
  <2>1. \A k \in KeysOf(s) : Booked'[k] = Booked[k]
    BY DEF SameBooks, SameBook, KeysOf
  <2> QED
    BY <2>1, TotalEqual
<1>3. \A s \in Stores : Total(KeysOf(s), BookedObject') = Total(KeysOf(s), BookedObject)
  <2> SUFFICES ASSUME NEW s \in Stores
               PROVE  Total(KeysOf(s), BookedObject') = Total(KeysOf(s), BookedObject)
    OBVIOUS
  <2>1. \A k \in KeysOf(s) : BookedObject'[k] = BookedObject[k]
    BY DEF SameBooks, SameBook, KeysOf
  <2> QED
    BY <2>1, TotalEqual
<1> QED
  BY <1>1, <1>2, <1>3 DEF CountersCover, CountersExact, AllStoreBytes

LEMMA RebookedCover ==
  ASSUME BooksOK, BooksOK', CountersCover, NEW k \in Keys, Rebooked(k)
  PROVE  /\ CountersCover' /\ AllStoreBytes' = AllStoreBytes - Booked[k] + Booked'[k]
         /\ CountersExact => CountersExact'
<1>1. StoreOf[k] \in Stores /\ bytes \in [Stores -> Nat] /\ objects \in [Stores -> Nat]
  BY StoresAssumption DEF CountersCover
<1>2. /\ \A x \in Keys : Booked[x] \in Nat
      /\ \A x \in Keys : Booked'[x] \in Nat
      /\ \A x \in Keys \ {k} : Booked[x] = Booked'[x]
      /\ \A s \in Stores : Total(KeysOf(s), Booked) <= bytes[s]
  BY DEF BooksOK, Rebooked, SameBook, CountersCover
<1>3. \A s \in Stores : bytes'[s] = IF s = StoreOf[k] THEN bytes[s] - Booked[k] + Booked'[k]
                                                      ELSE bytes[s]
  BY <1>1 DEF Rebooked
<1>4. /\ \A s \in Stores : bytes'[s] \in Nat
      /\ \A s \in Stores : Total(KeysOf(s), Booked') <= bytes'[s]
      /\ \A s \in Stores : bytes[s] = Total(KeysOf(s), Booked) => bytes'[s] = Total(KeysOf(s), Booked')
      /\ Total(Stores, bytes') = Total(Stores, bytes) - Booked[k] + Booked'[k]
  BY <1>1, <1>2, <1>3, CounterStep
<1>5. /\ \A x \in Keys : BookedObject[x] \in Nat
      /\ \A x \in Keys : BookedObject'[x] \in Nat
      /\ \A x \in Keys \ {k} : BookedObject[x] = BookedObject'[x]
      /\ \A s \in Stores : Total(KeysOf(s), BookedObject) <= objects[s]
  BY DEF BooksOK, Rebooked, SameBook, CountersCover
<1>6. \A s \in Stores : objects'[s] = IF s = StoreOf[k]
                                      THEN objects[s] - BookedObject[k] + BookedObject'[k]
                                      ELSE objects[s]
  BY <1>1 DEF Rebooked
<1>7. /\ \A s \in Stores : objects'[s] \in Nat
      /\ \A s \in Stores : Total(KeysOf(s), BookedObject') <= objects'[s]
      /\ \A s \in Stores : objects[s] = Total(KeysOf(s), BookedObject)
                             => objects'[s] = Total(KeysOf(s), BookedObject')
  BY <1>1, <1>5, <1>6, CounterStep
<1>8. DOMAIN bytes' = Stores /\ DOMAIN objects' = Stores /\ bytes' = [s \in Stores |-> bytes'[s]]
      /\ objects' = [s \in Stores |-> objects'[s]]
  BY <1>1 DEF Rebooked
<1>9. bytes' \in [Stores -> Nat] /\ objects' \in [Stores -> Nat]
  BY <1>4, <1>7, <1>8
<1>10. CountersCover'
  BY <1>4, <1>7, <1>9 DEF CountersCover
<1>11. CountersExact => CountersExact'
  BY <1>4, <1>7 DEF CountersExact
<1> QED
  BY <1>4, <1>10, <1>11 DEF AllStoreBytes

LEMMA LostCover ==
  ASSUME BooksOK, BooksOK', CountersCover, Lost
  PROVE  CountersCover' /\ AllStoreBytes' = AllStoreBytes
<1>1. bytes' = bytes /\ objects' = objects
  BY DEF Lost, counters
<1>2. bytes \in [Stores -> Nat] /\ objects \in [Stores -> Nat]
  BY DEF CountersCover
<1>3. /\ \A x \in Keys : Booked[x] \in Nat
      /\ \A x \in Keys : Booked'[x] \in Nat
      /\ \A x \in Keys : Booked'[x] <= Booked[x]
      /\ \A s \in Stores : Total(KeysOf(s), Booked) <= bytes[s]
  BY DEF BooksOK, Lost, CountersCover
<1>4. \A s \in Stores : Total(KeysOf(s), Booked') <= bytes[s]
  BY <1>2, <1>3, CounterKept
<1>5. /\ \A x \in Keys : BookedObject[x] \in Nat
      /\ \A x \in Keys : BookedObject'[x] \in Nat
      /\ \A x \in Keys : BookedObject'[x] <= BookedObject[x]
      /\ \A s \in Stores : Total(KeysOf(s), BookedObject) <= objects[s]
  BY DEF BooksOK, Lost, CountersCover
<1>6. \A s \in Stores : Total(KeysOf(s), BookedObject') <= objects[s]
  BY <1>2, <1>5, CounterKept
<1> QED
  BY <1>1, <1>2, <1>4, <1>6 DEF CountersCover, AllStoreBytes

(***************************************************************************)
(* The book of a key depends on its entry and on a write that finishes it.  *)
(* W are the writes that take the step.                                     *)
(***************************************************************************)
LEMMA EntryFrame ==
  ASSUME NEW W \in SUBSET Holders, NEW k \in Keys,
         \A v \in Holders \ W : writer'[v] = writer[v],
         Complete(k)' = Complete(k), EntryBytes'[k] = EntryBytes[k],
         \/ mu'[StoreOf[k]] = mu[StoreOf[k]]
         \/ {mu[StoreOf[k]], mu'[StoreOf[k]]} \cap (Holders \ W) = {},
         \A w \in W : writer[w].pc \notin FinishPCs \/ writer[w].key # k,
         \A w \in W : writer'[w].pc \notin FinishPCs \/ writer'[w].key # k
  PROVE  SameBook(k)
<1>1. CASE mu[StoreOf[k]] \in Holders \ W
  <2>1. /\ mu'[StoreOf[k]] = mu[StoreOf[k]]
        /\ writer'[mu'[StoreOf[k]]] = writer[mu[StoreOf[k]]]
    BY <1>1
  <2>2. Finishing(k)' = Finishing(k)
    BY <2>1 DEF Finishing
  <2> QED
    BY <2>1, <2>2 DEF SameBook, Booked, BookedObject
<1>2. CASE mu[StoreOf[k]] \notin Holders \ W
  <2>1. ~Finishing(k)
    BY <1>2 DEF Finishing
  <2>2. ~Finishing(k)'
    BY <1>2 DEF Finishing
  <2> QED
    BY <2>1, <2>2 DEF SameBook, Booked, BookedObject
<1> QED
  BY <1>1, <1>2

LEMMA BookFrame ==
  ASSUME NEW W \in SUBSET Holders, NEW k \in Keys,
         \A v \in Holders \ W : writer'[v] = writer[v],
         meta'[k] = meta[k], body'[k] = body[k],
         \/ mu'[StoreOf[k]] = mu[StoreOf[k]]
         \/ {mu[StoreOf[k]], mu'[StoreOf[k]]} \cap (Holders \ W) = {},
         \A w \in W : writer[w].pc \notin FinishPCs \/ writer[w].key # k,
         \A w \in W : writer'[w].pc \notin FinishPCs \/ writer'[w].key # k
  PROVE  SameBook(k)
<1>1. Complete(k)' = Complete(k) /\ EntryBytes'[k] = EntryBytes[k]
  BY DEF Complete, Parses, Exists, EntryBytes
<1> QED
  BY <1>1, EntryFrame

(***************************************************************************)
(* A step of a write outside its commit section books nothing.              *)
(***************************************************************************)
LEMMA QuietWrite ==
  ASSUME FilesInv, NEW w \in Holders, Put(w) \/ PutStep(w),
         writer[w].pc \notin CommitPCs, ~LockCommit(w)
  PROVE  /\ UNCHANGED <<meta, body, mu>> /\ UNCHANGED counters
         /\ \A v \in Holders \ {w} : writer'[v] = writer[v]
         /\ writer'[w].pc \notin FinishPCs
<1>1. writer \in [Holders -> Writers]
  BY DEF FilesInv, WritersTypeOK
<1>2. CASE Put(w)
  <2>1. UNCHANGED <<meta, body, mu>> /\ UNCHANGED counters
    BY <1>2 DEF Put, PutAdmitted, PutRefused, PutUnknownLength, disk
  <2>2. \/ writer' = writer
        \/ \E k \in Keys, n \in Sizes : BeginWrite(w, k, n)
    BY <1>2 DEF Put, PutAdmitted, PutRefused, PutUnknownLength
  <2> QED
    BY <1>1, <2>1, <2>2 DEF BeginWrite, IdleWriter, CommitPCs, FinishPCs
<1>3. CASE PutStep(w)
  <2>1. \/ \E g \in Gens : CreateBodyTemp(w, g)
        \/ CreateBodyTempFails(w)
        \/ \E n \in Sizes : StreamBody(w, n) \/ \E m \in Partial(w) : StreamOverflows(w, n, m)
        \/ \E m \in Partial(w) : StreamFails(w, m)
        \/ CreateMetaTemp(w) \/ CreateMetaTempFails(w) \/ WriteMetaTempFails(w)
        \/ DropMetaTemp(w) \/ DropBodyTemp(w) \/ ReleasePut(w)
    BY <1>3 DEF PutStep, CommitPCs, At, RenameBody, RenameBodyFails, ReplaceMeta, RemoveDestination,
       ReplaceFails,
       FinishPut
  <2>2. UNCHANGED <<meta, body, mu>> /\ UNCHANGED counters
    BY <2>1 DEF CreateBodyTemp, CreateBodyTempFails, StreamBody, StreamOverflows, StreamFails,
       CreateMetaTemp, CreateMetaTempFails, WriteMetaTempFails, DropMetaTemp, DropBodyTemp,
       ReleasePut, disk
  <2>3. \/ \E g \in Gens : writer' = [writer EXCEPT ![w].pc = "stream", ![w].gen = g]
        \/ \E n \in Sizes : writer' = [writer EXCEPT ![w].pc = "describe", ![w].written = n]
        \/ \E n \in Partial(w) : writer' = [writer EXCEPT ![w].pc = "dropBody", ![w].written = n]
        \/ \E pc \in {"release", "dropBody", "lock", "dropMeta"} : Goto(w, pc)
        \/ writer' = [writer EXCEPT ![w] = IdleWriter]
    BY <2>1 DEF CreateBodyTemp, CreateBodyTempFails, StreamBody, StreamOverflows, StreamFails,
       CreateMetaTemp, CreateMetaTempFails, WriteMetaTempFails, DropMetaTemp, DropBodyTemp,
       ReleasePut
  <2>4. /\ \A v \in Holders \ {w} : writer'[v] = writer[v]
        /\ writer'[w].pc \notin FinishPCs
    <3>1. ASSUME NEW g \in Gens, writer' = [writer EXCEPT ![w].pc = "stream", ![w].gen = g]
          PROVE  (\A v \in Holders \ {w} : writer'[v] = writer[v]) /\ writer'[w].pc \notin FinishPCs
      BY <1>1, <3>1 DEF Writers, FinishPCs
    <3>2. ASSUME NEW n \in Sizes, writer' = [writer EXCEPT ![w].pc = "describe", ![w].written = n]
          PROVE  (\A v \in Holders \ {w} : writer'[v] = writer[v]) /\ writer'[w].pc \notin FinishPCs
      BY <1>1, <3>2 DEF Writers, FinishPCs
    <3>3. ASSUME NEW pc \in {"release", "dropBody", "lock", "dropMeta"}, Goto(w, pc)
          PROVE  (\A v \in Holders \ {w} : writer'[v] = writer[v]) /\ writer'[w].pc \notin FinishPCs
      BY <1>1, <3>3 DEF Writers, Goto, FinishPCs
    <3>4. CASE writer' = [writer EXCEPT ![w] = IdleWriter]
      BY <1>1, <3>4 DEF IdleWriter, FinishPCs
    <3>5. ASSUME NEW n \in Partial(w),
                 writer' = [writer EXCEPT ![w].pc = "dropBody", ![w].written = n]
          PROVE  (\A v \in Holders \ {w} : writer'[v] = writer[v]) /\ writer'[w].pc \notin FinishPCs
      BY <1>1, <3>5 DEF Writers, FinishPCs
    <3> QED
      BY <2>3, <3>1, <3>2, <3>3, <3>4, <3>5
  <2> QED
    BY <2>2, <2>4
<1> QED
  BY <1>2, <1>3

LEMMA QuietWriteBooks ==
  ASSUME FilesInv, NEW w \in Holders, Put(w) \/ PutStep(w),
         writer[w].pc \notin CommitPCs, ~LockCommit(w)
  PROVE  SameBooks
<1>1. /\ UNCHANGED <<meta, body, mu>> /\ UNCHANGED counters
      /\ \A v \in Holders \ {w} : writer'[v] = writer[v]
      /\ writer'[w].pc \notin FinishPCs /\ writer[w].pc \notin FinishPCs
  BY QuietWrite DEF CommitPCs, FinishPCs
<1>2. ASSUME NEW k \in Keys PROVE SameBook(k)
  <2> DEFINE W == {w}
  <2>1. /\ W \in SUBSET Holders
        /\ \A v \in Holders \ W : writer'[v] = writer[v]
        /\ \A v \in W : writer[v].pc \notin FinishPCs \/ writer[v].key # k
        /\ \A v \in W : writer'[v].pc \notin FinishPCs \/ writer'[v].key # k
    BY <1>1
  <2> HIDE DEF W
  <2> QED
    BY <1>1, <2>1, BookFrame
<1> QED
  BY <1>1, <1>2 DEF SameBooks

(***************************************************************************)
(* In the commit section of w only the book of its key can change.          *)
(***************************************************************************)
LEMMA CommitFrame ==
  ASSUME FilesInv, NEW w \in Holders, writer[w].pc \in CommitPCs, PutStep(w)
  PROVE  /\ \A v \in Holders \ {w} : writer'[v] = writer[v]
         /\ writer'[w].key = writer[w].key
         /\ \A k \in Keys \ {writer[w].key} : SameBook(k)
<1>1. /\ writer \in [Holders -> Writers] /\ mu \in [Stores -> Holders \cup {Collector, NoOne}]
      /\ writer[w].key \in Keys /\ mu[StoreUsed(w)] = w
  BY CommitFacts DEF FilesInv, WritersTypeOK
<1>2. \E pc \in {"replace", "retry", "commit", "dropMeta"} : Goto(w, pc)
  BY DEF PutStep, CommitPCs, At, CreateBodyTemp, CreateBodyTempFails, StreamBody, StreamOverflows,
     StreamFails, CreateMetaTemp, CreateMetaTempFails, WriteMetaTempFails, LockCommit,
     DropMetaTemp, DropBodyTemp, ReleasePut, RenameBody, RenameBodyFails, ReplaceMeta, RemoveDestination,
     ReplaceFails, FinishPut, LeaveCommit
<1>3. /\ \A v \in Holders \ {w} : writer'[v] = writer[v]
      /\ writer'[w].key = writer[w].key
  BY <1>1, <1>2 DEF Goto, Writers
<1>4. mu' = mu \/ mu' = [mu EXCEPT ![StoreUsed(w)] = NoOne]
  BY DEF PutStep, CommitPCs, At, CreateBodyTemp, CreateBodyTempFails, StreamBody, StreamOverflows,
     StreamFails, CreateMetaTemp, CreateMetaTempFails, WriteMetaTempFails, LockCommit,
     DropMetaTemp, DropBodyTemp, ReleasePut, RenameBody, RenameBodyFails, ReplaceMeta, RemoveDestination,
     ReplaceFails, FinishPut, LeaveCommit
<1>5. \A k \in Keys \ {writer[w].key} : meta'[k] = meta[k] /\ body'[k] = body[k]
  BY WriterTouches
<1>6. ASSUME NEW k \in Keys \ {writer[w].key} PROVE SameBook(k)
  <2> DEFINE W == {w}
  <2>1. /\ W \in SUBSET Holders
        /\ \A v \in Holders \ W : writer'[v] = writer[v]
        /\ \A v \in W : writer[v].pc \notin FinishPCs \/ writer[v].key # k
        /\ \A v \in W : writer'[v].pc \notin FinishPCs \/ writer'[v].key # k
    BY <1>3
  <2>2. \/ mu'[StoreOf[k]] = mu[StoreOf[k]]
        \/ {mu[StoreOf[k]], mu'[StoreOf[k]]} \cap (Holders \ W) = {}
    BY <1>1, <1>4, StoresAssumption, NamesAssumption
  <2> HIDE DEF W
  <2> QED
    BY <1>5, <2>1, <2>2, BookFrame
<1> QED
  BY <1>3, <1>6

(***************************************************************************)
(* LockCommit reads the previous entry and changes none.                    *)
(***************************************************************************)
LEMMA LockCommitBooks ==
  ASSUME FilesInv, NEW w \in Holders, LockCommit(w)
  PROVE  SameBooks
<1>1. /\ writer \in [Holders -> Writers] /\ mu \in [Stores -> Holders \cup {Collector, NoOne}]
      /\ writer[w].key \in Keys
  BY DEF FilesInv, WritersTypeOK, Writers, LockCommit, At
<1>2. /\ UNCHANGED <<meta, body>> /\ UNCHANGED counters
      /\ writer[w].pc = "lock" /\ mu[StoreUsed(w)] = NoOne
      /\ mu' = [mu EXCEPT ![StoreUsed(w)] = w]
  BY DEF LockCommit, disk, At, Free
<1>3. /\ \A v \in Holders \ {w} : writer'[v] = writer[v]
      /\ writer'[w].pc = "rename"
  BY <1>1 DEF LockCommit, Writers
<1>4. ASSUME NEW k \in Keys PROVE SameBook(k)
  <2> DEFINE W == {w}
  <2>1. /\ W \in SUBSET Holders
        /\ \A v \in Holders \ W : writer'[v] = writer[v]
        /\ \A v \in W : writer[v].pc \notin FinishPCs \/ writer[v].key # k
        /\ \A v \in W : writer'[v].pc \notin FinishPCs \/ writer'[v].key # k
    BY <1>2, <1>3 DEF FinishPCs
  <2>2. \/ mu'[StoreOf[k]] = mu[StoreOf[k]]
        \/ {mu[StoreOf[k]], mu'[StoreOf[k]]} \cap (Holders \ W) = {}
    BY <1>1, <1>2, StoresAssumption, NamesAssumption
  <2> HIDE DEF W
  <2> QED
    BY <1>2, <2>1, <2>2, BookFrame
<1> QED
  BY <1>2, <1>4 DEF SameBooks

(***************************************************************************)
(* What is booked for a key that a write has locked.                        *)
(***************************************************************************)
LEMMA LockedBook ==
  ASSUME FilesInv, NEW w \in Holders, writer[w].pc \in CommitPCs
  PROVE  LET k == writer[w].key IN
         /\ k \in Keys /\ mu[StoreOf[k]] = w
         /\ Booked[k] = writer[w].prevBytes
         /\ BookedObject[k] = IF writer[w].prevValid THEN 1 ELSE 0
<1> DEFINE k == writer[w].key
<1>1. k \in Keys /\ mu[StoreOf[k]] = w
  BY CommitFacts DEF FilesInv, WritersTypeOK, StoreUsed
<1>2. CASE writer[w].pc \in FinishPCs
  <2>1. Finishing(k)
    BY <1>1, <1>2 DEF Finishing
  <2> QED
    BY <1>1, <2>1 DEF Booked, BookedObject
<1>3. CASE writer[w].pc \in {"rename", "replace"}
  <2>1. ~Finishing(k)
    BY <1>1, <1>3 DEF Finishing, FinishPCs
  <2>2. writer[w].prevBytes = EntryBytes[k] /\ writer[w].prevValid = Complete(k)
    BY <1>3 DEF FilesInv, FilesKept
  <2> QED
    BY <1>1, <2>1, <2>2 DEF Booked, BookedObject
<1> QED
  BY <1>1, <1>2, <1>3 DEF CommitPCs, FinishPCs

(***************************************************************************)
(* A write that renames its body, fails to, or removes or replaces the      *)
(* metadata leaves the books: the previous entry stays booked until         *)
(* FinishPut.                                                               *)
(***************************************************************************)
LEMMA RenameBooks ==
  ASSUME FilesInv, FilesInv', NEW w \in Holders,
         RenameBody(w) \/ RenameBodyFails(w) \/ ReplaceMeta(w) \/ RemoveDestination(w)
  PROVE  SameBooks
<1>1. writer[w].pc \in CommitPCs /\ PutStep(w) /\ UNCHANGED counters
  BY DEF RenameBody, RenameBodyFails, ReplaceMeta, RemoveDestination, At, CommitPCs, PutStep
<1>2. PICK k \in Keys :
      /\ k = writer[w].key /\ mu[StoreOf[k]] = w
      /\ Booked[k] = writer[w].prevBytes
      /\ BookedObject[k] = IF writer[w].prevValid THEN 1 ELSE 0
  BY <1>1, LockedBook
<1>3. \A h \in Keys \ {k} : SameBook(h)
  BY <1>1, <1>2, CommitFrame
<1>4. writer \in [Holders -> Writers] /\ writer[w] \in Writers
  BY DEF FilesInv, WritersTypeOK
<1>5. CASE RenameBody(w) \/ ReplaceMeta(w) \/ RemoveDestination(w)
  <2>1. /\ mu' = mu
        /\ writer'[w].pc \in {"replace", "retry", "commit"} /\ writer'[w].key = k
        /\ writer'[w].prevBytes = writer[w].prevBytes /\ writer'[w].prevValid = writer[w].prevValid
    BY <1>2, <1>4, <1>5 DEF RenameBody, ReplaceMeta, RemoveDestination, Goto, Writers
  <2>2. CASE writer'[w].pc \in FinishPCs
    <3>1. Finishing(k)'
      BY <1>2, <2>1, <2>2 DEF Finishing
    <3>2. mu'[StoreOf[k]] = w
      BY <1>2, <2>1
    <3>3. Booked'[k] = writer'[w].prevBytes /\ BookedObject'[k] = IF writer'[w].prevValid THEN 1 ELSE 0
      BY <3>1, <3>2 DEF Booked, BookedObject
    <3> QED
      BY <1>1, <1>2, <1>3, <2>1, <3>3 DEF SameBooks, SameBook
  <2>3. CASE writer'[w].pc = "replace"
    <3>1. ~Finishing(k)'
      BY <1>2, <2>1, <2>3 DEF Finishing, FinishPCs
    <3>2. writer'[w].prevBytes = EntryBytes'[k] /\ writer'[w].prevValid = Complete(k)'
      BY <2>1, <2>3 DEF FilesInv, FilesKept
    <3> QED
      BY <1>1, <1>2, <1>3, <2>1, <3>1, <3>2 DEF SameBooks, SameBook, Booked, BookedObject
  <2> QED
    BY <2>1, <2>2, <2>3 DEF FinishPCs
<1>6. CASE RenameBodyFails(w)
  <2>1. /\ UNCHANGED <<meta, body>> /\ mu' = [mu EXCEPT ![StoreOf[k]] = NoOne]
        /\ writer[w].pc = "rename"
    BY <1>2, <1>6 DEF RenameBodyFails, disk, LeaveCommit, StoreUsed, At
  <2>2. ~Finishing(k)'
    BY <1>2, <2>1, StoresAssumption, NamesAssumption DEF Finishing, FilesInv, WritersTypeOK
  <2>3. EntryBytes'[k] = EntryBytes[k] /\ Complete(k)' = Complete(k)
    BY <2>1 DEF EntryBytes, Complete, Parses, Exists
  <2>4. writer[w].prevBytes = EntryBytes[k] /\ writer[w].prevValid = Complete(k)
    BY <1>2, <2>1 DEF FilesInv, FilesKept
  <2> QED
    BY <1>1, <1>2, <1>3, <2>2, <2>3, <2>4 DEF SameBooks, SameBook, Booked, BookedObject
<1> QED
  BY <1>5, <1>6

(***************************************************************************)
(* A replace() that fails leaves the entry, or takes it away for good.      *)
(***************************************************************************)
LEMMA ReplaceFailsBooks ==
  ASSUME FilesInv, BooksOK, NEW w \in Holders, ReplaceFails(w)
  PROVE  SameBooks \/ (Fault("replace") /\ Lost)
<1> DEFINE g == writer[w].gen
<1>1. /\ \/ writer[w].pc = "replace"
         \/ writer[w].pc = "retry" /\ Fault("replace")
      /\ writer[w].pc \in CommitPCs /\ PutStep(w) /\ UNCHANGED counters /\ meta' = meta
  BY DEF ReplaceFails, At, CommitPCs, PutStep
<1>2. PICK k \in Keys :
      /\ k = writer[w].key /\ mu[StoreOf[k]] = w
      /\ Booked[k] = writer[w].prevBytes
      /\ BookedObject[k] = IF writer[w].prevValid THEN 1 ELSE 0
  BY <1>1, LockedBook
<1>3. \A h \in Keys \ {k} : SameBook(h)
  BY <1>1, <1>2, CommitFrame
<1>5. mu' = [mu EXCEPT ![StoreOf[k]] = NoOne]
  BY <1>2 DEF ReplaceFails, LeaveCommit, StoreUsed
<1>6. ~Finishing(k)'
  BY <1>2, <1>5, StoresAssumption, NamesAssumption DEF Finishing, FilesInv, WritersTypeOK
<1>7. /\ g \in Paths /\ body \in [Keys -> [Paths -> Bodies]] /\ meta \in [Keys -> Metas]
      /\ body' = body \/ body' = [body EXCEPT ![k][g] = NoBody]
  BY <1>1, <1>2, CommitFacts DEF FilesInv, DiskTypeOK, ReplaceFails, Unlink, generationPath
<1>8. \A p \in Paths \ {g} : body'[k][p] = body[k][p]
  BY <1>2, <1>7
<1>9. CASE writer[w].pc = "replace"
  <2>1. /\ writer[w].prevBytes = EntryBytes[k] /\ writer[w].prevValid = Complete(k)
        /\ meta[k].path # g
    BY <1>2, <1>9 DEF FilesInv, FilesKept
  <2>2. Complete(k)' = Complete(k)
    <3>1. meta[k].state = "parsed" => meta[k].path \in Paths \ {g}
      BY <1>2, <1>7, <2>1 DEF FilesInv, DiskTypeOK, Metas, Parses
    <3> QED
      BY <1>1, <1>8, <3>1 DEF Complete, Parses, Exists
  <2>3. EntryBytes'[k] = EntryBytes[k]
    BY <1>1, <2>2 DEF EntryBytes
  <2> QED
    BY <1>1, <1>2, <1>3, <1>6, <2>1, <2>2, <2>3 DEF SameBooks, SameBook, Booked, BookedObject
<1>10. CASE writer[w].pc = "retry" /\ Fault("replace")
  <2>1. meta'[k] = AbsentMeta
    BY <1>1, <1>2, <1>10 DEF FilesInv, FilesKept
  <2>2. ~Complete(k)'
    BY <2>1 DEF Complete, Parses, AbsentMeta
  <2>3. Booked'[k] = 0 /\ BookedObject'[k] = 0
    BY <1>2, <1>6, <2>2 DEF Booked, BookedObject, EntryBytes
  <2>4. \A h \in Keys : Booked[h] \in Nat /\ BookedObject[h] \in Nat
    BY DEF BooksOK
  <2> QED
    BY <1>1, <1>2, <1>3, <1>10, <2>3, <2>4 DEF Lost, SameBook
<1> QED
  BY <1>1, <1>9, <1>10

(***************************************************************************)
(* An accepted commit books the new entry in place of the previous one.     *)
(***************************************************************************)
LEMMA FinishPutBooks ==
  ASSUME FilesInv, CountersCover, NEW w \in Holders, FinishPut(w), NEW k, k = writer[w].key,
         HasController => CommitAccepted(w, writer[w].written, writer[w].prevBytes)
  PROVE  /\ k \in Keys /\ Rebooked(k)
         /\ Booked[k] = writer[w].prevBytes /\ Booked'[k] = writer[w].written
         /\ Complete(k)'
<1> DEFINE g == writer[w].gen
<1>1. writer[w].pc = "commit" /\ writer[w].pc \in CommitPCs /\ PutStep(w)
  BY DEF FinishPut, At, CommitPCs, PutStep
<1>2. /\ k \in Keys /\ mu[StoreOf[k]] = w
      /\ Booked[k] = writer[w].prevBytes
      /\ BookedObject[k] = IF writer[w].prevValid THEN 1 ELSE 0
  BY <1>1, LockedBook
<1>3. \A h \in Keys \ {k} : SameBook(h)
  BY <1>1, <1>2, CommitFrame
<1>4. /\ meta[k] = ParsedMeta(g, writer[w].written, g) /\ writer[w].prevPath # g
      /\ body[k][g] = [size |-> writer[w].written, content |-> g]
  BY <1>1 DEF FilesInv, FilesKept
<1>5. /\ mu' = [mu EXCEPT ![StoreOf[k]] = NoOne] /\ meta' = meta
      /\ bytes' = [bytes EXCEPT ![StoreOf[k]] = bytes[StoreOf[k]] + writer[w].written - writer[w].prevBytes]
      /\ objects' = [objects EXCEPT ![StoreOf[k]] = IF writer[w].prevValid THEN @ ELSE @ + 1]
      /\ RemovePrevious(w)
  BY DEF FinishPut, LeaveCommit, StoreUsed, BytesAfterPut
<1>6. ~Finishing(k)'
  BY <1>2, <1>5, StoresAssumption, NamesAssumption DEF Finishing, FilesInv, WritersTypeOK
<1>7. /\ g \in Paths /\ g # NoPath /\ body \in [Keys -> [Paths -> Bodies]]
      /\ writer[w] \in Writers
  BY <1>1, CommitFacts DEF FilesInv, DiskTypeOK
<1>8. body'[k][g] = body[k][g]
  <2>1. writer[w].prevPath # NoPath => writer[w].prevPath \in Paths
    BY <1>7 DEF Writers
  <2>2. body' = body \/ (writer[w].prevPath # NoPath /\ body' = [body EXCEPT ![k][writer[w].prevPath] = NoBody])
    BY <1>5 DEF RemovePrevious, Unlink
  <2> QED
    BY <1>2, <1>4, <1>7, <2>1, <2>2
<1>9. Complete(k)' /\ EntryBytes'[k] = writer[w].written
  <2>1. meta'[k].path = g /\ meta'[k].size = writer[w].written /\ meta'[k].state = "parsed"
    BY <1>4, <1>5 DEF ParsedMeta
  <2>2. body'[k][g] # NoBody /\ body'[k][g].size = writer[w].written
    BY <1>4, <1>7, <1>8 DEF NoBody
  <2>3. Complete(k)'
    BY <2>1, <2>2 DEF Complete, Parses, Exists
  <2> QED
    BY <1>2, <2>1, <2>3 DEF EntryBytes
<1>10. Booked'[k] = writer[w].written /\ BookedObject'[k] = 1
  BY <1>2, <1>6, <1>9 DEF Booked, BookedObject
<1>11. /\ StoreOf[k] \in Stores /\ bytes[StoreOf[k]] \in Nat /\ objects[StoreOf[k]] \in Nat
       /\ writer[w].written \in Nat /\ writer[w].prevBytes \in Nat
  BY <1>2, <1>7, StoresAssumption, WidthAssumption DEF CountersCover, Writers
<1>12. bytes[StoreOf[k]] + writer[w].written - writer[w].prevBytes
         = bytes[StoreOf[k]] - Booked[k] + Booked'[k]
  BY <1>2, <1>10, <1>11
<1>13. (IF writer[w].prevValid THEN objects[StoreOf[k]] ELSE objects[StoreOf[k]] + 1)
         = objects[StoreOf[k]] - BookedObject[k] + BookedObject'[k]
  BY <1>2, <1>10, <1>11
<1>14. Rebooked(k)
  BY <1>3, <1>5, <1>12, <1>13 DEF Rebooked
<1> QED
  BY <1>2, <1>9, <1>10, <1>14

(***************************************************************************)
(* What a step of a write may do to the books.                              *)
(***************************************************************************)
LEMMA WriterBooks ==
  ASSUME FilesInv, FilesInv', BooksOK, CountersCover, NEW w \in Holders, Put(w) \/ PutStep(w),
         FinishPut(w) /\ HasController => CommitAccepted(w, writer[w].written, writer[w].prevBytes)
  PROVE  \/ SameBooks
         \/ Fault("replace") /\ Lost
         \/ /\ FinishPut(w)
            /\ \E k \in Keys : /\ Rebooked(k) /\ Booked[k] = writer[w].prevBytes
                               /\ Booked'[k] = writer[w].written
<1>1. CASE LockCommit(w)
  BY <1>1, LockCommitBooks
<1>2. CASE RenameBody(w) \/ RenameBodyFails(w) \/ ReplaceMeta(w) \/ RemoveDestination(w)
  BY <1>2, RenameBooks
<1>3. CASE ReplaceFails(w)
  BY <1>3, ReplaceFailsBooks
<1>4. CASE FinishPut(w)
  <2>1. PICK k : k = writer[w].key
    OBVIOUS
  <2>2. k \in Keys /\ Rebooked(k) /\ Booked[k] = writer[w].prevBytes /\ Booked'[k] = writer[w].written
    BY <1>4, <2>1, FinishPutBooks
  <2> QED
    BY <1>4, <2>2
<1>5. CASE writer[w].pc \notin CommitPCs /\ ~LockCommit(w)
  BY <1>5, QuietWriteBooks
<1>6. CASE Put(w)
  <2>1. writer[w].pc = "idle"
    BY <1>6 DEF Put, PutAdmitted, PutRefused, PutUnknownLength, At
  <2> QED
    BY <1>1, <1>5, <2>1 DEF CommitPCs
<1>7. CASE PutStep(w) /\ writer[w].pc \in CommitPCs
  <2>1. \/ LockCommit(w) \/ RenameBody(w) \/ RenameBodyFails(w) \/ ReplaceMeta(w)
        \/ RemoveDestination(w) \/ ReplaceFails(w) \/ FinishPut(w)
    BY <1>7 DEF PutStep, CommitPCs, At, CreateBodyTemp, CreateBodyTempFails, StreamBody,
       StreamOverflows, StreamFails, CreateMetaTemp, CreateMetaTempFails, WriteMetaTempFails,
       DropMetaTemp, DropBodyTemp, ReleasePut
  <2> QED
    BY <1>1, <1>2, <1>3, <1>4, <2>1
<1> QED
  BY <1>1, <1>5, <1>6, <1>7

(***************************************************************************)
(* A commit replaces no more than what is committed and adds no more than   *)
(* what is reserved: the controller accepts it.                             *)
(***************************************************************************)
LEMMA CommitFits ==
  ASSUME FilesInv, BooksOK, ControllerTypeOK, CountersCover, NEW d \in Nat, LedgerInv(d),
         HasController, NEW w \in Holders, At(w, "commit")
  PROVE  /\ CommitAccepted(w, writer[w].written, writer[w].prevBytes)
         /\ writer[w].prevBytes <= AllStoreBytes
<1> DEFINE k == writer[w].key
           s == StoreOf[k]
<1>1. k \in Keys /\ Booked[k] = writer[w].prevBytes
  BY LockedBook DEF At, CommitPCs
<1>2. s \in Stores /\ k \in KeysOf(s) /\ IsFiniteSet(KeysOf(s)) /\ KeysOf(s) \subseteq Keys
  BY <1>1, StoresAssumption, KeysOfFinite DEF KeysOf
<1>3. bytes \in [Stores -> Nat] /\ Total(KeysOf(s), Booked) <= bytes[s]
  BY <1>2 DEF CountersCover
<1>4. \A x \in KeysOf(s) : Booked[x] \in Nat
  BY <1>2 DEF BooksOK
<1> HIDE DEF s, k
<1>5. Booked[k] <= Total(KeysOf(s), Booked) /\ Total(KeysOf(s), Booked) \in Nat
  BY <1>2, <1>4, TotalBoundsTerm, TotalType
<1>6. bytes[s] <= AllStoreBytes /\ AllStoreBytes \in Nat
  <2>1. IsFiniteSet(Stores) /\ \A t \in Stores : bytes[t] \in Nat
    BY <1>3, StoresAssumption
  <2> QED
    BY <1>2, <2>1, TotalBoundsTerm, TotalType DEF AllStoreBytes
<1>7. writer[w].prevBytes \in Nat /\ bytes[s] \in Nat
  BY <1>2, <1>3 DEF FilesInv, WritersTypeOK, Writers
<1>8. writer[w].prevBytes <= AllStoreBytes
  BY <1>1, <1>3, <1>5, <1>6, <1>7
<1>9. writer[w].prevBytes <= committedBytes
  BY <1>6, <1>7, <1>8 DEF LedgerInv
<1>10. writer[w].written <= reservation[w].bytes
  BY DEF LedgerInv, WriteReserved, ReservedPCs, At
<1> QED
  BY <1>8, <1>9, <1>10 DEF CommitAccepted

(***************************************************************************)
(* A write keeps its reservation until it commits or lets it go.            *)
(***************************************************************************)
LEMMA ReservedFrame ==
  ASSUME NEW v \in Holders, WriteReserved(v),
         writer'[v] = writer[v], reservation'[v] = reservation[v],
         writer[v].pc # "idle" /\ writer[v].gen \in bodyTemps'[writer[v].key]
           => writer[v].gen \in bodyTemps[writer[v].key]
  PROVE  WriteReserved(v)'
  BY DEF WriteReserved, ReservedPCs

(***************************************************************************)
(* A step of one write is no step of another.                               *)
(***************************************************************************)
LEMMA WriterFrame ==
  ASSUME FilesInv, NEW w \in Holders, Put(w) \/ PutStep(w)
  PROVE  \A v \in Holders \ {w} : writer'[v] = writer[v]
<1>1. CASE writer[w].pc \notin CommitPCs /\ ~LockCommit(w)
  BY <1>1, QuietWrite
<1>2. CASE LockCommit(w)
  BY <1>2 DEF LockCommit, FilesInv, WritersTypeOK
<1>3. CASE writer[w].pc \in CommitPCs /\ PutStep(w)
  BY <1>3, CommitFrame
<1>4. CASE Put(w) /\ writer[w].pc \in CommitPCs
  BY <1>4 DEF Put, PutAdmitted, PutRefused, PutUnknownLength, At, CommitPCs
<1> QED
  BY <1>1, <1>2, <1>3, <1>4

(***************************************************************************)
(* The other writes, which do not take the step.                            *)
(***************************************************************************)
LEMMA OthersReserved ==
  ASSUME FilesInv, ControllerTypeOK, HasController, NEW w \in Holders, Put(w) \/ PutStep(w),
         \A v \in Holders : WriteReserved(v)
  PROVE  \A v \in Holders \ {w} : WriteReserved(v)'
<1>1. \A v \in Holders \ {w} : writer'[v] = writer[v]
  BY WriterFrame
<1>2. \A v \in Holders \ {w} : reservation'[v] = reservation[v]
  <2>1. \/ reservation' = reservation
        \/ \E n : reservation' = [reservation EXCEPT ![w] = [bytes |-> n, done |-> FALSE]]
        \/ reservation' = [reservation EXCEPT ![w].done = TRUE]
    <3>1. CASE Put(w)
      BY <3>1 DEF Put, PutAdmitted, PutRefused, PutUnknownLength, ReserveGranted, ReserveRefused,
         RecordBypass, ledger
    <3>2. CASE FinishPut(w)
      BY <3>2 DEF FinishPut, Commit, Settle
    <3>3. CASE ReleasePut(w)
      BY <3>3 DEF ReleasePut, Release, Settle, ledger
    <3>4. CASE PutStep(w) /\ ~FinishPut(w) /\ ~ReleasePut(w)
      BY <3>4 DEF PutStep, CreateBodyTemp, CreateBodyTempFails, StreamBody, StreamOverflows,
         RecordBypass, ledger, StreamFails, CreateMetaTemp, CreateMetaTempFails,
         WriteMetaTempFails, RenameBody, RenameBodyFails, ReplaceMeta, RemoveDestination,
         ReplaceFails, DropMetaTemp,
         LockCommit, DropBodyTemp, controllerVars
    <3> QED
      BY <3>1, <3>2, <3>3, <3>4
  <2> QED
    BY <2>1 DEF ControllerTypeOK
<1>3. ASSUME NEW v \in Holders \ {w}, writer[v].pc # "idle",
             writer[v].gen \in bodyTemps'[writer[v].key]
      PROVE  writer[v].gen \in bodyTemps[writer[v].key]
  <2>1. writer[v].key \in Keys /\ bodyTemps \in [Keys -> SUBSET Gens]
    BY <1>3 DEF FilesInv, WritersTypeOK, Writers, At, DiskTypeOK
  <2>2. \/ bodyTemps' = bodyTemps
        \/ \E g \in FreshGens(writer[w].key) :
              bodyTemps' = [bodyTemps EXCEPT ![writer[w].key] = @ \cup {g}]
        \/ bodyTemps' = [bodyTemps EXCEPT ![writer[w].key] = @ \ {writer[w].gen}]
    <3>1. CASE Put(w)
      BY <3>1 DEF Put, PutAdmitted, PutRefused, PutUnknownLength, disk
    <3>2. CASE PutStep(w)
      BY <3>2 DEF PutStep, CreateBodyTemp, CreateBodyTempFails, StreamBody, StreamOverflows,
         StreamFails, CreateMetaTemp, CreateMetaTempFails, FinishPut, ReleasePut,
         WriteMetaTempFails, RenameBody, RenameBodyFails, ReplaceMeta, RemoveDestination,
         ReplaceFails, DropMetaTemp,
         LockCommit, DropBodyTemp, disk
    <3> QED
      BY <3>1, <3>2
  <2> QED
    BY <1>3, <2>1, <2>2 DEF FreshGens
<1> QED
  BY <1>1, <1>2, <1>3, ReservedFrame

(***************************************************************************)
(* The write that takes the step.                                           *)
(***************************************************************************)
LEMMA OwnReserved ==
  ASSUME FilesInv, ControllerTypeOK, HasController, NEW w \in Holders, Put(w) \/ PutStep(w),
         WriteReserved(w)
  PROVE  WriteReserved(w)'
<1> DEFINE x == writer[w]
           r == reservation[w]
<1>1. /\ writer \in [Holders -> Writers] /\ x \in Writers
      /\ reservation \in [Holders -> Reservations] /\ r \in Reservations
  BY DEF FilesInv, WritersTypeOK, ControllerTypeOK
<1>2. ASSUME NEW k \in Keys, NEW n \in Sizes, NEW free \in FreeReadings, PutAdmitted(w, k, n, free)
      PROVE  WriteReserved(w)'
  <2>1. reservation'[w] = [bytes |-> n, done |-> FALSE]
    BY <1>1, <1>2 DEF PutAdmitted, ReserveGranted
  <2>2. writer'[w].pc = "create" /\ writer'[w].length = n /\ writer'[w].written = 0
    BY <1>1, <1>2 DEF PutAdmitted, BeginWrite, IdleWriter
  <2>3. n \in Nat
    BY InputsAssumption, WidthAssumption
  <2> QED
    BY <2>1, <2>2, <2>3 DEF WriteReserved, ReservedPCs
<1>3. CASE Put(w)
  <2>1. ASSUME \/ \E n \in Sizes, free \in FreeReadings : PutRefused(w, n, free)
               \/ PutUnknownLength(w)
        PROVE  UNCHANGED <<writer, reservation, bodyTemps>>
    BY <2>1 DEF PutRefused, PutUnknownLength, ReserveRefused, RecordBypass, ledger, disk
  <2>2. ASSUME UNCHANGED <<writer, reservation, bodyTemps>> PROVE WriteReserved(w)'
    BY <2>2, ReservedFrame
  <2> QED
    BY <1>2, <1>3, <2>1, <2>2 DEF Put
<1>4. ASSUME NEW g \in Gens, CreateBodyTemp(w, g) PROVE WriteReserved(w)'
  <2>1. /\ x.pc = "create" /\ reservation' = reservation
        /\ writer'[w] = [x EXCEPT !.pc = "stream", !.gen = g]
    BY <1>1, <1>4 DEF CreateBodyTemp, controllerVars, At
  <2>2. writer'[w].pc = "stream" /\ writer'[w].length = x.length /\ writer'[w].written = x.written
    BY <1>1, <2>1 DEF Writers
  <2> QED
    BY <2>1, <2>2 DEF WriteReserved, ReservedPCs
<1>5. ASSUME NEW n \in Sizes, StreamBody(w, n) PROVE WriteReserved(w)'
  <2>1. /\ x.pc = "stream" /\ reservation' = reservation /\ ~(n > x.length)
        /\ writer'[w] = [x EXCEPT !.pc = "describe", !.written = n]
    BY <1>1, <1>5 DEF StreamBody, controllerVars, At, Overflows
  <2>2. n \in Nat /\ x.length \in Nat
    BY <1>1, InputsAssumption, WidthAssumption DEF Writers
  <2>3. n <= x.length
    BY <2>1, <2>2
  <2>4. writer'[w].pc = "describe" /\ writer'[w].length = x.length /\ writer'[w].written = n
    BY <1>1, <2>1 DEF Writers
  <2> QED
    BY <2>1, <2>3, <2>4 DEF WriteReserved, ReservedPCs
<1>6. ASSUME NEW pc \in {"release", "dropBody", "lock", "dropMeta", "rename"},
             x.pc \in {"create", "stream", "describe", "lock", "rename"},
             reservation' = reservation,
             writer'[w].pc = pc, writer'[w].key = x.key, writer'[w].gen = x.gen,
             writer'[w].length = x.length, writer'[w].written = x.written
      PROVE  WriteReserved(w)'
  BY <1>6 DEF WriteReserved, ReservedPCs
<1>7. CASE \/ CreateBodyTempFails(w)
           \/ CreateMetaTemp(w) \/ CreateMetaTempFails(w) \/ WriteMetaTempFails(w)
           \/ RenameBodyFails(w)
  <2>1. /\ x.pc \in {"create", "stream", "describe", "lock", "rename"}
        /\ reservation' = reservation
        /\ \E pc \in {"release", "dropBody", "lock", "dropMeta", "rename"} : Goto(w, pc)
    BY <1>7 DEF CreateBodyTempFails, CreateMetaTemp, CreateMetaTempFails, WriteMetaTempFails,
       RenameBodyFails, LeaveCommit, controllerVars, At
  <2>2. PICK pc \in {"release", "dropBody", "lock", "dropMeta", "rename"} : Goto(w, pc)
    BY <2>1
  <2>3. /\ writer'[w].pc = pc /\ writer'[w].key = x.key /\ writer'[w].gen = x.gen
        /\ writer'[w].length = x.length /\ writer'[w].written = x.written
    BY <1>1, <2>2 DEF Goto, Writers
  <2> QED
    BY <1>6, <2>1, <2>3
<1>8. CASE LockCommit(w)
  <2>1. x.pc = "lock" /\ reservation' = reservation
    BY <1>8 DEF LockCommit, controllerVars, At
  <2>2. /\ writer'[w].pc = "rename" /\ writer'[w].key = x.key /\ writer'[w].gen = x.gen
        /\ writer'[w].length = x.length /\ writer'[w].written = x.written
    BY <1>1, <1>8 DEF LockCommit, Writers
  <2> QED
    BY <1>6, <2>1, <2>2
<1>9. CASE RenameBody(w)
  <2>1. /\ x.pc = "rename" /\ reservation' = reservation
        /\ bodyTemps' = [bodyTemps EXCEPT ![x.key] = @ \ {x.gen}]
    BY <1>9 DEF RenameBody, controllerVars, At
  <2>2. /\ writer'[w].pc = "replace" /\ writer'[w].key = x.key /\ writer'[w].gen = x.gen
        /\ writer'[w].length = x.length /\ writer'[w].written = x.written
    BY <1>1, <1>9 DEF RenameBody, Goto, Writers
  <2>3. x.key \in Keys /\ bodyTemps \in [Keys -> SUBSET Gens]
    BY <2>1, CommitFacts DEF CommitPCs, FilesInv, DiskTypeOK
  <2> QED
    BY <2>1, <2>2, <2>3 DEF WriteReserved, ReservedPCs
<1>10. CASE ReplaceMeta(w) \/ RemoveDestination(w)
  <2>1. /\ x.pc \in {"replace", "retry"} /\ reservation' = reservation /\ bodyTemps' = bodyTemps
    BY <1>10 DEF ReplaceMeta, RemoveDestination, controllerVars, At
  <2>2. /\ writer'[w].pc \in FinishPCs /\ writer'[w].key = x.key /\ writer'[w].gen = x.gen
        /\ writer'[w].length = x.length /\ writer'[w].written = x.written
    BY <1>1, <1>10 DEF ReplaceMeta, RemoveDestination, Goto, Writers, FinishPCs
  <2> QED
    BY <2>1, <2>2 DEF WriteReserved, ReservedPCs, FinishPCs
<1>11. CASE ReplaceFails(w) \/ FinishPut(w)
  <2>1. x.pc \in {"replace", "retry", "commit"} /\ bodyTemps' = bodyTemps
    BY <1>11 DEF ReplaceFails, FinishPut, At
  <2>2. writer'[w].pc = "dropMeta" /\ writer'[w].key = x.key /\ writer'[w].gen = x.gen
    BY <1>1, <1>11 DEF ReplaceFails, FinishPut, LeaveCommit, Goto, Writers
  <2> QED
    BY <2>1, <2>2 DEF WriteReserved, ReservedPCs
<1>12. CASE DropMetaTemp(w)
  <2>1. x.pc = "dropMeta" /\ reservation' = reservation /\ bodyTemps' = bodyTemps
    BY <1>12 DEF DropMetaTemp, controllerVars, At
  <2>2. /\ writer'[w].pc = "dropBody" /\ writer'[w].key = x.key /\ writer'[w].gen = x.gen
        /\ writer'[w].written = x.written
    BY <1>1, <1>12 DEF DropMetaTemp, Goto, Writers
  <2> QED
    BY <2>1, <2>2 DEF WriteReserved, ReservedPCs
<1>13. CASE DropBodyTemp(w) \/ ReleasePut(w)
  <2>1. writer'[w].pc \in {"release", "idle"}
    BY <1>1, <1>13 DEF DropBodyTemp, ReleasePut, Goto, Writers, IdleWriter
  <2> QED
    BY <2>1 DEF WriteReserved, ReservedPCs
<1>14. ASSUME NEW m \in Partial(w), x.pc = "stream", reservation' = reservation,
              writer' = [writer EXCEPT ![w].pc = "dropBody", ![w].written = m]
       PROVE  WriteReserved(w)'
  <2>1. m \in Nat /\ x.length \in Nat /\ ~(m > x.length)
    BY <1>1, InputsAssumption, WidthAssumption DEF Writers, Partial, Overflows
  <2>2. m <= x.length
    BY <2>1
  <2>3. writer'[w].pc = "dropBody" /\ writer'[w].written = m
    BY <1>1, <1>14 DEF Writers
  <2> QED
    BY <1>14, <2>2, <2>3 DEF WriteReserved, ReservedPCs
<1>15. ASSUME NEW n \in Sizes, NEW m \in Partial(w), StreamOverflows(w, n, m) PROVE WriteReserved(w)'
  BY <1>14, <1>15 DEF StreamOverflows, RecordBypass, ledger, At
<1>16. ASSUME NEW m \in Partial(w), StreamFails(w, m) PROVE WriteReserved(w)'
  BY <1>14, <1>16 DEF StreamFails, controllerVars, At
<1> QED
  BY <1>3, <1>4, <1>5, <1>7, <1>8, <1>9, <1>10, <1>11, <1>12, <1>13, <1>15, <1>16 DEF PutStep

(***************************************************************************)
(* What a write does to the committed bytes: nothing, unless it commits.    *)
(***************************************************************************)
LEMMA CommittedByFinishOnly ==
  ASSUME HasController, NEW w \in Holders, Put(w) \/ PutStep(w), ~FinishPut(w)
  PROVE  committedBytes' = committedBytes
<1>1. CASE Put(w)
  BY <1>1 DEF Put, PutAdmitted, PutRefused, PutUnknownLength, ReserveGranted, ReserveRefused,
     RecordBypass, ledger
<1>2. CASE ReleasePut(w)
  BY <1>2 DEF ReleasePut, Release, ledger
<1>3. CASE PutStep(w) /\ ~ReleasePut(w)
  BY <1>3 DEF PutStep, CreateBodyTemp, CreateBodyTempFails, StreamBody, StreamOverflows,
     RecordBypass, ledger, StreamFails, CreateMetaTemp, CreateMetaTempFails,
     WriteMetaTempFails, RenameBody, RenameBodyFails, ReplaceMeta, RemoveDestination,
     ReplaceFails, DropMetaTemp,
     LockCommit, DropBodyTemp, controllerVars
<1> QED
  BY <1>1, <1>2, <1>3

(***************************************************************************)
(* Every step of a write keeps the accounts, up to the d bytes that a       *)
(* collection has not reported.                                             *)
(***************************************************************************)
LEMMA WriterAccounts ==
  ASSUME FilesInv, FilesInv', BooksOK, BooksOK', ControllerTypeOK,
         NEW d \in Nat, AccountsInv(d), BytesFit(d)',
         NEW w \in Holders, Put(w) \/ PutStep(w)
  PROVE  /\ AccountsInv(d)'
         /\ CountersExact /\ ~Fault("replace") => CountersExact'
<1>1. CountersCover /\ LedgerInv(d)
  BY DEF AccountsInv
<1>2. FinishPut(w) /\ HasController => /\ CommitAccepted(w, writer[w].written, writer[w].prevBytes)
                                       /\ writer[w].prevBytes <= AllStoreBytes
  BY <1>1, CommitFits DEF FinishPut
<1>3. ASSUME HasController PROVE \A v \in Holders : WriteReserved(v)'
  <2>1. \A v \in Holders : WriteReserved(v)
    BY <1>1, <1>3 DEF LedgerInv
  <2> QED
    BY <1>3, <2>1, OwnReserved, OthersReserved
<1>4. CASE ~FinishPut(w)
  <2>1. SameBooks \/ (Fault("replace") /\ Lost)
    BY <1>1, <1>4, WriterBooks
  <2>2. /\ CountersCover' /\ AllStoreBytes' = AllStoreBytes
        /\ CountersExact /\ ~Fault("replace") => CountersExact'
    BY <1>1, <2>1, SameBooksCover, LostCover
  <2>3. HasController => committedBytes' = committedBytes
    BY <1>4, CommittedByFinishOnly
  <2> QED
    BY <1>1, <1>3, <2>2, <2>3 DEF AccountsInv, LedgerInv
<1>5. CASE FinishPut(w)
  <2>1. PICK k : k = writer[w].key
    OBVIOUS
  <2>2. k \in Keys /\ Rebooked(k) /\ Booked[k] = writer[w].prevBytes /\ Booked'[k] = writer[w].written
    BY <1>1, <1>2, <1>5, <2>1, FinishPutBooks
  <2>3. /\ CountersCover' /\ AllStoreBytes' = AllStoreBytes - writer[w].prevBytes + writer[w].written
        /\ CountersExact => CountersExact'
    BY <1>1, <2>2, RebookedCover
  <2>4. ASSUME HasController PROVE committedBytes' = AllStoreBytes' + d
    <3> DEFINE b == committedBytes - writer[w].prevBytes
               n == writer[w].written
    <3>1. /\ committedBytes' = saturatingAdd(b, n)
          /\ writer[w].prevBytes <= AllStoreBytes
      BY <1>2, <1>5, <2>4 DEF FinishPut, Commit
    <3>2. committedBytes = AllStoreBytes + d /\ committedBytes \in 0..MaxInt
      BY <1>1, <2>4 DEF LedgerInv, ControllerTypeOK
    <3>3. writer[w].prevBytes \in Nat /\ n \in 0..MaxInt /\ MaxInt \in Nat
      BY WidthAssumption DEF FilesInv, WritersTypeOK, Writers
    <3>4. AllStoreBytes \in Nat
      <4>1. IsFiniteSet(Stores) /\ \A t \in Stores : bytes[t] \in Nat
        BY <1>1, StoresAssumption DEF CountersCover
      <4> QED
        BY <4>1, TotalType DEF AllStoreBytes
    <3>5. b \in 0..MaxInt
      BY <3>1, <3>2, <3>3, <3>4
    <3>6. b + n = AllStoreBytes' + d
      BY <2>3, <3>2, <3>3, <3>4
    <3>7. b + n <= MaxInt
      BY <2>4, <3>6 DEF BytesFit
    <3> HIDE DEF b, n
    <3>8. saturatingAdd(b, n) = b + n
      BY <3>3, <3>5, <3>7, SaturatingAddType
    <3> QED
      BY <3>1, <3>6, <3>8
  <2> QED
    BY <1>3, <2>3, <2>4 DEF AccountsInv, LedgerInv
<1> QED
  BY <1>4, <1>5

(***************************************************************************)
(* New: the counters come from Reconcile and the committed bytes from their *)
(* sum, which does not saturate when the bytes on disk fit an int64.        *)
(***************************************************************************)
LEMMA ReconciledAccounts ==
  ASSUME DiskTypeOK
  PROVE  /\ \A s \in Stores : ReconciledBytes(s) \in Nat /\ ReconciledObjects(s) \in Nat
         /\ \A F : (\A s \in Stores : F[s] = ReconciledBytes(s))
                     => Total(Stores, F) = Total(Keys, EntryBytes)
<1>1. \A k \in Keys : EntryBytes[k] \in Nat
  BY EntryBytesType
<1>2. ASSUME NEW s \in Stores PROVE ReconciledBytes(s) \in Nat /\ ReconciledObjects(s) \in Nat
  <2>1. IsFiniteSet(KeysOf(s)) /\ \A k \in KeysOf(s) : EntryBytes[k] \in Nat
    BY <1>1, KeysOfFinite
  <2>2. IsFiniteSet(CompleteIn(s))
    BY <2>1, FS_Subset DEF CompleteIn
  <2> QED
    BY <2>1, <2>2, TotalType, FS_CardinalityType DEF ReconciledBytes, ReconciledObjects
<1>3. ASSUME NEW F, \A s \in Stores : F[s] = ReconciledBytes(s)
      PROVE  Total(Stores, F) = Total(Keys, EntryBytes)
  BY <1>1, <1>3, TotalOfStores DEF ReconciledBytes
<1> QED
  BY <1>2, <1>3

LEMMA ReconciledBooks ==
  ASSUME DiskTypeOK, NEW b, NEW o, NEW s \in Stores,
         \A k \in KeysOf(s) : b[k] = EntryBytes[k],
         \A k \in KeysOf(s) : o[k] = IF Complete(k) THEN 1 ELSE 0
  PROVE  /\ Total(KeysOf(s), b) = ReconciledBytes(s)
         /\ Total(KeysOf(s), o) = ReconciledObjects(s)
<1>1. Total(KeysOf(s), b) = ReconciledBytes(s)
  BY TotalEqual DEF ReconciledBytes
<1>2. /\ CompleteIn(s) \in SUBSET KeysOf(s) /\ IsFiniteSet(KeysOf(s))
      /\ \A k \in KeysOf(s) : o[k] = IF k \in CompleteIn(s) THEN 1 ELSE 0
  BY KeysOfFinite DEF CompleteIn
<1>3. Total(KeysOf(s), o) = ReconciledObjects(s)
  BY <1>2, TotalOfOnes DEF ReconciledObjects
<1> QED
  BY <1>1, <1>3

LEMMA StartAccounts ==
  ASSUME StoreInit, BytesFit(0)
  PROVE  AccountsInv(0) /\ CountersExact
<1>1. DiskTypeOK
  BY StartFiles DEF FilesInv
<1>2. \A k \in Keys : Booked[k] = EntryBytes[k] /\ BookedObject[k] = IF Complete(k) THEN 1 ELSE 0
  <2>1. \A k \in Keys : ~Finishing(k)
    BY StoresAssumption, NamesAssumption DEF StoreInit, Finishing
  <2> QED
    BY <2>1 DEF Booked, BookedObject
<1>3. /\ bytes \in [Stores -> Nat] /\ objects \in [Stores -> Nat]
      /\ \A s \in Stores : bytes[s] = ReconciledBytes(s) /\ objects[s] = ReconciledObjects(s)
  BY <1>1, ReconciledAccounts DEF StoreInit
<1>4. CountersExact
  <2> SUFFICES ASSUME NEW s \in Stores
               PROVE  bytes[s] = Total(KeysOf(s), Booked) /\ objects[s] = Total(KeysOf(s), BookedObject)
    BY DEF CountersExact
  <2>1. /\ \A k \in KeysOf(s) : Booked[k] = EntryBytes[k]
        /\ \A k \in KeysOf(s) : BookedObject[k] = IF Complete(k) THEN 1 ELSE 0
    BY <1>2 DEF KeysOf
  <2> QED
    BY <1>1, <1>3, <2>1, ReconciledBooks
<1>5. CountersCover
  BY <1>3, <1>4 DEF CountersCover, CountersExact
<1>6. ASSUME HasController PROVE committedBytes = AllStoreBytes + 0
  <2>1. AllStoreBytes = Total(Keys, EntryBytes)
    BY <1>1, <1>3, ReconciledAccounts DEF AllStoreBytes
  <2>2. Total(Keys, EntryBytes) \in Nat /\ MaxInt \in Nat
    BY <1>1, EntryBytesType, WidthAssumption
  <2>3. committedBytes = Min(Total(Keys, EntryBytes), MaxInt)
    BY <1>6 DEF StoreInit
  <2> QED
    BY <1>6, <2>1, <2>2, <2>3 DEF Min, BytesFit
<1>7. \A w \in Holders : WriteReserved(w)
  BY DEF StoreInit, IdleWriter, WriteReserved, ReservedPCs
<1> QED
  BY <1>4, <1>5, <1>6, <1>7 DEF AccountsInv, LedgerInv

LEMMA CrashAccounts ==
  ASSUME FilesInv, Crash, BytesFit(0)'
  PROVE  AccountsInv(0)' /\ CountersExact'
<1>1. DiskTypeOK /\ UNCHANGED <<meta, body>>
  BY DEF FilesInv, Crash
<1>2. \A k \in Keys : Booked'[k] = EntryBytes[k] /\ BookedObject'[k] = IF Complete(k) THEN 1 ELSE 0
  <2>1. \A k \in Keys : ~Finishing(k)'
    BY StoresAssumption, NamesAssumption DEF Crash, FreshProcess, Finishing
  <2>2. \A k \in Keys : EntryBytes'[k] = EntryBytes[k] /\ Complete(k)' = Complete(k)
    BY <1>1 DEF EntryBytes, Complete, Parses, Exists
  <2> QED
    BY <2>1, <2>2 DEF Booked, BookedObject
<1>3. /\ bytes' \in [Stores -> Nat] /\ objects' \in [Stores -> Nat]
      /\ \A s \in Stores : bytes'[s] = ReconciledBytes(s) /\ objects'[s] = ReconciledObjects(s)
  BY <1>1, ReconciledAccounts DEF Crash, FreshCounters
<1>4. CountersExact'
  <2>1. ASSUME NEW s \in Stores
        PROVE  bytes'[s] = Total(KeysOf(s), Booked') /\ objects'[s] = Total(KeysOf(s), BookedObject')
    <3>1. /\ \A k \in KeysOf(s) : Booked'[k] = EntryBytes[k]
          /\ \A k \in KeysOf(s) : BookedObject'[k] = IF Complete(k) THEN 1 ELSE 0
      BY <1>2 DEF KeysOf
    <3> QED
      BY <1>1, <1>3, <3>1, ReconciledBooks
  <2> QED
    BY <2>1 DEF CountersExact
<1>5. CountersCover'
  BY <1>3, <1>4 DEF CountersCover, CountersExact
<1>6. ASSUME HasController PROVE committedBytes' = AllStoreBytes' + 0
  <2>1. AllStoreBytes' = Total(Keys, EntryBytes)
    BY <1>1, <1>3, ReconciledAccounts DEF AllStoreBytes
  <2>2. Total(Keys, EntryBytes) \in Nat /\ MaxInt \in Nat
    BY <1>1, EntryBytesType, WidthAssumption
  <2>3. committedBytes' = Min(Total(Keys, EntryBytes), MaxInt)
    BY <1>6 DEF Crash, FreshController
  <2> QED
    BY <1>6, <2>1, <2>2, <2>3 DEF Min, BytesFit
<1>7. \A w \in Holders : WriteReserved(w)'
  BY DEF Crash, FreshProcess, IdleWriter, WriteReserved, ReservedPCs
<1> QED
  BY <1>4, <1>5, <1>6, <1>7 DEF AccountsInv, LedgerInv

(***************************************************************************)
(* Between two commit sections the counters are what Reconcile counts.      *)
(***************************************************************************)
LEMMA ExactMatches ==
  ASSUME FilesInv, CountersExact
  PROVE  CountersMatchDisk
<1> SUFFICES ASSUME NEW s \in Stores, Free(s)
             PROVE  bytes[s] = ReconciledBytes(s) /\ objects[s] = ReconciledObjects(s)
  BY DEF CountersMatchDisk
<1>1. /\ \A k \in KeysOf(s) : Booked[k] = EntryBytes[k]
      /\ \A k \in KeysOf(s) : BookedObject[k] = IF Complete(k) THEN 1 ELSE 0
  <2>1. \A k \in KeysOf(s) : k \in Keys /\ ~Finishing(k)
    BY NamesAssumption DEF Finishing, KeysOf, Free
  <2> QED
    BY <2>1 DEF Booked, BookedObject
<1>2. DiskTypeOK
  BY DEF FilesInv
<1>3. bytes[s] = Total(KeysOf(s), Booked) /\ objects[s] = Total(KeysOf(s), BookedObject)
  BY DEF CountersExact
<1> QED
  BY <1>1, <1>2, <1>3, ReconciledBooks

(***************************************************************************)
(* Two sums whose terms are never both positive fit in one that covers      *)
(* each of them.                                                            *)
(***************************************************************************)
LEMMA DisjointTotals ==
  ASSUME NEW S, IsFiniteSet(S), NEW f, NEW g, NEW e,
         \A x \in S : f[x] \in Nat /\ f[x] <= e[x],
         \A x \in S : g[x] \in Nat /\ g[x] <= e[x],
         \A x \in S : e[x] \in Nat,
         \A x \in S : f[x] = 0 \/ g[x] = 0
  PROVE  Total(S, f) + Total(S, g) <= Total(S, e)
<1> DEFINE A == Slots(S, f)
           B == Slots(S, g)
           C == Slots(S, e)
<1>1. IsFiniteSet(A) /\ IsFiniteSet(B) /\ IsFiniteSet(C)
  BY TotalType
<1>2. A \cap B = {} /\ A \cup B \in SUBSET C
  BY DEF Slots
<1> HIDE DEF A, B, C
<1>3. Cardinality(A \cup B) <= Cardinality(C)
  BY <1>1, <1>2, FS_Subset
<1>4. Cardinality(A \cup B) = Cardinality(A) + Cardinality(B) - Cardinality({})
  BY <1>1, <1>2, FS_Union
<1>5. Cardinality({}) = 0 /\ Cardinality(A) \in Nat /\ Cardinality(B) \in Nat
  BY <1>1, FS_EmptySet, FS_CardinalityType
<1>6. Cardinality(A) + Cardinality(B) <= Cardinality(C)
  BY <1>3, <1>4, <1>5
<1> QED
  BY <1>6 DEF Total, A, B, C

(***************************************************************************)
(* A sum whose terms are covered by their own in g, or, for the members of  *)
(* M, by a term of d that no other member uses.                             *)
(***************************************************************************)
LEMMA MovedTotal ==
  ASSUME NEW K, IsFiniteSet(K), NEW H, IsFiniteSet(H), NEW M \in SUBSET K,
         NEW f, NEW g, NEW d, NEW h,
         \A k \in K : f[k] \in Nat /\ g[k] \in Nat,
         \A x \in H : d[x] \in Nat,
         \A k \in K \ M : f[k] <= g[k],
         \A k \in M : h[k] \in H /\ f[k] <= d[h[k]],
         \A j, k \in M : h[j] = h[k] => j = k
  PROVE  Total(K, f) <= Total(K, g) + Total(H, d)
<1> DEFINE A == Slots(K, f)
           B == Slots(K, g)
           C == Slots(H, d)
           P == {x \in A : x[1] \notin M}
           Q == {x \in A : x[1] \in M}
           G == [x \in Q |-> <<h[x[1]], x[2]>>]
<1>1. IsFiniteSet(A) /\ IsFiniteSet(B) /\ IsFiniteSet(C)
  BY TotalType
<1>2. P \in SUBSET B
  BY DEF Slots
<1>3. \A x \in Q : x[1] \in M /\ x[2] \in 1..f[x[1]] /\ x = <<x[1], x[2]>>
  BY DEF Slots
<1>4. \A k \in M : \A i \in 1..f[k] : <<h[k], i>> \in C
  <2> SUFFICES ASSUME NEW k \in M, NEW i \in 1..f[k] PROVE <<h[k], i>> \in C
    OBVIOUS
  <2>1. h[k] \in H /\ f[k] \in Nat /\ d[h[k]] \in Nat /\ f[k] <= d[h[k]]
    OBVIOUS
  <2>2. i \in 1..d[h[k]]
    BY <2>1
  <2> QED
    BY <2>1, <2>2 DEF Slots
<1> HIDE DEF A, B, C
<1>5. G \in Injection(Q, C)
  <2>1. G \in [Q -> C]
    <3> HIDE DEF Q
    <3> QED
      BY <1>3, <1>4
  <2>2. \A x, y \in Q : G[x] = G[y] => x = y
    <3> HIDE DEF Q
    <3> QED
      BY <1>3
  <2> HIDE DEF G, Q
  <2> QED
    BY <2>1, <2>2, Fun_IsInj
<1> HIDE DEF G
<1>6. Cardinality(Q) <= Cardinality(C) /\ IsFiniteSet(Q)
  BY <1>1, <1>5, FS_Injection
<1>7. Cardinality(P) <= Cardinality(B) /\ IsFiniteSet(P)
  BY <1>1, <1>2, FS_Subset
<1>8. A = P \cup Q /\ P \cap Q = {}
  OBVIOUS
<1> HIDE DEF P, Q
<1>9. Cardinality(A) = Cardinality(P) + Cardinality(Q) - Cardinality({})
  BY <1>6, <1>7, <1>8, FS_Union
<1>10. /\ Cardinality({}) = 0 /\ Cardinality(B) \in Nat /\ Cardinality(C) \in Nat
       /\ Cardinality(P) \in Nat /\ Cardinality(Q) \in Nat
  BY <1>1, <1>6, <1>7, FS_EmptySet, FS_CardinalityType
<1>11. Cardinality(A) <= Cardinality(B) + Cardinality(C)
  BY <1>6, <1>7, <1>9, <1>10
<1> QED
  BY <1>11 DEF Total, A, B, C

(***************************************************************************)
(* Entries and writes in flight fit the ledger: an entry that is not booked *)
(* yet is covered by the reservation of the write that finishes it.         *)
(***************************************************************************)
LEMMA AccountedUse ==
  ASSUME FilesInv, BooksOK, ControllerInv, NEW d \in Nat, AccountsInv(d)
  PROVE  DiskUseIsAccounted
<1> SUFFICES ASSUME HasController
             PROVE  Total(Keys, EntryBytes) + Total(Holders, InFlight) <= committedBytes + reservedBytes
  BY DEF DiskUseIsAccounted
<1> DEFINE D == [w \in Holders |-> IF At(w, "commit") THEN writer[w].written ELSE 0]
           M == {k \in Keys : Finishing(k)}
           h == [k \in M |-> mu[StoreOf[k]]]
           F == [s \in Stores |-> Total(KeysOf(s), Booked)]
<1>1. /\ \A w \in Holders : WriteReserved(w)
      /\ committedBytes = AllStoreBytes + d
      /\ reservedBytes = Total(Holders, Outstanding)
      /\ IsFiniteSet(Holders) /\ IsFiniteSet(Keys) /\ IsFiniteSet(Stores)
  BY HoldersAssumption, StoresAssumption
     DEF AccountsInv, LedgerInv, ControllerInv, ReservedIsOutstanding
<1>2. /\ \A w \in Holders : Outstanding[w] \in Nat
      /\ \A w \in Holders : writer[w].written \in Nat /\ writer[w] \in Writers
  BY OutstandingFacts, WidthAssumption DEF FilesInv, WritersTypeOK, Writers
<1>3. /\ \A w \in Holders : D[w] \in Nat
      /\ \A w \in Holders : InFlight[w] \in Nat
  BY <1>2 DEF InFlight
<1>4. ASSUME NEW w \in Holders
      PROVE  /\ D[w] <= Outstanding[w] /\ InFlight[w] <= Outstanding[w]
             /\ D[w] = 0 \/ InFlight[w] = 0
  <2>1. WriteReserved(w) /\ Outstanding[w] \in Nat /\ writer[w].pc \in WriterPCs
    BY <1>1, <1>2 DEF Writers
  <2>2. CASE At(w, "commit")
    <3>1. D[w] = writer[w].written /\ InFlight[w] = 0
      BY <2>1, <2>2 DEF At, InFlight, WriteReserved
    <3>2. writer[w].written <= Outstanding[w]
      BY <2>1, <2>2 DEF At, WriteReserved, ReservedPCs, Outstanding
    <3> QED
      BY <2>1, <3>1, <3>2
  <2>3. CASE ~At(w, "commit")
    <3>1. D[w] = 0
      BY <2>3
    <3>2. InFlight[w] = 0 \/ (InFlight[w] = writer[w].written /\ writer[w].written <= Outstanding[w])
      BY <2>1, <2>3 DEF At, InFlight, WriteReserved, ReservedPCs, WriterPCs, Outstanding
    <3> QED
      BY <2>1, <3>1, <3>2
  <2> QED
    BY <2>2, <2>3
<1>5. Total(Holders, D) + Total(Holders, InFlight) <= Total(Holders, Outstanding)
  <2> HIDE DEF D
  <2> QED
    BY <1>1, <1>2, <1>3, <1>4, DisjointTotals
<1>6. Total(Keys, EntryBytes) <= Total(Keys, Booked) + Total(Holders, D)
  <2>1. \A k \in Keys : EntryBytes[k] \in Nat /\ Booked[k] \in Nat
    BY DEF BooksOK
  <2>2. \A k \in Keys \ M : EntryBytes[k] <= Booked[k]
    BY <2>1 DEF Booked
  <2>3. ASSUME NEW k \in M
        PROVE  h[k] \in Holders /\ EntryBytes[k] <= D[h[k]] /\ writer[h[k]].key = k
    <3> DEFINE m == mu[StoreOf[k]]
    <3>1. /\ k \in Keys /\ m \in Holders /\ writer[m].pc \in FinishPCs /\ writer[m].key = k
          /\ h[k] = m /\ D[m] \in Nat /\ FilesKept(m)
      BY <1>3 DEF Finishing, FilesInv
    <3>2. CASE writer[m].pc = "commit"
      <4>1. meta[k] = ParsedMeta(writer[m].gen, writer[m].written, writer[m].gen)
        BY <3>1, <3>2 DEF FilesKept
      <4>2. EntryBytes[k] \in {0, writer[m].written} /\ writer[m].written \in Nat
        BY <1>2, <3>1, <4>1 DEF EntryBytes, ParsedMeta
      <4>3. D[m] = writer[m].written
        BY <3>1, <3>2 DEF At
      <4> QED
        BY <3>1, <4>2, <4>3
    <3>3. CASE writer[m].pc = "retry"
      <4>1. meta[k] = AbsentMeta
        BY <3>1, <3>3 DEF FilesKept
      <4>2. EntryBytes[k] = 0
        BY <3>1, <4>1 DEF EntryBytes, Complete, Parses, AbsentMeta
      <4> QED
        BY <3>1, <4>2
    <3> QED
      BY <3>1, <3>2, <3>3 DEF FinishPCs
  <2>4. \A j, k \in M : h[j] = h[k] => j = k
    BY <2>3
  <2>5. M \in SUBSET Keys
    OBVIOUS
  <2> HIDE DEF D, M, h
  <2>6. \A k \in M : h[k] \in Holders /\ EntryBytes[k] <= D[h[k]]
    BY <2>3
  <2> QED
    BY <1>1, <1>3, <2>1, <2>2, <2>4, <2>5, <2>6, MovedTotal
<1>7. Total(Keys, Booked) <= AllStoreBytes
  <2>1. \A k \in Keys : Booked[k] \in Nat
    BY DEF BooksOK
  <2>2. \A s \in Stores : F[s] = Total(KeysOf(s), Booked)
    OBVIOUS
  <2>3. \A s \in Stores : F[s] \in Nat /\ bytes[s] \in Nat /\ F[s] <= bytes[s]
    <3> SUFFICES ASSUME NEW s \in Stores PROVE F[s] \in Nat /\ bytes[s] \in Nat /\ F[s] <= bytes[s]
      OBVIOUS
    <3>1. IsFiniteSet(KeysOf(s)) /\ \A k \in KeysOf(s) : Booked[k] \in Nat
      BY <2>1, KeysOfFinite
    <3>2. Total(KeysOf(s), Booked) \in Nat
      BY <3>1, TotalType
    <3> QED
      BY <3>2 DEF AccountsInv, CountersCover
  <2> HIDE DEF F
  <2>4. Total(Stores, F) = Total(Keys, Booked)
    BY <2>1, <2>2, TotalOfStores
  <2>5. Total(Stores, F) <= Total(Stores, bytes)
    BY <1>1, <2>3, TotalMonotone
  <2> QED
    BY <2>4, <2>5 DEF AllStoreBytes
<1>8. /\ Total(Keys, EntryBytes) \in Nat /\ Total(Keys, Booked) \in Nat
      /\ Total(Holders, D) \in Nat /\ Total(Holders, InFlight) \in Nat
      /\ Total(Holders, Outstanding) \in Nat
  <2>1. /\ \A k \in Keys : EntryBytes[k] \in Nat
        /\ \A k \in Keys : Booked[k] \in Nat
    BY DEF BooksOK
  <2> HIDE DEF D
  <2> QED
    BY <1>1, <1>2, <1>3, <2>1, TotalType
<1>9. AllStoreBytes \in Nat
  <2>1. \A s \in Stores : bytes[s] \in Nat
    BY DEF AccountsInv, CountersCover
  <2> QED
    BY <1>1, <2>1, TotalType DEF AllStoreBytes
<1> HIDE DEF D
<1> QED
  BY <1>1, <1>5, <1>6, <1>7, <1>8, <1>9

-----------------------------------------------------------------------------
(* The stores without a collector: nothing is removed, nothing is owed.     *)

LEMMA CleanupAccounts ==
  ASSUME FilesInv, AccountsInv(0), NEW s \in Stores, CleanupStaleTemps(s)
  PROVE  AccountsInv(0)' /\ (CountersExact => CountersExact')
<1>1. /\ UNCHANGED <<meta, body, mu, writer>> /\ UNCHANGED counters /\ UNCHANGED controllerVars
      /\ \E old : RemoveTemps(old)
  BY DEF CleanupStaleTemps
<1>2. ASSUME NEW k \in Keys PROVE SameBook(k)
  <2>1. {} \in SUBSET Holders
    OBVIOUS
  <2> QED
    BY <1>1, <2>1, BookFrame
<1>3. SameBooks
  BY <1>1, <1>2 DEF SameBooks
<1>4. /\ CountersCover' /\ AllStoreBytes' = AllStoreBytes
      /\ CountersExact => CountersExact'
  BY <1>3, SameBooksCover DEF AccountsInv
<1>5. ASSUME NEW v \in Holders, WriteReserved(v) PROVE WriteReserved(v)'
  <2>1. writer'[v] = writer[v] /\ reservation'[v] = reservation[v]
    BY <1>1 DEF controllerVars
  <2>2. ASSUME writer[v].pc # "idle", writer[v].gen \in bodyTemps'[writer[v].key]
        PROVE  writer[v].gen \in bodyTemps[writer[v].key]
    <3>1. writer[v].key \in Keys
      BY <2>2 DEF FilesInv, WritersTypeOK, Writers, At
    <3> QED
      BY <1>1, <2>2, <3>1 DEF RemoveTemps
  <2> QED
    BY <1>5, <2>1, <2>2, ReservedFrame
<1> QED
  BY <1>1, <1>4, <1>5 DEF AccountsInv, LedgerInv, controllerVars

LEMMA StoreStepAccounts ==
  ASSUME FilesInv, FilesInv', BooksOK, BooksOK', ControllerInv, AccountsInv(0), BytesFit(0)',
         [StoreNext]_storeVars
  PROVE  /\ ControllerInv' /\ AccountsInv(0)'
         /\ CountersExact /\ ~Fault("replace") => CountersExact'
<1>1. ASSUME NEW w \in Holders, Put(w) \/ PutStep(w)
      PROVE  /\ ControllerInv' /\ AccountsInv(0)'
             /\ CountersExact /\ ~Fault("replace") => CountersExact'
  <2>1. ControllerTypeOK /\ 0 \in Nat
    BY DEF ControllerInv
  <2>2. ControllerInv'
    BY <1>1, WriterLedger
  <2> QED
    BY <1>1, <2>1, <2>2, WriterAccounts
<1>2. ASSUME NEW s \in Stores, CleanupStaleTemps(s)
      PROVE  ControllerInv' /\ AccountsInv(0)' /\ (CountersExact => CountersExact')
  <2>1. ControllerInv'
    BY <1>2, ControllerStutter DEF CleanupStaleTemps
  <2> QED
    BY <1>2, <2>1, CleanupAccounts
<1>3. CASE Crash
  BY <1>3, CrashLedger, CrashAccounts
<1>4. CASE UNCHANGED storeVars
  <2>1. UNCHANGED <<meta, body, mu, writer, bodyTemps, bytes, objects>> /\ UNCHANGED controllerVars
    BY <1>4 DEF storeVars, controllerVars
  <2>2. CountersCover' /\ (CountersExact => CountersExact') /\ AllStoreBytes' = AllStoreBytes
    <3>1. ASSUME NEW k \in Keys PROVE SameBook(k)
      <4>1. {} \in SUBSET Holders
        OBVIOUS
      <4> QED
        BY <2>1, <4>1, BookFrame
    <3>2. SameBooks
      BY <2>1, <3>1 DEF SameBooks, counters
    <3> QED
      BY <3>2, SameBooksCover DEF AccountsInv
  <2>3. ASSUME NEW v \in Holders, WriteReserved(v) PROVE WriteReserved(v)'
    BY <2>1, <2>3, ReservedFrame DEF controllerVars
  <2>4. ControllerInv'
    BY <2>1, ControllerStutter
  <2> QED
    BY <2>1, <2>2, <2>3, <2>4 DEF AccountsInv, LedgerInv, controllerVars
<1> QED
  BY <1>1, <1>2, <1>3, <1>4 DEF StoreNext

LEMMA StoreAccountsInvariant ==
  StoreSpec /\ []BytesFit(0) => [](FilesInv /\ BooksOK /\ ControllerInv /\ AccountsInv(0))
<1>1. StoreInit /\ BytesFit(0) => ControllerInv /\ AccountsInv(0)
  BY StartLedger, StartAccounts
<1>2. FilesInv => BooksOK
  BY FilesBooks
<1>3. FilesInv /\ FilesInv' /\ BooksOK /\ BooksOK' /\ BytesFit(0)'
        /\ ControllerInv /\ AccountsInv(0) /\ [StoreNext]_storeVars
      => ControllerInv' /\ AccountsInv(0)'
  BY StoreStepAccounts
<1> QED
  BY <1>1, <1>2, <1>3, StoreFiles, PTL DEF StoreSpec

(***************************************************************************)
(* The refusal of Commit after the metadata was replaced (store.go:379-382) *)
(* cannot happen, for any number of stores, keys, concurrent writes, faults *)
(* and crashes, while the bytes on disk fit an int64.                       *)
(***************************************************************************)
THEOREM StoreCommitNeverRefused == StoreSpec /\ []BytesFit(0) => []CommitNeverRefused
<1>1. FilesInv /\ BooksOK /\ ControllerInv /\ AccountsInv(0) => CommitNeverRefused
  <2>1. 0 \in Nat
    OBVIOUS
  <2> QED
    BY <2>1, CommitFits DEF CommitNeverRefused, AccountsInv, ControllerInv
<1> QED
  BY <1>1, StoreAccountsInvariant, PTL

(***************************************************************************)
(* Complete entries and writes in flight never use more than the controller *)
(* has committed and reserved (store.go:246-251, 272-282, 379-383).         *)
(***************************************************************************)
THEOREM StoreUseIsAccounted == StoreSpec /\ []BytesFit(0) => []DiskUseIsAccounted
<1>1. FilesInv /\ BooksOK /\ ControllerInv /\ AccountsInv(0) => DiskUseIsAccounted
  <2>1. 0 \in Nat
    OBVIOUS
  <2> QED
    BY <2>1, AccountedUse
<1> QED
  BY <1>1, StoreAccountsInvariant, PTL

(***************************************************************************)
(* Without the one fault that takes an entry away behind the counters, a    *)
(* replace() that fails for good, the counters of a store are what          *)
(* Reconcile would count whenever its s.mu is free (store.go:383-386).      *)
(***************************************************************************)
THEOREM StoreCountersMatchDisk ==
  ASSUME ~Fault("replace")
  PROVE  StoreSpec /\ []BytesFit(0) => []CountersMatchDisk
<1>1. StoreInit /\ BytesFit(0) => CountersExact
  BY StartAccounts
<1>2. FilesInv /\ FilesInv' /\ BooksOK /\ BooksOK' /\ BytesFit(0)'
        /\ ControllerInv /\ AccountsInv(0) /\ CountersExact /\ [StoreNext]_storeVars
      => CountersExact'
  BY StoreStepAccounts
<1>3. FilesInv /\ CountersExact => CountersMatchDisk
  BY ExactMatches
<1> QED
  BY <1>1, <1>2, <1>3, StoreAccountsInvariant, PTL DEF StoreSpec

(***************************************************************************)
(* After replace() the entry of the write is complete.                      *)
(***************************************************************************)
LEMMA FinishedEntry ==
  ASSUME FilesInv', NEW w \in Holders, writer'[w].pc = "commit", NEW k, writer'[w].key = k
  PROVE  Complete(k)'
<1> DEFINE g == writer'[w].gen
           n == writer'[w].written
<1>1. /\ meta'[k] = ParsedMeta(g, n, g) /\ body'[k][g] = [size |-> n, content |-> g]
      /\ g \in Gens
  <2>1. FilesKept(w)' /\ TempsKept(w)'
    BY DEF FilesInv
  <2> QED
    BY <2>1 DEF FilesKept, TempsKept
<1>2. meta'[k].state = "parsed" /\ meta'[k].path = g /\ meta'[k].size = n
  BY <1>1 DEF ParsedMeta
<1>3. body'[k][g] # NoBody /\ body'[k][g].size = n
  BY <1>1, NamesAssumption DEF NoBody
<1> HIDE DEF g, n
<1> QED
  BY <1>2, <1>3 DEF Complete, Parses, Exists

(***************************************************************************)
(* The entry of a key survives every step of a write but one: the removal   *)
(* of its metadata by a replace() that is going to rename again.            *)
(***************************************************************************)
LEMMA WriterKeepsEntries ==
  ASSUME FilesInv, FilesInv', CountersCover, NEW w \in Holders, Put(w) \/ PutStep(w),
         FinishPut(w) /\ HasController => CommitAccepted(w, writer[w].written, writer[w].prevBytes),
         NEW k \in Keys, Complete(k)
  PROVE  Complete(k)' \/ (RemoveDestination(w) /\ writer[w].key = k /\ Retrying(k)')
<1>1. CASE meta'[k] = meta[k] /\ body'[k] = body[k]
  BY <1>1 DEF Complete, Parses, Exists
<1>2. CASE writer[w].key # k
  BY <1>1, <1>2, WriterTouches
<1>3. CASE writer[w].pc \notin CommitPCs /\ ~LockCommit(w)
  BY <1>1, <1>3, QuietWrite
<1>4. CASE LockCommit(w) \/ RenameBodyFails(w)
  BY <1>1, <1>4 DEF LockCommit, RenameBodyFails, disk
<1>5. CASE writer[w].key = k /\ (RenameBody(w) \/ ReplaceMeta(w))
  <2>1. /\ writer[w] \in Writers /\ writer \in [Holders -> Writers]
    BY DEF FilesInv, WritersTypeOK
  <2>2. /\ writer'[w].pc \in {"replace", "commit"} /\ writer'[w].key = k
        /\ writer'[w].prevValid = writer[w].prevValid
    BY <1>5, <2>1 DEF RenameBody, ReplaceMeta, Goto, Writers
  <2>3. CASE RenameBody(w)
    <3>1. writer[w].pc = "rename" /\ writer'[w].pc = "replace"
      BY <2>1, <2>3 DEF RenameBody, At, Goto, Writers
    <3>2. writer[w].prevValid = Complete(k) /\ writer'[w].prevValid = Complete(k)'
      BY <1>5, <2>2, <3>1 DEF FilesInv, FilesKept
    <3> QED
      BY <2>2, <3>2
  <2>4. CASE ReplaceMeta(w)
    <3>1. writer'[w].pc = "commit"
      BY <2>1, <2>4 DEF ReplaceMeta, Goto, Writers
    <3> QED
      BY <2>2, <3>1, FinishedEntry
  <2> QED
    BY <1>5, <2>3, <2>4
<1>6. CASE writer[w].key = k /\ ReplaceFails(w)
  <2> DEFINE g == writer[w].gen
  <2>1. writer[w].pc = "replace" /\ writer[w].pc \in CommitPCs
    <3>1. writer[w].pc # "retry"
      <4>1. FilesKept(w) /\ meta[k].state = "parsed"
        BY DEF FilesInv, Complete, Parses
      <4>2. meta[k] # AbsentMeta
        BY <4>1 DEF AbsentMeta
      <4> QED
        BY <1>6, <4>1, <4>2 DEF FilesKept
    <3> QED
      BY <1>6, <3>1 DEF ReplaceFails, At, CommitPCs
  <2>2. meta' = meta
    BY <1>6 DEF ReplaceFails
  <2>3. /\ g \in Paths /\ body \in [Keys -> [Paths -> Bodies]] /\ meta[k].path # g
        /\ body' = body \/ body' = [body EXCEPT ![k][g] = NoBody]
    BY <1>6, <2>1, CommitFacts
       DEF FilesInv, FilesKept, DiskTypeOK, ReplaceFails, Unlink, generationPath
  <2>4. meta[k].path \in Paths
    BY DEF FilesInv, DiskTypeOK, Metas, Complete, Parses
  <2>5. body'[k][meta[k].path] = body[k][meta[k].path]
    BY <2>3, <2>4
  <2> QED
    BY <2>2, <2>5 DEF Complete, Parses, Exists
<1>7. CASE writer[w].key = k /\ FinishPut(w)
  BY <1>7, FinishPutBooks
<1>8. CASE Put(w)
  <2>1. writer[w].pc \notin CommitPCs
    BY <1>8 DEF Put, PutAdmitted, PutRefused, PutUnknownLength, At, CommitPCs
  <2> QED
    BY <1>3, <1>4, <2>1
<1>10. CASE writer[w].key = k /\ RemoveDestination(w)
  <2>1. At(w, "retry")' /\ writer'[w].key = k
    BY <1>10 DEF FilesInv, WritersTypeOK, Writers, RemoveDestination, Goto, At
  <2> QED
    BY <1>10, <2>1 DEF Retrying
<1>9. CASE PutStep(w) /\ writer[w].pc \in CommitPCs
  <2>1. \/ LockCommit(w) \/ RenameBody(w) \/ RenameBodyFails(w) \/ ReplaceMeta(w)
        \/ RemoveDestination(w) \/ ReplaceFails(w) \/ FinishPut(w)
    BY <1>9 DEF PutStep, CommitPCs, At, CreateBodyTemp, CreateBodyTempFails, StreamBody,
       StreamOverflows, StreamFails, CreateMetaTemp, CreateMetaTempFails, WriteMetaTempFails,
       DropMetaTemp, DropBodyTemp, ReleasePut
  <2> QED
    BY <1>2, <1>4, <1>5, <1>6, <1>7, <1>10, <2>1
<1> QED
  BY <1>3, <1>4, <1>8, <1>9

(***************************************************************************)
(* The rename that follows the removal brings an entry, or fails.           *)
(***************************************************************************)
LEMMA RetryEnds ==
  ASSUME FilesInv, FilesInv', NEW w \in Holders, Put(w) \/ PutStep(w), NEW k \in Keys, Retrying(k)
  PROVE  Kept(k)' \/ Fault("replace")
<1>1. PICK v \in Holders : At(v, "retry") /\ writer[v].key = k
  BY DEF Retrying
<1>2. CASE writer'[v] = writer[v]
  BY <1>1, <1>2 DEF Kept, Retrying, At
<1>3. CASE v # w
  <2>1. writer'[v] = writer[v]
    BY <1>3, WriterFrame
  <2> QED
    BY <1>2, <2>1
<1>4. CASE v = w
  <2>1. writer[w].pc = "retry" /\ writer \in [Holders -> Writers] /\ writer[w] \in Writers
    BY <1>1, <1>4 DEF At, FilesInv, WritersTypeOK
  <2>2. ReplaceMeta(w) \/ ReplaceFails(w)
    BY <2>1 DEF Put, PutAdmitted, PutRefused, PutUnknownLength, PutStep, At, CreateBodyTemp,
       CreateBodyTempFails, StreamBody, StreamOverflows, StreamFails, CreateMetaTemp,
       CreateMetaTempFails, WriteMetaTempFails, LockCommit, RenameBody, RenameBodyFails,
       RemoveDestination, FinishPut, DropMetaTemp, DropBodyTemp, ReleasePut
  <2>3. CASE ReplaceMeta(w)
    <3>1. writer'[w].pc = "commit" /\ writer'[w].key = k
      BY <1>1, <1>4, <2>1, <2>3 DEF ReplaceMeta, Goto, Writers
    <3> QED
      BY <3>1, FinishedEntry DEF Kept
  <2>4. CASE ReplaceFails(w)
    BY <2>1, <2>4 DEF ReplaceFails, At
  <2> QED
    BY <2>2, <2>3, <2>4
<1> QED
  BY <1>3, <1>4

(***************************************************************************)
(* Crashes are counted by Crash only.                                       *)
(***************************************************************************)
LEMMA WriterCrashes ==
  ASSUME NEW w \in Holders, Put(w) \/ PutStep(w)
  PROVE  crashes' = crashes
  BY DEF Put, PutAdmitted, PutRefused, PutUnknownLength,
     PutStep, CreateBodyTemp, CreateBodyTempFails, StreamBody, StreamOverflows,
     StreamFails, CreateMetaTemp, CreateMetaTempFails, WriteMetaTempFails, LockCommit,
     RenameBody, RenameBodyFails, ReplaceMeta, RemoveDestination, ReplaceFails, FinishPut,
     DropMetaTemp, DropBodyTemp, ReleasePut

LEMMA StoreCrashes == StoreSpec => [](crashes \in Nat)
<1>1. StoreInit => crashes \in Nat
  BY DEF StoreInit
<1>2. crashes \in Nat /\ [StoreNext]_storeVars => (crashes \in Nat)'
  BY WriterCrashes DEF StoreNext, CleanupStaleTemps, Crash, storeVars
<1> QED
  BY <1>1, <1>2, PTL DEF StoreSpec

(***************************************************************************)
(* A write never leaves a key that had a complete entry without one, but    *)
(* for one whose replace() removed the metadata and then died or failed     *)
(* again (store.go:363-390, 625-636).                                       *)
(***************************************************************************)
THEOREM StoreEntryNeverLost == StoreSpec /\ []BytesFit(0) => EntryNeverLost
<1> DEFINE Step == \A k \in Keys :
             Kept(k) => Kept(k)' \/ (Retrying(k) /\ (crashes' # crashes \/ Fault("replace")))
<1>1. FilesInv /\ FilesInv' /\ BooksOK /\ ControllerInv /\ AccountsInv(0) /\ crashes \in Nat
        /\ [StoreNext]_storeVars
      => [Step]_storeVars
  <2> SUFFICES ASSUME FilesInv, FilesInv', BooksOK, ControllerInv, AccountsInv(0), crashes \in Nat,
                      StoreNext, NEW k \in Keys, Kept(k)
               PROVE  Kept(k)' \/ (Retrying(k) /\ (crashes' # crashes \/ Fault("replace")))
    OBVIOUS
  <2>1. CountersCover /\ LedgerInv(0) /\ ControllerTypeOK /\ 0 \in Nat
    BY DEF AccountsInv, ControllerInv
  <2>2. ASSUME NEW w \in Holders, Put(w) \/ PutStep(w), Complete(k) PROVE Kept(k)'
    <3>1. FinishPut(w) /\ HasController
            => CommitAccepted(w, writer[w].written, writer[w].prevBytes)
      BY <2>1, CommitFits DEF FinishPut
    <3> QED
      BY <2>1, <2>2, <3>1, WriterKeepsEntries DEF Kept
  <2>3. ASSUME NEW w \in Holders, Put(w) \/ PutStep(w), Retrying(k)
        PROVE  Kept(k)' \/ Fault("replace")
    BY <2>3, RetryEnds
  <2>4. CASE \E s \in Stores : CleanupStaleTemps(s)
    <3>1. UNCHANGED <<meta, body, writer>>
      BY <2>4 DEF CleanupStaleTemps
    <3>2. (Complete(k)' <=> Complete(k)) /\ (Retrying(k)' <=> Retrying(k))
      BY <3>1 DEF Complete, Parses, Exists, Retrying, At
    <3> QED
      BY <3>2 DEF Kept
  <2>5. CASE Crash
    <3>1. crashes' # crashes
      BY <2>5 DEF Crash
    <3>2. Complete(k)' <=> Complete(k)
      BY <2>5 DEF Crash, Complete, Parses, Exists
    <3> QED
      BY <3>1, <3>2 DEF Kept
  <2>6. Complete(k) \/ Retrying(k)
    BY DEF Kept
  <2> QED
    BY <2>2, <2>3, <2>4, <2>5, <2>6 DEF StoreNext
<1> QED
  BY <1>1, StoreFiles, StoreCrashes, StoreAccountsInvariant, PTL DEF StoreSpec, EntryNeverLost

-----------------------------------------------------------------------------
(* The accounts while collections run.                                      *)

(***************************************************************************)
(* A step of the collector that changes no entry.                           *)
(***************************************************************************)
LEMMA CollectorBooks ==
  ASSUME FilesInv, UNCHANGED writer, UNCHANGED counters,
         \A k \in Keys : Complete(k)' = Complete(k) /\ EntryBytes'[k] = EntryBytes[k],
         NEW s \in Stores, mu[s] \notin Holders,
         mu' = mu \/ mu' = [mu EXCEPT ![s] = Collector] \/ mu' = [mu EXCEPT ![s] = NoOne]
  PROVE  SameBooks
<1>1. ASSUME NEW k \in Keys PROVE SameBook(k)
  <2>1. \/ mu'[StoreOf[k]] = mu[StoreOf[k]]
        \/ {mu[StoreOf[k]], mu'[StoreOf[k]]} \cap Holders = {}
    BY StoresAssumption, NamesAssumption DEF FilesInv, WritersTypeOK
  <2>2. {} \in SUBSET Holders
    OBVIOUS
  <2> QED
    BY <2>1, <2>2, EntryFrame
<1> QED
  BY <1>1 DEF SameBooks

LEMMA StillBooks ==
  ASSUME UNCHANGED <<meta, body, mu, writer, bytes, objects>>
  PROVE  SameBooks
<1>1. ASSUME NEW k \in Keys PROVE SameBook(k)
  <2>1. {} \in SUBSET Holders
    OBVIOUS
  <2> QED
    BY <2>1, BookFrame
<1> QED
  BY <1>1 DEF SameBooks, counters

(***************************************************************************)
(* The reservations are the writers' alone.                                 *)
(***************************************************************************)
LEMMA ReservedKept ==
  ASSUME UNCHANGED <<writer, bodyTemps, reservation>>, \A w \in Holders : WriteReserved(w)
  PROVE  \A w \in Holders : WriteReserved(w)'
  BY ReservedFrame

(***************************************************************************)
(* The bytes that the collector owes the controller.                        *)
(***************************************************************************)
LEMMA DebtType ==
  ASSUME CollectorTypeOK
  PROVE  gc \in Collections /\ gc.pending \in Nat /\ gc.unreported \in Nat /\ Debt \in Nat
<1>1. gc \in Collections /\ gc.pending \in Nat /\ gc.unreported \in Nat
  BY DEF CollectorTypeOK, Collections
<1> QED
  BY <1>1 DEF Debt

LEMMA QuietDebt ==
  ASSUME DebtInv, SameBooks, UNCHANGED <<writer, bodyTemps>>, UNCHANGED controllerVars,
         Debt' = Debt
  PROVE  DebtInv' /\ (CountersExact => CountersExact')
<1>1. /\ CountersCover' /\ AllStoreBytes' = AllStoreBytes
      /\ CountersExact => CountersExact'
  BY SameBooksCover DEF DebtInv, AccountsInv
<1>2. HasController => \A w \in Holders : WriteReserved(w)'
  BY ReservedKept DEF DebtInv, AccountsInv, LedgerInv, controllerVars
<1> QED
  BY <1>1, <1>2 DEF DebtInv, AccountsInv, LedgerInv, controllerVars

(***************************************************************************)
(* The body of a complete entry goes: the counters lose it and the          *)
(* collector owes it.                                                       *)
(***************************************************************************)
LEMMA UnlinkDebt ==
  ASSUME FilesInv, BooksOK, BooksOK', CollectorTypeOK, DebtInv, NEW k \in Keys,
         Complete(k), ~Complete(k)', \A h \in Keys \ {k} : Complete(h)' = Complete(h),
         meta' = meta, Uncount(k), UNCHANGED <<writer, bodyTemps>>, UNCHANGED controllerVars,
         mu[StoreOf[k]] \notin Holders,
         mu' = mu \/ mu' = [mu EXCEPT ![StoreOf[k]] = Collector],
         Debt' = Debt + meta[k].size
  PROVE  DebtInv' /\ (CountersExact => CountersExact')
<1>1. /\ mu \in [Stores -> Holders \cup {Collector, NoOne}] /\ StoreOf[k] \in Stores
      /\ meta[k].size \in Nat
  BY StoresAssumption DEF FilesInv, WritersTypeOK, DiskTypeOK, Metas
<1>2. \A h \in Keys \ {k} : SameBook(h)
  <2> SUFFICES ASSUME NEW h \in Keys \ {k} PROVE SameBook(h)
    OBVIOUS
  <2>1. EntryBytes'[h] = EntryBytes[h] /\ Complete(h)' = Complete(h)
    BY DEF EntryBytes
  <2>2. \/ mu'[StoreOf[h]] = mu[StoreOf[h]]
        \/ {mu[StoreOf[h]], mu'[StoreOf[h]]} \cap Holders = {}
    BY <1>1, StoresAssumption, NamesAssumption
  <2>3. {} \in SUBSET Holders
    OBVIOUS
  <2> QED
    BY <2>1, <2>2, <2>3, EntryFrame
<1>3. ~Finishing(k) /\ ~Finishing(k)'
  BY <1>1, NamesAssumption DEF Finishing
<1>4. /\ Booked[k] = meta[k].size /\ Booked'[k] = 0
      /\ BookedObject[k] = 1 /\ BookedObject'[k] = 0
  BY <1>3 DEF Booked, BookedObject, EntryBytes
<1>5. bytes[StoreOf[k]] \in Nat /\ objects[StoreOf[k]] \in Nat
  BY <1>1 DEF DebtInv, AccountsInv, CountersCover
<1>6. /\ bytes[StoreOf[k]] - meta[k].size = bytes[StoreOf[k]] - Booked[k] + Booked'[k]
      /\ objects[StoreOf[k]] - 1 = objects[StoreOf[k]] - BookedObject[k] + BookedObject'[k]
  BY <1>1, <1>4, <1>5
<1>7. Rebooked(k)
  BY <1>2, <1>6 DEF Rebooked, Uncount
<1>8. /\ CountersCover' /\ AllStoreBytes' = AllStoreBytes - meta[k].size + 0
      /\ CountersExact => CountersExact'
  BY <1>4, <1>7, RebookedCover DEF DebtInv, AccountsInv
<1>9. HasController => \A w \in Holders : WriteReserved(w)'
  BY ReservedKept DEF DebtInv, AccountsInv, LedgerInv, controllerVars
<1>10. AllStoreBytes \in Nat
  <2>1. IsFiniteSet(Stores) /\ \A s \in Stores : bytes[s] \in Nat
    BY StoresAssumption DEF DebtInv, AccountsInv, CountersCover
  <2> QED
    BY <2>1, TotalType DEF AllStoreBytes
<1>11. AllStoreBytes' + Debt' = AllStoreBytes + Debt
  <2>1. Debt \in Nat
    BY DebtType
  <2> QED
    BY <1>1, <1>8, <1>10, <2>1
<1> QED
  BY <1>8, <1>9, <1>11 DEF DebtInv, AccountsInv, LedgerInv, controllerVars

(***************************************************************************)
(* The report takes off exactly what was removed.                           *)
(***************************************************************************)
LEMMA ReportDebt ==
  ASSUME CollectorTypeOK, DebtInv, ReportAge \/ ReportEvicted
  PROVE  DebtInv' /\ (CountersExact => CountersExact')
<1>1. gc \in Collections /\ gc.pending \in Nat /\ gc.unreported \in Nat
  BY DebtType
<1>2. /\ UNCHANGED <<meta, body, mu, writer, bodyTemps, bytes, objects>>
      /\ HasController => Remove(gc.pending)
      /\ gc'.pending = 0 /\ gc'.unreported = gc.unreported
  BY <1>1 DEF ReportAge, ReportEvicted, disk, counters, Collections
<1>3. SameBooks
  BY <1>2, StillBooks
<1>4. /\ CountersCover' /\ AllStoreBytes' = AllStoreBytes
      /\ CountersExact => CountersExact'
  BY <1>3, SameBooksCover DEF DebtInv, AccountsInv
<1>5. ASSUME HasController PROVE LedgerInv(Debt)'
  <2>1. /\ committedBytes' = Max(committedBytes - gc.pending, 0) /\ reservation' = reservation
    BY <1>2, <1>5 DEF Remove
  <2>2. committedBytes = AllStoreBytes + Debt /\ \A w \in Holders : WriteReserved(w)
    BY <1>5 DEF DebtInv, AccountsInv, LedgerInv
  <2>3. \A w \in Holders : WriteReserved(w)'
    BY <1>2, <2>1, <2>2, ReservedKept
  <2>4. AllStoreBytes \in Nat
    <3>1. IsFiniteSet(Stores) /\ \A s \in Stores : bytes[s] \in Nat
      BY StoresAssumption DEF DebtInv, AccountsInv, CountersCover
    <3> QED
      BY <3>1, TotalType DEF AllStoreBytes
  <2>5. Debt = gc.pending + gc.unreported /\ Debt' = gc.unreported
    BY <1>1, <1>2 DEF Debt
  <2>6. committedBytes' = AllStoreBytes + gc.unreported
    BY <1>1, <2>1, <2>2, <2>4, <2>5 DEF Max
  <2> QED
    BY <1>4, <2>3, <2>5, <2>6 DEF LedgerInv
<1> QED
  BY <1>4, <1>5 DEF DebtInv, AccountsInv, LedgerInv

(***************************************************************************)
(* Steps between two stores, and steps that pass over an entry.             *)
(***************************************************************************)
LEMMA PlainDebt ==
  ASSUME CollectionInv, DebtInv,
         \/ StartRun \/ CancelRun \/ CollectByAge \/ CollectUnderPressure \/ AgeDone
         \/ TakeSnapshot \/ ListDone \/ ListFails \/ EvictDone
         \/ \E s \in Stores : ListStore(s)
         \/ \E k \in Keys : AgeSkip(k)
         \/ \E c \in gc.candidates : EvictStale(c) \/ EvictSkip(c)
  PROVE  DebtInv' /\ (CountersExact => CountersExact')
<1>1. CollectorTypeOK /\ gc \in Collections /\ gc.pending \in Nat /\ gc.unreported \in Nat
  BY DebtType DEF CollectionInv
<1>2. UNCHANGED storeVars
  BY DEF StartRun, CancelRun, CollectByAge, CollectUnderPressure, AgeDone, TakeSnapshot, ListDone,
     ListFails, EvictDone, ListStore, AgeSkip, EvictStale, EvictSkip
<1>3. Debt' = Debt
  <2>1. CASE FinishRun
    <3>1. gc'.pending = 0 /\ gc'.unreported = gc.unreported + gc.pending
      BY <1>1, <2>1, FinishRunType
    <3> QED
      BY <1>1, <3>1 DEF Debt
  <2>2. CASE ~FinishRun
    <3>1. \/ \E pc : gc' = [gc EXCEPT !.pc = pc]
          \/ \E pc : gc' = [gc EXCEPT !.pc = pc, !.left = Stores]
          \/ \E n : gc' = [gc EXCEPT !.pc = "list", !.goal = n, !.left = Stores]
          \/ \E l, c : gc' = [gc EXCEPT !.left = l, !.candidates = c]
          \/ \E t : gc' = [gc EXCEPT !.todo = t]
          \/ \E c : gc' = [gc EXCEPT !.candidates = c]
      BY <2>2 DEF StartRun, CancelRun, CollectByAge, CollectUnderPressure, AgeDone, TakeSnapshot,
         ListDone, ListFails, EvictDone, ListStore, AgeSkip, EvictStale, EvictSkip
    <3>2. gc'.pending = gc.pending /\ gc'.unreported = gc.unreported
      BY <1>1, <3>1 DEF Collections
    <3> QED
      BY <3>2 DEF Debt
  <2> QED
    BY <2>1, <2>2
<1>4. /\ UNCHANGED <<meta, body, mu, writer, bytes, objects>> /\ UNCHANGED controllerVars
      /\ UNCHANGED <<writer, bodyTemps>>
  BY <1>2 DEF storeVars, controllerVars
<1>5. SameBooks
  BY <1>4, StillBooks
<1> QED
  BY <1>3, <1>4, <1>5, QuietDebt

(***************************************************************************)
(* The collector takes and returns s.mu.                                    *)
(***************************************************************************)
LEMMA LockDebt ==
  ASSUME CollectionInv, DebtInv,
         UnlockStore \/ WalkFails \/ \E s \in Stores : LockStore(s)
  PROVE  DebtInv' /\ (CountersExact => CountersExact')
<1>1. /\ CollectorTypeOK /\ gc \in Collections /\ gc.pending \in Nat /\ gc.unreported \in Nat
      /\ FilesInv
  BY DebtType DEF CollectionInv
<1>2. /\ UNCHANGED <<meta, body, writer, bodyTemps>> /\ UNCHANGED counters
      /\ UNCHANGED controllerVars
  BY DEF UnlockStore, WalkFails, LockStore, disk
<1>3. \E s \in Stores : /\ mu[s] \notin Holders
                        /\ mu' = [mu EXCEPT ![s] = Collector] \/ mu' = [mu EXCEPT ![s] = NoOne]
  <2>1. CASE UnlockStore \/ WalkFails
    <3>1. gc.pc = "walk" /\ mu' = [mu EXCEPT ![gc.store] = NoOne]
      BY <2>1 DEF UnlockStore, WalkFails, GCAt
    <3>2. gc.store \in Stores /\ mu[gc.store] = Collector
      BY <1>1, <3>1 DEF CollectionInv, WalkOK, CollectorTypeOK, ExclusivePCs
    <3> QED
      BY <3>1, <3>2, NamesAssumption
  <2>2. CASE \E s \in Stores : LockStore(s)
    BY <2>2, NamesAssumption DEF LockStore, CanTake
  <2> QED
    BY <2>1, <2>2
<1>4. \A k \in Keys : Complete(k)' = Complete(k) /\ EntryBytes'[k] = EntryBytes[k]
  BY <1>2 DEF Complete, Parses, Exists, EntryBytes
<1>5. SameBooks
  BY <1>1, <1>2, <1>3, <1>4, CollectorBooks
<1>6. Debt' = Debt
  <2>1. CASE WalkFails
    <3>1. gc'.pending = 0 /\ gc'.unreported = gc.unreported + gc.pending
      BY <1>1, <2>1, FinishRunType DEF WalkFails
    <3> QED
      BY <1>1, <3>1 DEF Debt
  <2>2. CASE UnlockStore \/ \E s \in Stores : LockStore(s)
    <3>1. gc'.pending = gc.pending /\ gc'.unreported = gc.unreported
      BY <1>1, <2>2 DEF UnlockStore, LockStore, Collections
    <3> QED
      BY <3>1 DEF Debt
  <2> QED
    BY <2>1, <2>2
<1> QED
  BY <1>2, <1>5, <1>6, QuietDebt

(***************************************************************************)
(* The metadata goes after the body it named: no entry is left to lose.     *)
(***************************************************************************)
LEMMA UnlinkMetaDebt ==
  ASSUME CollectionInv, DebtInv, AgeUnlinkMeta \/ EvictUnlinkMeta
  PROVE  /\ DebtInv' /\ (CountersExact => CountersExact')
         /\ \A h \in Keys : Complete(h)' = Complete(h)
<1>1. gc \in Collections /\ FilesInv /\ meta \in [Keys -> Metas]
  BY DEF CollectionInv, CollectorTypeOK, FilesInv, DiskTypeOK
<1>2. /\ gc.pc \in {"walkMeta", "evictMeta"} /\ RemoveMeta(gc.key)
      /\ UNCHANGED <<body, writer, bodyTemps>> /\ UNCHANGED counters /\ UNCHANGED controllerVars
      /\ mu' = mu \/ mu' = [mu EXCEPT ![gc.store] = NoOne]
      /\ gc'.pending = gc.pending /\ gc'.unreported = gc.unreported
  BY <1>1 DEF AgeUnlinkMeta, EvictUnlinkMeta, GCAt, Collections
<1>3. /\ gc.store \in Stores /\ mu[gc.store] = Collector
      /\ gc.key \in KeysOf(gc.store) /\ ~Complete(gc.key)
  BY <1>2 DEF CollectionInv, WalkOK, CollectorTypeOK, ExclusivePCs
<1>4. \A h \in Keys : Complete(h)' = Complete(h)
  BY AgeUnlinkMetaInv, EvictUnlinkMetaInv
<1>5. \A h \in Keys : EntryBytes'[h] = EntryBytes[h]
  <2>1. \A h \in Keys : h # gc.key => meta'[h] = meta[h]
    BY <1>1, <1>2 DEF RemoveMeta
  <2> QED
    BY <1>3, <1>4, <2>1 DEF EntryBytes
<1>6. SameBooks
  BY <1>1, <1>2, <1>3, <1>4, <1>5, CollectorBooks, NamesAssumption
<1>7. Debt' = Debt
  BY <1>2 DEF Debt
<1> QED
  BY <1>2, <1>4, <1>6, <1>7, QuietDebt

LEMMA AgeUnlinkDebt ==
  ASSUME CollectionInv, BooksOK, BooksOK', DebtInv, NEW k \in Keys, AgeUnlink(k)
  PROVE  DebtInv' /\ (CountersExact => CountersExact')
<1>1. /\ CollectorTypeOK /\ gc \in Collections /\ gc.pending \in Nat /\ gc.unreported \in Nat
      /\ FilesInv /\ Complete(k) /\ Parses(k)
  BY DebtType, AgeUnlinkInv DEF CollectionInv, Complete
<1>2. /\ gc.pc = "walk" /\ k \in gc.todo /\ RemoveBody(k) /\ Uncount(k)
      /\ UNCHANGED <<meta, bodyTemps, metaTemps, activeTemps, writer, mu>> /\ UNCHANGED controllerVars
  BY DEF AgeUnlink, GCAt
<1>3. mu[StoreOf[k]] \notin Holders
  <2>1. gc.store \in Stores /\ mu[gc.store] = Collector /\ k \in CompleteIn(gc.store)
    BY <1>2 DEF CollectionInv, WalkOK, CollectorTypeOK, ExclusivePCs
  <2> QED
    BY <2>1, NamesAssumption DEF CompleteIn, KeysOf
<1>4. ~Complete(k)' /\ \A h \in Keys \ {k} : Complete(h)' = Complete(h)
  BY <1>1, <1>2, <1>3, BodyRemoved
<1>5. Debt' = Debt + meta[k].size
  <2>1. meta[k].size \in Nat
    BY <1>1 DEF FilesInv, DiskTypeOK, Metas
  <2>2. gc'.pending = gc.pending + meta[k].size /\ gc'.unreported = gc.unreported
    BY <1>1 DEF AgeUnlink, Collections
  <2> QED
    BY <1>1, <2>1, <2>2 DEF Debt
<1> QED
  BY <1>1, <1>2, <1>3, <1>4, <1>5, UnlinkDebt

LEMMA EvictUnlinkDebt ==
  ASSUME CollectionInv, BooksOK, BooksOK', DebtInv, NEW c \in gc.candidates, EvictUnlink(c)
  PROVE  DebtInv' /\ (CountersExact => CountersExact')
<1>1. /\ CollectorTypeOK /\ gc \in Collections /\ gc.pending \in Nat /\ gc.unreported \in Nat
      /\ FilesInv /\ gc.pc = "evict"
  BY DebtType DEF CollectionInv, EvictUnlink, Evicting, GCAt
<1>2. PICK k \in Keys : k = c.key /\ Complete(k) /\ Parses(k) /\ meta[k].size = c.size /\ c.size \in Nat
  BY CandidateComplete DEF EvictUnlink, Complete
<1>3. /\ RemoveBody(k) /\ Uncount(k)
      /\ mu[StoreOf[k]] \notin Holders /\ mu' = [mu EXCEPT ![StoreOf[k]] = Collector]
      /\ UNCHANGED <<meta, bodyTemps, metaTemps, activeTemps, writer>> /\ UNCHANGED controllerVars
  BY <1>2, NamesAssumption DEF EvictUnlink, Evicting, CanTake
<1>4. ~Complete(k)' /\ \A h \in Keys \ {k} : Complete(h)' = Complete(h)
  BY <1>1, <1>2, <1>3, BodyRemoved
<1>5. Debt' = Debt + meta[k].size
  <2>1. gc'.pending = c.size /\ gc'.unreported = gc.unreported
    BY <1>1 DEF EvictUnlink, Collections
  <2>2. gc.pending = 0
    BY <1>1 DEF CollectionInv, PendingOK, PendingPCs
  <2> QED
    BY <1>1, <1>2, <2>1, <2>2 DEF Debt
<1> QED
  BY <1>1, <1>2, <1>3, <1>4, <1>5, UnlinkDebt

(***************************************************************************)
(* No step of the collector changes what is booked and owed together.       *)
(***************************************************************************)
LEMMA CollectorDebt ==
  ASSUME CollectionInv, CollectionInv', BooksOK, BooksOK', DebtInv,
         CollectionStep \/ StartRun \/ CancelRun \/ UNCHANGED collectionVars
  PROVE  DebtInv' /\ (CountersExact => CountersExact')
<1> DEFINE Goal == DebtInv' /\ (CountersExact => CountersExact')
<1> SUFFICES Goal
  OBVIOUS
<1>1. CASE UNCHANGED collectionVars
  <2>1. /\ UNCHANGED <<meta, body, mu, writer, bytes, objects>> /\ UNCHANGED controllerVars
        /\ UNCHANGED <<writer, bodyTemps>> /\ gc' = gc
    BY <1>1 DEF collectionVars, storeVars, controllerVars
  <2>2. SameBooks
    BY <2>1, StillBooks
  <2>3. Debt' = Debt
    BY <2>1 DEF Debt
  <2> QED
    BY <2>1, <2>2, <2>3, QuietDebt
<1>2. CASE StartRun \/ CancelRun
  BY <1>2, PlainDebt
<1>3. CASE CollectionStep
  <2>1. ASSUME NEW s \in Stores, LockStore(s) \/ ListStore(s) PROVE Goal
    BY <2>1, LockDebt, PlainDebt
  <2>2. ASSUME NEW k \in Keys, AgeUnlink(k) \/ AgeSkip(k) PROVE Goal
    BY <2>2, AgeUnlinkDebt, PlainDebt
  <2>3. ASSUME NEW c \in gc.candidates, EvictStale(c) \/ EvictSkip(c) \/ EvictUnlink(c) PROVE Goal
    BY <2>3, EvictUnlinkDebt, PlainDebt
  <2>4. CASE ReportAge \/ ReportEvicted
    BY <2>4, ReportDebt DEF CollectionInv
  <2>5. CASE AgeUnlinkMeta \/ EvictUnlinkMeta
    BY <2>5, UnlinkMetaDebt
  <2>6. CASE UnlockStore \/ WalkFails
    BY <2>6, LockDebt
  <2>7. CASE \/ CollectByAge \/ CollectUnderPressure \/ AgeDone \/ TakeSnapshot \/ ListDone
             \/ ListFails \/ EvictDone
    BY <2>7, PlainDebt
  <2> HIDE DEF Goal
  <2> QED
    BY <1>3, <2>1, <2>2, <2>3, <2>4, <2>5, <2>6, <2>7 DEF CollectionStep
<1> HIDE DEF Goal
<1> QED
  BY <1>1, <1>2, <1>3

(***************************************************************************)
(* Every step of the composition keeps the accounts.                        *)
(***************************************************************************)
LEMMA DebtStep ==
  ASSUME CollectionInv, CollectionInv', BooksOK, BooksOK', DebtInv, DebtFits',
         [CollectionNext]_collectionVars
  PROVE  DebtInv' /\ (CountersExact /\ ~Fault("replace") => CountersExact')
<1> DEFINE Goal == DebtInv' /\ (CountersExact /\ ~Fault("replace") => CountersExact')
<1> SUFFICES Goal
  OBVIOUS
<1>1. ASSUME NEW w \in Holders, Serve(w) \/ WriterStep(w) PROVE Goal
  <2>1. Put(w) \/ PutStep(w)
    BY <1>1 DEF Serve, WriterStep
  <2>2. gc' = gc
    BY <1>1 DEF Serve, WriterStep
  <2>3. PICK d \in Nat : d = Debt
    BY DebtType DEF CollectionInv
  <2>4. Debt' = d
    BY <2>2, <2>3 DEF Debt
  <2>5. AccountsInv(d) /\ BytesFit(d)'
    BY <2>3, <2>4 DEF DebtInv, DebtFits, AccountsInv, LedgerInv, BytesFit
  <2>6. FilesInv /\ FilesInv' /\ ControllerTypeOK
    BY DEF CollectionInv, ControllerInv
  <2>7. AccountsInv(d)' /\ (CountersExact /\ ~Fault("replace") => CountersExact')
    BY <2>1, <2>5, <2>6, WriterAccounts
  <2> QED
    BY <2>4, <2>7 DEF DebtInv, AccountsInv, LedgerInv
<1>2. CASE Restart
  <2>1. Debt' = 0
    BY <1>2, StartedCollectionType DEF Restart, Debt
  <2>2. BytesFit(0)'
    BY <2>1 DEF DebtFits, BytesFit
  <2>3. AccountsInv(0)' /\ CountersExact'
    BY <1>2, <2>2, CrashAccounts DEF Restart, CollectionInv
  <2> QED
    BY <2>1, <2>3 DEF DebtInv, AccountsInv, LedgerInv
<1>3. CASE CollectionStep \/ StartRun \/ CancelRun \/ UNCHANGED collectionVars
  BY <1>3, CollectorDebt
<1> HIDE DEF Goal
<1> QED
  BY <1>1, <1>2, <1>3 DEF CollectionNext

-----------------------------------------------------------------------------
(* The stores with a collector beside the writers.                          *)

LEMMA StartDebt ==
  ASSUME CollectionInit, DebtFits
  PROVE  DebtInv /\ CountersExact
<1>1. Debt = 0
  BY StartedCollectionType DEF CollectionInit, Debt
<1>2. AccountsInv(0) /\ CountersExact
  BY <1>1, StartAccounts DEF CollectionInit, DebtFits, BytesFit
<1> QED
  BY <1>1, <1>2 DEF DebtInv, AccountsInv, LedgerInv

(***************************************************************************)
(* The accounts hold up to the bytes that the collector owes.               *)
(***************************************************************************)
LEMMA CollectionAccounts ==
  CollectionSpec /\ []DebtFits => [](CollectionInv /\ BooksOK /\ DebtInv)
<1>1. CollectionInit /\ DebtFits => DebtInv
  BY StartDebt
<1>2. CollectionInv => BooksOK
  BY FilesBooks DEF CollectionInv
<1>3. CollectionInv /\ CollectionInv' /\ BooksOK /\ BooksOK' /\ DebtInv /\ DebtFits'
        /\ [CollectionNext]_collectionVars
      => DebtInv'
  BY DebtStep
<1> QED
  BY <1>1, <1>2, <1>3, CollectionInvariant, PTL DEF CollectionSpec

(***************************************************************************)
(* Whatever fails, for any number of stores, keys and concurrent writes,    *)
(* the committed bytes are those of all stores plus what the collector has  *)
(* removed and not reported (store.go:379-386, server.go:318-327, 364-368). *)
(***************************************************************************)
THEOREM CollectionLedger == CollectionSpec /\ []DebtFits => []LedgerMatchesStores
<1>1. CollectionInv /\ BooksOK /\ DebtInv => LedgerMatchesStores
  <2> SUFFICES ASSUME CollectionInv, DebtInv, HasController
               PROVE  committedBytes = AllStoreBytes + gc.pending + gc.unreported
    BY DEF LedgerMatchesStores
  <2>1. gc.pending \in Nat /\ gc.unreported \in Nat
    BY DebtType DEF CollectionInv
  <2>2. AllStoreBytes \in Nat
    <3>1. \A s \in Stores : bytes[s] \in Nat
      BY DEF DebtInv, AccountsInv, CountersCover
    <3>2. IsFiniteSet(Stores)
      BY StoresAssumption
    <3> QED
      BY <3>1, <3>2, TotalType DEF AllStoreBytes
  <2>3. committedBytes = AllStoreBytes + (gc.pending + gc.unreported)
    BY DEF DebtInv, AccountsInv, LedgerInv, Debt
  <2> QED
    BY <2>1, <2>2, <2>3
<1> QED
  BY <1>1, CollectionAccounts, PTL

(***************************************************************************)
(* Beside a collector too, Commit is never refused after the metadata was   *)
(* replaced, and entries and writes in flight never use more than is        *)
(* committed and reserved (store.go:379-383, 246-251).                      *)
(***************************************************************************)
THEOREM CollectionUseIsAccounted ==
  CollectionSpec /\ []DebtFits => [](CommitNeverRefused /\ DiskUseIsAccounted)
<1>1. CollectionInv /\ BooksOK /\ DebtInv => CommitNeverRefused /\ DiskUseIsAccounted
  <2> SUFFICES ASSUME CollectionInv, BooksOK, DebtInv
               PROVE  CommitNeverRefused /\ DiskUseIsAccounted
    OBVIOUS
  <2>1. PICK d \in Nat : d = Debt
    BY DebtType DEF CollectionInv
  <2>2. AccountsInv(d) /\ FilesInv /\ ControllerInv
    BY <2>1 DEF DebtInv, CollectionInv, AccountsInv, LedgerInv
  <2>3. CommitNeverRefused
    BY <2>2, CommitFits DEF CommitNeverRefused, AccountsInv, ControllerInv
  <2>4. DiskUseIsAccounted
    BY <2>2, AccountedUse
  <2> QED
    BY <2>3, <2>4
<1> QED
  BY <1>1, CollectionAccounts, PTL

(***************************************************************************)
(* Removals lower the counters by what they remove: without a replace()     *)
(* that fails for good, the counters of a store whose s.mu is free are what *)
(* Reconcile would count (store.go:210-216, 383-386, 549-555).              *)
(***************************************************************************)
THEOREM CollectionCountersMatchDisk ==
  ASSUME ~Fault("replace")
  PROVE  CollectionSpec /\ []DebtFits => []CountersMatchDisk
<1>1. CollectionInit /\ DebtFits => CountersExact
  BY StartDebt
<1>2. CollectionInv /\ CollectionInv' /\ BooksOK /\ BooksOK' /\ DebtInv /\ DebtFits'
        /\ CountersExact /\ [CollectionNext]_collectionVars
      => CountersExact'
  BY DebtStep
<1>3. CollectionInv /\ CountersExact => CountersMatchDisk
  BY ExactMatches DEF CollectionInv
<1> QED
  BY <1>1, <1>2, <1>3, CollectionAccounts, PTL DEF CollectionSpec

(***************************************************************************)
(* Which steps take a complete entry away.                                  *)
(***************************************************************************)
LEMMA EntryGoes ==
  ASSUME CollectionInv, CollectionInv', BooksOK, DebtInv, CollectionNext,
         NEW k \in Keys, Complete(k), ~Complete(k)'
  PROVE  \/ Retrying(k)'
         \/ /\ mu'[StoreOf[k]] = Collector
            /\ gc'.pc = "evictMeta" =>
                 \E c \in gc.candidates : c.key = k /\ c.path = meta[k].path
<1> DEFINE Goal == \/ Retrying(k)'
                   \/ /\ mu'[StoreOf[k]] = Collector
                      /\ gc'.pc = "evictMeta" =>
                           \E c \in gc.candidates : c.key = k /\ c.path = meta[k].path
<1> SUFFICES Goal
  OBVIOUS
<1>1. FilesInv /\ FilesInv' /\ ControllerTypeOK /\ gc \in Collections /\ StoreOf[k] \in Stores
  BY StoresAssumption DEF CollectionInv, ControllerInv, CollectorTypeOK
<1>2. ASSUME NEW w \in Holders, Serve(w) \/ WriterStep(w) PROVE Goal
  <2>1. Put(w) \/ PutStep(w)
    BY <1>2 DEF Serve, WriterStep
  <2>2. PICK d \in Nat : d = Debt
    BY DebtType DEF CollectionInv
  <2>3. CountersCover /\ LedgerInv(d)
    BY <2>2 DEF DebtInv, AccountsInv, LedgerInv
  <2>4. FinishPut(w) /\ HasController
          => CommitAccepted(w, writer[w].written, writer[w].prevBytes)
    BY <1>1, <2>3, CommitFits DEF FinishPut
  <2> QED
    BY <1>1, <2>1, <2>3, <2>4, WriterKeepsEntries
<1>3. meta' # meta \/ body' # body
  BY DEF Complete, Parses, Exists
<1>4. ASSUME NEW h \in Keys, AgeUnlink(h) PROVE Goal
  <2>1. Complete(h) /\ h \in KeysOf(gc.store) /\ gc.store \in Stores /\ mu[gc.store] = Collector
    BY <1>4 DEF CollectionInv, WalkOK, CollectorTypeOK, ExclusivePCs, AgeUnlink, GCAt, CompleteIn
  <2>2. h = k
    <3>1. meta' = meta /\ RemoveBody(h) /\ body \in [Keys -> [Paths -> Bodies]]
      BY <1>1, <1>4 DEF AgeUnlink, FilesInv, DiskTypeOK
    <3>2. h # k => body'[k] = body[k]
      BY <3>1 DEF RemoveBody
    <3> QED
      BY <3>1, <3>2 DEF Complete, Parses, Exists
  <2>3. mu' = mu /\ gc'.pc = "walkMeta"
    BY <1>1, <1>4 DEF AgeUnlink, Collections
  <2> QED
    BY <2>1, <2>2, <2>3 DEF KeysOf
<1>5. ASSUME NEW c \in gc.candidates, EvictUnlink(c) PROVE Goal
  <2>1. c.key \in Keys
    BY <1>1 DEF Collections, Candidates
  <2>2. c.key = k
    <3>1. meta' = meta /\ RemoveBody(c.key) /\ body \in [Keys -> [Paths -> Bodies]]
      BY <1>1, <1>5 DEF EvictUnlink, FilesInv, DiskTypeOK
    <3>2. c.key # k => body'[k] = body[k]
      BY <2>1, <3>1 DEF RemoveBody
    <3> QED
      BY <3>1, <3>2 DEF Complete, Parses, Exists
  <2>3. c.path = meta[k].path
    BY <1>5, <2>2 DEF EvictUnlink, StillListed
  <2>4. mu' = [mu EXCEPT ![StoreOf[k]] = Collector] /\ StoreOf[k] \in DOMAIN mu
    BY <1>1, <1>5, <2>2 DEF EvictUnlink, FilesInv, WritersTypeOK
  <2> QED
    BY <2>2, <2>3, <2>4
<1>6. ~(AgeUnlinkMeta \/ EvictUnlinkMeta)
  BY UnlinkMetaDebt
<1>7. ~(StartRun \/ CancelRun \/ Restart)
  BY <1>3 DEF StartRun, CancelRun, Restart, Crash, storeVars
<1>8. ASSUME NEW s \in Stores PROVE ~(LockStore(s) \/ ListStore(s))
  BY <1>3 DEF LockStore, ListStore, storeVars, disk
<1>9. ASSUME NEW h \in Keys PROVE ~AgeSkip(h)
  BY <1>3 DEF AgeSkip, storeVars
<1>10. ASSUME NEW c \in gc.candidates PROVE ~(EvictStale(c) \/ EvictSkip(c))
  BY <1>3 DEF EvictStale, EvictSkip, storeVars
<1>11. ~(\/ CollectByAge \/ CollectUnderPressure \/ AgeDone \/ TakeSnapshot \/ ListDone
         \/ ListFails \/ EvictDone \/ UnlockStore \/ WalkFails \/ ReportAge \/ ReportEvicted)
  BY <1>3 DEF CollectByAge, CollectUnderPressure, AgeDone, TakeSnapshot, ListDone, ListFails,
     EvictDone, UnlockStore, WalkFails, ReportAge, ReportEvicted, storeVars, disk
<1> HIDE DEF Goal
<1>12. CASE CollectionStep
  BY <1>4, <1>5, <1>6, <1>8, <1>9, <1>10, <1>11, <1>12 DEF CollectionStep
<1> QED
  BY <1>2, <1>7, <1>12 DEF CollectionNext

(***************************************************************************)
(* A complete entry goes only in an exclusive section of the collector, and *)
(* under pressure only the generation that was listed: a write that         *)
(* replaced it since survives (store.go:203-206).  The one other way out is *)
(* a replace() of the key that has to remove its destination (store.go:     *)
(* 629-633).                                                                *)
(***************************************************************************)
THEOREM CollectionRemovesOnlyListed ==
  CollectionSpec /\ []DebtFits => OnlyCollectedEntriesGo
<1> DEFINE A == \A k \in Keys : Complete(k) /\ ~Complete(k)' =>
                  \/ Retrying(k)'
                  \/ /\ mu'[StoreOf[k]] = Collector
                     /\ gc'.pc = "evictMeta" =>
                          \E c \in gc.candidates : c.key = k /\ c.path = meta[k].path
<1>1. CollectionInv /\ CollectionInv' /\ BooksOK /\ DebtInv /\ [CollectionNext]_collectionVars
      => [A]_collectionVars
  BY EntryGoes
<1> QED
  BY <1>1, CollectionAccounts, PTL DEF CollectionSpec, OnlyCollectedEntriesGo

LEMMA CrashCount ==
  ASSUME crashes \in Nat, [CollectionNext]_collectionVars
  PROVE  crashes' \in Nat
<1>1. ASSUME NEW w \in Holders, Serve(w) \/ WriterStep(w) PROVE crashes' = crashes
  BY <1>1, WriterCrashes DEF Serve, WriterStep
<1>2. CollectionStep \/ StartRun \/ CancelRun => crashes' = crashes
  BY DEF CollectionStep, StartRun, CancelRun, storeVars, CollectByAge, CollectUnderPressure,
     LockStore, ListStore, AgeUnlink, AgeSkip, AgeUnlinkMeta, UnlockStore, ReportAge, AgeDone,
     TakeSnapshot, ListDone, EvictStale, EvictSkip, EvictUnlink, EvictUnlinkMeta, ReportEvicted,
     EvictDone, WalkFails, ListFails
<1>3. Restart \/ UNCHANGED collectionVars => crashes' \in Nat
  BY DEF Restart, Crash, collectionVars, storeVars
<1> QED
  BY <1>1, <1>2, <1>3 DEF CollectionNext

(***************************************************************************)
(* Type correctness of the stores, the controller and the collector: every  *)
(* counter stays a natural number, and s.mu is where its holder is.         *)
(***************************************************************************)
THEOREM CollectionType == CollectionSpec /\ []DebtFits => []CollectionTypeOK
<1>1. CollectionInit => crashes \in Nat
  BY DEF CollectionInit, StoreInit
<1>2. crashes \in Nat /\ [CollectionNext]_collectionVars => (crashes \in Nat)'
  BY CrashCount
<1>3. CollectionInv /\ DebtInv /\ crashes \in Nat => CollectionTypeOK
  BY DEF CollectionInv, ControllerInv, FilesInv, DebtInv, AccountsInv, CountersCover,
     CollectionTypeOK, StoreTypeOK
<1> QED
  BY <1>1, <1>2, <1>3, CollectionAccounts, PTL DEF CollectionSpec

-----------------------------------------------------------------------------
(* Body files that no metadata names.                                       *)

(* A write in its commit section has such a file: its own generation until  *)
(* it replaces the metadata, the one it replaces once the metadata that     *)
(* named it is gone.                                                        *)
StrayOf(w, k, p) ==
  /\ writer[w].key = k
  /\ \/ writer[w].pc \in {"replace", "retry"} /\ p = writer[w].gen
     \/ writer[w].pc \in FinishPCs /\ p = writer[w].prevPath

NoStray ==
  \A k \in Keys : \A p \in Paths :
    Exists(k, p) => p = meta[k].path \/ \E w \in Holders : StrayOf(w, k, p)

(* The collector removes metadata after the body it names.                  *)
BodyGone ==
  gc.pc \in {"walkMeta", "evictMeta"} => ~Exists(gc.key, meta[gc.key].path)

OrphanInv == NoStray /\ BodyGone /\ crashes \in Nat

(***************************************************************************)
(* A step of one write leaves no stray file if each that it makes is its    *)
(* own and each that it had is gone or named.                               *)
(***************************************************************************)
LEMMA StrayStep ==
  ASSUME NoStray, NEW w \in Holders, \A v \in Holders \ {w} : writer'[v] = writer[v],
         \A k \in Keys : \A p \in Paths :
           Exists(k, p)' /\ p # meta'[k].path =>
             \/ StrayOf(w, k, p)'
             \/ Exists(k, p) /\ p # meta[k].path /\ ~StrayOf(w, k, p)
  PROVE  NoStray'
<1> SUFFICES ASSUME NEW k \in Keys, NEW p \in Paths, Exists(k, p)', p # meta'[k].path
             PROVE  \E v \in Holders : StrayOf(v, k, p)'
  BY DEF NoStray
<1>1. CASE StrayOf(w, k, p)'
  BY <1>1
<1>2. CASE Exists(k, p) /\ p # meta[k].path /\ ~StrayOf(w, k, p)
  <2>1. PICK v \in Holders : StrayOf(v, k, p)
    BY <1>2 DEF NoStray
  <2>2. writer'[v] = writer[v]
    BY <1>2, <2>1
  <2>3. StrayOf(v, k, p)'
    BY <2>1, <2>2 DEF StrayOf
  <2> QED
    BY <2>3
<1> QED
  BY <1>1, <1>2

LEMMA CommitLeavesNoStray ==
  ASSUME FilesInv, NoStray, NEW w \in Holders, ~Fault("unlink"), ~Fault("replace"),
         NEW k \in Keys, writer[w].key = k,
         FinishPut(w) /\ HasController => CommitAccepted(w, writer[w].written, writer[w].prevBytes),
         RenameBody(w) \/ ReplaceMeta(w) \/ RemoveDestination(w) \/ ReplaceFails(w) \/ FinishPut(w)
  PROVE  NoStray'
<1> DEFINE g == writer[w].gen
<1>1. /\ writer \in [Holders -> Writers] /\ writer[w].pc \in CommitPCs
      /\ meta \in [Keys -> Metas] /\ body \in [Keys -> [Paths -> Bodies]]
  BY DEF FilesInv, WritersTypeOK, DiskTypeOK, RenameBody, ReplaceMeta, RemoveDestination,
     ReplaceFails,
     FinishPut, At, CommitPCs
<1>2. /\ writer[w] \in Writers /\ g \in Paths /\ g # NoPath /\ NoPath \notin Paths
  BY <1>1, CommitFacts, NamesAssumption DEF CommitPCs, Paths
<1>3. \A v \in Holders \ {w} : writer'[v] = writer[v]
  BY <1>1 DEF RenameBody, ReplaceMeta, RemoveDestination, ReplaceFails, FinishPut, LeaveCommit, Goto
<1>4. ASSUME NEW h \in Keys \ {k}, NEW p \in Paths
      PROVE  /\ meta'[h] = meta[h] /\ body'[h] = body[h] /\ ~StrayOf(w, h, p)
             /\ Exists(h, p)' => Exists(h, p)
  <2>1. meta'[h] = meta[h] /\ body'[h] = body[h]
    BY WriterTouches DEF PutStep
  <2> QED
    BY <2>1 DEF StrayOf, Exists, FinishPCs
<1>5. FilesKept(w)
  BY DEF FilesInv
<1>6. ASSUME NEW p \in Paths, Exists(k, p)', p # meta'[k].path
      PROVE  \/ StrayOf(w, k, p)'
             \/ Exists(k, p) /\ p # meta[k].path /\ ~StrayOf(w, k, p)
  <2>1. CASE RenameBody(w)
    <3>1. /\ writer[w].pc = "rename" /\ meta' = meta /\ writer'[w].pc = "replace"
          /\ writer'[w].gen = g /\ writer'[w].key = k
          /\ \A q \in Paths \ {g} : body'[k][q] = body[k][q]
      BY <1>1, <1>2, <2>1 DEF RenameBody, Goto, At, generationPath, Writers
    <3>2. CASE p = g
      BY <3>1, <3>2 DEF StrayOf, FinishPCs
    <3>3. CASE p # g
      BY <1>6, <3>1, <3>3 DEF StrayOf, Exists, FinishPCs
    <3> QED
      BY <3>2, <3>3
  <2>2. CASE ReplaceMeta(w)
    <3>1. /\ writer[w].pc \in {"replace", "retry"} /\ body' = body /\ writer'[w].pc = "commit"
          /\ writer'[w].key = k /\ writer'[w].prevPath = writer[w].prevPath
          /\ meta'[k].path = g
      BY <1>1, <1>2, <2>2 DEF ReplaceMeta, ParsedMeta, Goto, At, generationPath, Writers
    <3>2. writer[w].pc = "replace" => writer[w].prevPath = meta[k].path
      BY <1>5 DEF FilesKept
    <3>3. writer[w].pc = "retry" => meta[k].path = NoPath
      BY <1>5 DEF FilesKept, AbsentMeta
    <3> QED
      BY <1>2, <1>6, <3>1, <3>2, <3>3 DEF StrayOf, Exists, FinishPCs
  <2>3. CASE ReplaceFails(w)
    <3>1. writer[w].pc = "replace" /\ meta' = meta /\ body' = [body EXCEPT ![k][g] = NoBody]
      BY <2>3 DEF ReplaceFails, Unlink, At, generationPath
    <3>2. p # g /\ body'[k][p] = body[k][p]
      BY <1>1, <1>2, <1>6, <3>1 DEF Exists
    <3> QED
      BY <1>6, <3>1, <3>2 DEF StrayOf, Exists, FinishPCs
  <2>4. CASE FinishPut(w)
    <3>1. writer[w].pc = "commit" /\ meta' = meta /\ RemovePrevious(w)
      BY <2>4 DEF FinishPut, At
    <3>2. writer[w].prevPath # g /\ meta[k].path = g
      BY <1>5, <3>1 DEF FilesKept, ParsedMeta
    <3>3. CASE writer[w].prevPath = NoPath
      <4>1. body' = body
        BY <3>1, <3>3 DEF RemovePrevious
      <4> QED
        BY <1>2, <1>6, <3>1, <3>3, <4>1 DEF StrayOf, Exists, FinishPCs
    <3>4. CASE writer[w].prevPath # NoPath
      <4>1. body' = [body EXCEPT ![k][writer[w].prevPath] = NoBody]
        BY <3>1, <3>2, <3>4 DEF RemovePrevious, Unlink, generationPath
      <4>2. writer[w].prevPath \in Paths
        BY <1>2, <3>4 DEF Writers
      <4>3. p # writer[w].prevPath /\ body'[k][p] = body[k][p]
        BY <1>1, <1>6, <4>1, <4>2 DEF Exists
      <4> QED
        BY <1>6, <3>1, <4>3 DEF StrayOf, Exists, FinishPCs
    <3> QED
      BY <3>3, <3>4
  <2>5. CASE RemoveDestination(w)
    <3>1. /\ writer[w].pc = "replace" /\ body' = body /\ writer'[w].pc = "retry"
          /\ writer'[w].key = k /\ writer'[w].gen = g /\ writer'[w].prevPath = writer[w].prevPath
      BY <1>1, <1>2, <2>5 DEF RemoveDestination, Goto, At, Writers
    <3>2. writer[w].prevPath = meta[k].path
      BY <1>5, <3>1 DEF FilesKept
    <3> QED
      BY <1>6, <3>1, <3>2 DEF StrayOf, Exists, FinishPCs
  <2> QED
    BY <2>1, <2>2, <2>3, <2>4, <2>5
<1> QED
  BY <1>3, <1>4, <1>6, StrayStep

LEMMA WriterLeavesNoStray ==
  ASSUME FilesInv, NoStray, NEW w \in Holders, ~Fault("unlink"), ~Fault("replace"),
         FinishPut(w) /\ HasController => CommitAccepted(w, writer[w].written, writer[w].prevBytes),
         Put(w) \/ PutStep(w)
  PROVE  NoStray'
<1>1. ASSUME UNCHANGED <<meta, body>>, \A v \in Holders \ {w} : writer'[v] = writer[v],
             writer[w].pc \notin {"replace", "retry", "commit"}
      PROVE  NoStray'
  BY <1>1, StrayStep DEF StrayOf, Exists, FinishPCs
<1>2. CASE writer[w].pc \notin CommitPCs /\ ~LockCommit(w)
  BY <1>1, <1>2, QuietWrite DEF CommitPCs
<1>3. CASE LockCommit(w) \/ RenameBodyFails(w)
  <2>1. /\ UNCHANGED <<meta, body>> /\ writer[w].pc \in {"lock", "rename"}
        /\ \A v \in Holders \ {w} : writer'[v] = writer[v]
    BY <1>3 DEF LockCommit, RenameBodyFails, LeaveCommit, Goto, At, disk, FilesInv, WritersTypeOK
  <2> QED
    BY <1>1, <2>1
<1>4. CASE RenameBody(w) \/ ReplaceMeta(w) \/ RemoveDestination(w) \/ ReplaceFails(w) \/ FinishPut(w)
  <2>1. PICK k \in Keys : k = writer[w].key
    BY <1>4, CommitFacts
       DEF RenameBody, ReplaceMeta, RemoveDestination, ReplaceFails, FinishPut, At, CommitPCs
  <2> QED
    BY <1>4, <2>1, CommitLeavesNoStray
<1>5. CASE Put(w)
  <2>1. writer[w].pc \notin CommitPCs /\ ~LockCommit(w)
    BY <1>5 DEF Put, PutAdmitted, PutRefused, PutUnknownLength, At, CommitPCs, LockCommit
  <2> QED
    BY <1>2, <2>1
<1>6. CASE PutStep(w) /\ writer[w].pc \in CommitPCs
  <2>1. \/ LockCommit(w) \/ RenameBody(w) \/ RenameBodyFails(w) \/ ReplaceMeta(w)
        \/ RemoveDestination(w) \/ ReplaceFails(w) \/ FinishPut(w)
    BY <1>6 DEF PutStep, CommitPCs, At, CreateBodyTemp, CreateBodyTempFails, StreamBody,
       StreamOverflows, StreamFails, CreateMetaTemp, CreateMetaTempFails, WriteMetaTempFails,
       DropMetaTemp, DropBodyTemp, ReleasePut
  <2> QED
    BY <1>3, <1>4, <2>1
<1> QED
  BY <1>2, <1>3, <1>5, <1>6

(***************************************************************************)
(* The collector's steps that leave every file alone.                       *)
(***************************************************************************)
LEMMA PlainOrphans ==
  ASSUME OrphanInv, UNCHANGED <<meta, body, writer>>,
         gc'.pc \notin {"walkMeta", "evictMeta"} \/ gc' = gc
  PROVE  NoStray' /\ BodyGone'
<1>1. NoStray'
  BY DEF OrphanInv, NoStray, StrayOf, Exists
<1>2. BodyGone'
  BY DEF OrphanInv, BodyGone, Exists
<1> QED
  BY <1>1, <1>2

LEMMA UnlinkOrphans ==
  ASSUME FilesInv, OrphanInv, NEW k \in Keys, Parses(k), RemoveBody(k),
         UNCHANGED <<meta, writer>>, gc'.key = k
  PROVE  NoStray' /\ BodyGone'
<1> DEFINE p == meta[k].path
<1>1. p \in Paths /\ body \in [Keys -> [Paths -> Bodies]]
  BY DEF FilesInv, DiskTypeOK, Metas, Parses
<1>2. /\ body'[k][p] = NoBody
      /\ \A h \in Keys : \A q \in Paths : body'[h][q] \in {NoBody, body[h][q]}
  BY <1>1 DEF RemoveBody
<1>3. NoStray'
  BY <1>2 DEF OrphanInv, NoStray, StrayOf, Exists
<1>4. BodyGone'
  BY <1>2 DEF BodyGone, Exists
<1> QED
  BY <1>3, <1>4

LEMMA UnlinkMetaOrphans ==
  ASSUME CollectionInv, OrphanInv, AgeUnlinkMeta \/ EvictUnlinkMeta
  PROVE  NoStray' /\ BodyGone'
<1>1. /\ gc \in Collections /\ meta \in [Keys -> Metas]
  BY DEF CollectionInv, CollectorTypeOK, FilesInv, DiskTypeOK
<1>2. /\ gc.pc \in {"walkMeta", "evictMeta"} /\ RemoveMeta(gc.key) /\ UNCHANGED <<body, writer>>
      /\ gc'.pc \in {"walk", "evictReport"}
  BY <1>1 DEF AgeUnlinkMeta, EvictUnlinkMeta, GCAt, Collections
<1>3. ASSUME NEW h \in Keys, NEW p \in Paths, Exists(h, p)'
      PROVE  p = meta'[h].path \/ \E v \in Holders : StrayOf(v, h, p)'
  <2>1. Exists(h, p)
    BY <1>2, <1>3 DEF Exists
  <2>2. h = gc.key => p # meta[h].path
    BY <1>2, <2>1 DEF OrphanInv, BodyGone
  <2>3. h # gc.key => meta'[h] = meta[h]
    BY <1>1, <1>2 DEF RemoveMeta
  <2>4. p = meta[h].path \/ \E v \in Holders : StrayOf(v, h, p)
    BY <2>1 DEF OrphanInv, NoStray
  <2>5. \A v \in Holders : StrayOf(v, h, p) => StrayOf(v, h, p)'
    BY <1>2 DEF StrayOf
  <2> QED
    BY <2>2, <2>3, <2>4, <2>5
<1>4. NoStray'
  BY <1>3 DEF NoStray
<1> QED
  BY <1>2, <1>4 DEF BodyGone

LEMMA OrphanStep ==
  ASSUME CollectionInv, BooksOK, DebtInv, OrphanInv, [CollectionNext]_collectionVars,
         ~Fault("unlink"), ~Fault("replace"), MaxCrashes = 0
  PROVE  OrphanInv'
<1> DEFINE Goal == NoStray' /\ BodyGone'
<1>0. crashes' \in Nat
  BY CrashCount DEF OrphanInv
<1> SUFFICES Goal
  BY <1>0 DEF OrphanInv
<1>1. FilesInv /\ ControllerTypeOK /\ gc \in Collections
  BY DEF CollectionInv, ControllerInv, CollectorTypeOK
<1>2. ASSUME NEW w \in Holders, Serve(w) \/ WriterStep(w) PROVE Goal
  <2>1. (Put(w) \/ PutStep(w)) /\ gc' = gc
    BY <1>2 DEF Serve, WriterStep
  <2>2. PICK d \in Nat : d = Debt
    BY DebtType DEF CollectionInv
  <2>3. CountersCover /\ LedgerInv(d)
    BY <2>2 DEF DebtInv, AccountsInv, LedgerInv
  <2>4. FinishPut(w) /\ HasController
          => CommitAccepted(w, writer[w].written, writer[w].prevBytes)
    BY <1>1, <2>3, CommitFits DEF FinishPut
  <2>5. NoStray'
    BY <1>1, <2>1, <2>4, WriterLeavesNoStray DEF OrphanInv
  <2>6. BodyGone'
    <3> SUFFICES ASSUME gc.pc \in {"walkMeta", "evictMeta"}
                 PROVE  ~Exists(gc.key, meta[gc.key].path)'
      BY <2>1 DEF BodyGone
    <3>1. PICK h \in Keys : h = gc.key /\ mu[StoreOf[h]] = Collector
      BY DEF CollectionInv, WalkOK, CollectorTypeOK, ExclusivePCs, KeysOf
    <3>2. meta'[h] = meta[h] /\ body'[h] = body[h]
      BY <1>1, <2>1, <3>1, WriterTouches, NamesAssumption
    <3> QED
      BY <2>1, <3>1, <3>2 DEF OrphanInv, BodyGone, Exists
  <2> QED
    BY <2>5, <2>6
<1>3. ASSUME NEW k \in Keys, AgeUnlink(k) PROVE Goal
  <2>1. Parses(k)
    BY <1>3, AgeUnlinkInv DEF Complete
  <2>2. gc'.key = k
    BY <1>1, <1>3 DEF AgeUnlink, Collections
  <2> QED
    BY <1>1, <1>3, <2>1, <2>2, UnlinkOrphans DEF AgeUnlink
<1>4. ASSUME NEW c \in gc.candidates, EvictUnlink(c) PROVE Goal
  <2>1. PICK k \in Keys : k = c.key /\ Parses(k)
    BY <1>4, CandidateComplete DEF EvictUnlink, Complete
  <2>2. gc'.key = k
    BY <1>1, <1>4, <2>1 DEF EvictUnlink, Collections
  <2> QED
    BY <1>1, <1>4, <2>1, <2>2, UnlinkOrphans DEF EvictUnlink
<1>5. CASE AgeUnlinkMeta \/ EvictUnlinkMeta
  BY <1>5, UnlinkMetaOrphans
<1>6. CASE Restart
  BY <1>6 DEF Restart, Crash, OrphanInv
<1>7. CASE UNCHANGED collectionVars
  BY <1>7, PlainOrphans DEF collectionVars, storeVars
<1>8. FinishRun => gc'.pc = "idle"
  BY DEF FinishRun, IdleCollection
<1>9. ASSUME NEW s \in Stores, LockStore(s) \/ ListStore(s) PROVE Goal
  <2>1. UNCHANGED <<meta, body, writer>> /\ gc'.pc \in {"walk", "list"}
    BY <1>1, <1>9 DEF LockStore, ListStore, GCAt, Collections, storeVars, disk
  <2> QED
    BY <2>1, PlainOrphans
<1>10. ASSUME NEW k \in Keys, AgeSkip(k) PROVE Goal
  BY <1>10 DEF AgeSkip
<1>11. ASSUME NEW c \in gc.candidates, EvictStale(c) \/ EvictSkip(c) PROVE Goal
  <2>1. UNCHANGED <<meta, body, writer>> /\ gc'.pc = "evict"
    BY <1>1, <1>11 DEF EvictStale, EvictSkip, Evicting, GCAt, Collections, storeVars
  <2> QED
    BY <2>1, PlainOrphans
<1>12. CASE StartRun \/ CollectByAge \/ CollectUnderPressure \/ ListDone
  <2>1. UNCHANGED <<meta, body, writer>> /\ gc'.pc \in {"collect", "age", "snapshot", "evict"}
    BY <1>1, <1>12
       DEF StartRun, CollectByAge, CollectUnderPressure, ListDone, Collections, storeVars
  <2> QED
    BY <2>1, PlainOrphans
<1>13. CASE UnlockStore \/ ReportAge \/ ReportEvicted
  <2>1. UNCHANGED <<meta, body, writer>> /\ gc'.pc \in {"report", "age", "evict"}
    BY <1>1, <1>13 DEF UnlockStore, ReportAge, ReportEvicted, Collections, disk
  <2> QED
    BY <2>1, PlainOrphans
<1>14. CASE CancelRun \/ AgeDone \/ TakeSnapshot \/ ListFails \/ EvictDone \/ WalkFails
  <2>1. UNCHANGED <<meta, body, writer>>
    BY <1>14
       DEF CancelRun, AgeDone, TakeSnapshot, ListFails, EvictDone, WalkFails, storeVars, disk
  <2>2. gc'.pc \in {"idle", "list"}
    BY <1>1, <1>8, <1>14
       DEF CancelRun, AgeDone, TakeSnapshot, ListFails, EvictDone, WalkFails, Collections
  <2> QED
    BY <2>1, <2>2, PlainOrphans
<1> HIDE DEF Goal
<1>15. CASE CollectionStep
  BY <1>3, <1>4, <1>5, <1>9, <1>10, <1>11, <1>12, <1>13, <1>14, <1>15 DEF CollectionStep
<1> QED
  BY <1>2, <1>6, <1>7, <1>12, <1>14, <1>15 DEF CollectionNext

(***************************************************************************)
(* While the process lives, and unless removing a file fails, no write, no  *)
(* failure of one and no collection leaves a body file that its metadata    *)
(* does not name (store.go:370-390, 210-214).  After a crash in the commit  *)
(* section one is left: run store_crash.                                    *)
(***************************************************************************)
THEOREM CollectionLeavesNoOrphans ==
  ASSUME ~Fault("unlink"), ~Fault("replace"), MaxCrashes = 0
  PROVE  CollectionSpec /\ []DebtFits => []NoOrphanBodies
<1>1. CollectionInit => OrphanInv
  <2> SUFFICES ASSUME CollectionInit PROVE OrphanInv
    OBVIOUS
  <2>1. PICK files \in [Keys -> FilesAtStart] :
          /\ meta = [k \in Keys |-> files[k][1]]
          /\ body = [k \in Keys |-> [p \in Paths |-> IF p = Legacy THEN files[k][2] ELSE NoBody]]
    BY DEF CollectionInit, StoreInit
  <2>2. \A k \in Keys : files[k][2] # NoBody => files[k][1].path = Legacy
    BY DEF FilesAtStart, ParsedMeta
  <2>3. NoStray
    BY <2>1, <2>2 DEF NoStray, Exists
  <2>4. BodyGone /\ crashes \in Nat
    BY StartedCollectionType DEF BodyGone, CollectionInit, StoreInit
  <2> QED
    BY <2>3, <2>4 DEF OrphanInv
<1>2. CollectionInv /\ BooksOK /\ DebtInv /\ OrphanInv /\ [CollectionNext]_collectionVars
      => OrphanInv'
  BY OrphanStep
<1>3. CollectionInv /\ OrphanInv => NoOrphanBodies
  <2> SUFFICES ASSUME CollectionInv, OrphanInv, NEW k \in Keys, Free(StoreOf[k]),
                      NEW p \in Paths, Exists(k, p)
               PROVE  meta[k].path = p
    BY DEF NoOrphanBodies
  <2>1. ASSUME NEW w \in Holders, StrayOf(w, k, p) PROVE FALSE
    <3>1. mu[StoreOf[k]] = w
      BY <2>1 DEF StrayOf, CollectionInv, FilesInv, WritersTypeOK, CommitPCs, FinishPCs, StoreUsed
    <3> QED
      BY <3>1, NamesAssumption DEF Free
  <2> QED
    BY <2>1 DEF OrphanInv, NoStray
<1> QED
  BY <1>1, <1>2, <1>3, CollectionAccounts, PTL DEF CollectionSpec

-----------------------------------------------------------------------------
(* With a byte budget, bytes that fit an int64 at the first start always do. *)

UsageFits == committedBytes + reservedBytes <= MaxInt

LEMMA StoreBytesType ==
  ASSUME CountersCover
  PROVE  AllStoreBytes \in Nat
<1>1. IsFiniteSet(Stores) /\ \A s \in Stores : bytes[s] \in Nat
  BY StoresAssumption DEF CountersCover
<1> QED
  BY <1>1, TotalType DEF AllStoreBytes

LEMMA UsageLowered ==
  ASSUME UsageFits, committedBytes \in Int, reservedBytes \in Int, MaxInt \in Int,
         NEW c \in Int, NEW r \in Int, c + r <= committedBytes + reservedBytes,
         committedBytes' = c, reservedBytes' = r
  PROVE  UsageFits'
<1>1. committedBytes + reservedBytes <= MaxInt
  BY DEF UsageFits
<1>2. c + r <= MaxInt
  BY <1>1
<1> QED
  BY <1>2 DEF UsageFits

(***************************************************************************)
(* A write reserves within the budget and commits no more than it reserved. *)
(***************************************************************************)
LEMMA WriterUsage ==
  ASSUME FilesInv, ControllerInv, ControllerInv', UsageFits, MaxBytes > 0, NEW w \in Holders,
         Put(w) \/ PutStep(w)
  PROVE  UsageFits'
<1>0. /\ committedBytes \in Nat /\ reservedBytes \in Nat /\ MaxInt \in Nat
      /\ committedBytes <= MaxInt /\ committedBytes + reservedBytes <= MaxInt
  BY WidthAssumption DEF ControllerInv, ControllerTypeOK, UsageFits
<1>1. CASE UNCHANGED <<committedBytes, reservedBytes>>
  BY <1>1 DEF UsageFits
<1>2. ASSUME NEW n \in Sizes, NEW free \in FreeReadings, ReserveGranted(w, n, free)
      PROVE  UsageFits'
  <2>1. n \in -1..MaxInt /\ free \in 0..MaxInt
    BY InputsAssumption, WidthAssumption
  <2>2. committedBytes' = committedBytes /\ reservedBytes' = reservedBytes + n
    BY <1>2, <2>1, ReserveGrantedInv DEF ReserveGranted
  <2>3. committedBytes + reservedBytes + n <= MaxBytes
    BY <1>2, <2>1, GrantFits DEF ReserveGranted, ControllerInv
  <2> QED
    BY <1>0, <2>1, <2>2, <2>3, LimitsAssumption DEF UsageFits
<1>3. CASE Put(w)
  BY <1>1, <1>2, <1>3
     DEF Put, PutAdmitted, PutRefused, PutUnknownLength, ReserveRefused, RecordBypass, ledger,
         controllerVars
<1>4. CASE FinishPut(w)
  <2> DEFINE r == reservation[w].bytes
             n == writer[w].written
             b == writer[w].prevBytes
  <2>1. n \in 0..MaxInt /\ b \in Nat /\ HasController
    BY DEF FilesInv, WritersTypeOK, Writers, HasController
  <2>2. Commit(w, n, b)
    BY <1>4, <2>1 DEF FinishPut
  <2>3. r \in 0..reservedBytes /\ reservedBytes' = reservedBytes - r
    BY <2>1, <2>2, CommitInv
  <2>4. committedBytes' \in 0..MaxInt /\ committedBytes' <= committedBytes + r
    <3>1. committedBytes' \in 0..MaxInt
      BY DEF ControllerInv, ControllerTypeOK
    <3>2. CASE CommitAccepted(w, n, b)
      BY <1>0, <2>1, <2>2, <2>3, <3>2 DEF Commit, CommitAccepted, saturatingAdd
    <3>3. CASE ~CommitAccepted(w, n, b)
      BY <1>0, <2>2, <2>3, <3>3 DEF Commit
    <3> QED
      BY <3>1, <3>2, <3>3
  <2> HIDE DEF r
  <2> QED
    BY <1>0, <2>3, <2>4, UsageLowered
<1>5. CASE ReleasePut(w)
  <2>1. committedBytes' = committedBytes
    BY <1>5 DEF ReleasePut, Release, ledger, controllerVars
  <2>2. reservedBytes' <= reservedBytes /\ reservedBytes' \in 0..MaxInt
    BY <1>0, <1>5, ReleaseInv DEF ReleasePut, controllerVars, ControllerInv, ControllerTypeOK
  <2> QED
    BY <1>0, <2>1, <2>2, UsageLowered
<1>6. CASE PutStep(w)
  <2>1. UNCHANGED <<committedBytes, reservedBytes>> \/ FinishPut(w) \/ ReleasePut(w)
    BY <1>6 DEF PutStep, CreateBodyTemp, CreateBodyTempFails, StreamBody, StreamOverflows,
        StreamFails, CreateMetaTemp, CreateMetaTempFails, WriteMetaTempFails,
        RenameBody, RenameBodyFails, ReplaceMeta, RemoveDestination,
        ReplaceFails, DropMetaTemp, LockCommit,
        DropBodyTemp, RecordBypass, ledger, controllerVars
  <2> QED
    BY <1>1, <1>4, <1>5, <2>1
<1> QED
  BY <1>3, <1>6

(***************************************************************************)
(* What a write adds to a store it had reserved.                            *)
(***************************************************************************)
LEMMA WriterFits ==
  ASSUME FilesInv, FilesInv', BooksOK, BooksOK', ControllerInv,
         NEW d \in Nat, AccountsInv(d), UsageFits, NEW w \in Holders, Put(w) \/ PutStep(w)
  PROVE  BytesFit(d)'
<1> SUFFICES ASSUME HasController PROVE AllStoreBytes' + d <= MaxInt
  BY DEF BytesFit
<1>1. /\ CountersCover /\ LedgerInv(d) /\ committedBytes = AllStoreBytes + d
      /\ committedBytes \in 0..MaxInt /\ reservedBytes \in 0..MaxInt /\ MaxInt \in Nat
      /\ ControllerTypeOK /\ AllStoreBytes \in Nat
  BY StoreBytesType, WidthAssumption DEF AccountsInv, LedgerInv, ControllerInv, ControllerTypeOK
<1>2. CASE ~FinishPut(w)
  <2>1. AllStoreBytes' = AllStoreBytes
    BY <1>1, <1>2, WriterBooks, SameBooksCover, LostCover
  <2> QED
    BY <1>1, <2>1
<1>3. CASE FinishPut(w)
  <2>1. PICK k : k = writer[w].key
    OBVIOUS
  <2>2. /\ At(w, "commit") /\ CommitAccepted(w, writer[w].written, writer[w].prevBytes)
        /\ writer[w].prevBytes <= AllStoreBytes
    BY <1>1, <1>3, CommitFits DEF FinishPut
  <2>3. k \in Keys /\ Rebooked(k) /\ Booked[k] = writer[w].prevBytes /\ Booked'[k] = writer[w].written
    BY <1>1, <1>3, <2>1, <2>2, FinishPutBooks
  <2>4. AllStoreBytes' = AllStoreBytes - writer[w].prevBytes + writer[w].written
    BY <1>1, <2>3, RebookedCover
  <2>5. writer[w].written \in Nat /\ writer[w].prevBytes \in Nat
    BY WidthAssumption DEF FilesInv, WritersTypeOK, Writers
  <2>6. writer[w].written <= reservedBytes
    <3>1. ~reservation[w].done /\ writer[w].written <= reservation[w].bytes
      BY <1>1, <2>2 DEF LedgerInv, WriteReserved, ReservedPCs, At, CommitAccepted
    <3>2. Outstanding[w] = reservation[w].bytes /\ Outstanding[w] \in Nat
          /\ Outstanding[w] <= reservedBytes
      BY <3>1, OutstandingFacts DEF Outstanding
    <3> QED
      BY <1>1, <2>5, <3>1, <3>2
  <2> QED
    BY <1>1, <2>4, <2>5, <2>6 DEF UsageFits
<1> QED
  BY <1>2, <1>3

(***************************************************************************)
(* A restart counts entries that were committed or reserved before.         *)
(***************************************************************************)
LEMMA CrashFits ==
  ASSUME FilesInv, BooksOK, ControllerInv, NEW d \in Nat, AccountsInv(d), UsageFits, Crash
  PROVE  BytesFit(0)' /\ UsageFits'
<1>1. /\ Total(Keys, EntryBytes) \in Nat /\ MaxInt \in Nat /\ DiskTypeOK
      /\ committedBytes \in 0..MaxInt /\ reservedBytes \in 0..MaxInt
  BY EntryBytesType, WidthAssumption DEF FilesInv, ControllerInv, ControllerTypeOK
<1>2. reservedBytes' = 0 /\ committedBytes' \in 0..MaxInt
  BY CrashLedger DEF Crash, FreshController, ControllerInv, ControllerTypeOK
<1>3. ASSUME HasController PROVE AllStoreBytes' + 0 <= MaxInt
  <2>1. AllStoreBytes' = Total(Keys, EntryBytes)
    <3>1. \A s \in Stores : bytes'[s] = ReconciledBytes(s)
      BY DEF Crash, FreshCounters
    <3> QED
      BY <1>1, <3>1, ReconciledAccounts DEF AllStoreBytes
  <2>2. Total(Keys, EntryBytes) + Total(Holders, InFlight) <= committedBytes + reservedBytes
    BY <1>3, AccountedUse DEF DiskUseIsAccounted
  <2>3. Total(Holders, InFlight) \in Nat
    <3>1. \A v \in Holders : InFlight[v] \in Nat
      BY WidthAssumption DEF InFlight, FilesInv, WritersTypeOK, Writers
    <3>2. IsFiniteSet(Holders)
      BY HoldersAssumption
    <3> QED
      BY <3>1, <3>2, TotalType
  <2> QED
    BY <1>1, <2>1, <2>2, <2>3 DEF UsageFits
<1>4. PICK c \in 0..MaxInt : c = committedBytes'
  BY <1>2
<1>5. c + 0 <= MaxInt
  BY <1>1
<1> QED
  BY <1>2, <1>3, <1>4, <1>5 DEF BytesFit, UsageFits

(***************************************************************************)
(* The collector only ever lowers what is committed.                        *)
(***************************************************************************)
LEMMA CollectorUsage ==
  ASSUME CollectionInv, UsageFits,
         CollectionStep \/ StartRun \/ CancelRun \/ UNCHANGED collectionVars
  PROVE  UsageFits'
<1>1. /\ committedBytes \in 0..MaxInt /\ reservedBytes \in 0..MaxInt /\ MaxInt \in Nat
      /\ gc.pending \in Nat
  BY DebtType, WidthAssumption DEF CollectionInv, ControllerInv, ControllerTypeOK
<1>2. UNCHANGED controllerVars \/ Remove(gc.pending)
  BY DEF CollectionStep, StartRun, CancelRun, storeVars, collectionVars, controllerVars,
     CollectByAge, CollectUnderPressure,
     LockStore, ListStore, AgeUnlink, AgeSkip, AgeUnlinkMeta, UnlockStore, ReportAge, AgeDone,
     TakeSnapshot, ListDone, EvictStale, EvictSkip, EvictUnlink, EvictUnlinkMeta, ReportEvicted,
     EvictDone, WalkFails, ListFails
<1>3. reservedBytes' = reservedBytes /\ committedBytes' \in Int /\ committedBytes' <= committedBytes
  BY <1>1, <1>2 DEF Remove, Max, controllerVars
<1> QED
  BY <1>1, <1>3, UsageLowered

LEMMA FitsStep ==
  ASSUME CollectionInv, CollectionInv', BooksOK, BooksOK', DebtInv, UsageFits, MaxBytes > 0,
         [CollectionNext]_collectionVars
  PROVE  DebtFits' /\ UsageFits'
<1>1. FilesInv /\ FilesInv' /\ ControllerInv /\ ControllerInv'
  BY DEF CollectionInv
<1>2. PICK d \in Nat : d = Debt
  BY DebtType DEF CollectionInv
<1>3. AccountsInv(d)
  BY <1>2 DEF DebtInv, AccountsInv, LedgerInv
<1>4. ASSUME NEW w \in Holders, Serve(w) \/ WriterStep(w) PROVE DebtFits' /\ UsageFits'
  <2>1. (Put(w) \/ PutStep(w)) /\ gc' = gc
    BY <1>4 DEF Serve, WriterStep
  <2>2. BytesFit(d)' /\ UsageFits'
    BY <1>1, <1>3, <2>1, WriterFits, WriterUsage
  <2> QED
    BY <1>2, <2>1, <2>2 DEF DebtFits, BytesFit, Debt
<1>5. CASE Restart
  <2>1. BytesFit(0)' /\ UsageFits'
    BY <1>1, <1>3, <1>5, CrashFits DEF Restart
  <2>2. Debt' = 0
    BY <1>5, StartedCollectionType DEF Restart, Debt
  <2> QED
    BY <2>1, <2>2 DEF DebtFits, BytesFit
<1>6. CASE CollectionStep \/ StartRun \/ CancelRun \/ UNCHANGED collectionVars
  <2>1. DebtInv' /\ UsageFits'
    BY <1>6, CollectorDebt, CollectorUsage
  <2>2. committedBytes' \in 0..MaxInt
    BY <1>1 DEF ControllerInv, ControllerTypeOK
  <2> QED
    BY <2>1, <2>2 DEF DebtFits, BytesFit, DebtInv, AccountsInv, LedgerInv
<1> QED
  BY <1>4, <1>5, <1>6 DEF CollectionNext

(***************************************************************************)
(* With a byte budget, every theorem above needs the bytes on disk to fit   *)
(* an int64 at the first start only: writes reserve within the budget,      *)
(* commits stay within their reservations, and a restart finds no more than *)
(* had been committed or reserved (controller.go:53-68, 83-97).             *)
(***************************************************************************)
THEOREM CollectionBytesFit ==
  ASSUME MaxBytes > 0
  PROVE  CollectionSpec /\ DebtFits => []DebtFits
<1>1. CollectionInit /\ DebtFits => DebtInv /\ UsageFits
  <2> SUFFICES ASSUME CollectionInit, DebtFits PROVE DebtInv /\ UsageFits
    OBVIOUS
  <2>1. DebtInv
    BY StartDebt
  <2>2. committedBytes \in 0..MaxInt /\ reservedBytes = 0
    BY StartLedger DEF CollectionInit, StoreInit, ControllerInv, ControllerTypeOK
  <2> QED
    BY <2>1, <2>2, WidthAssumption DEF UsageFits
<1>2. CollectionInv => BooksOK
  BY FilesBooks DEF CollectionInv
<1>3. CollectionInv /\ CollectionInv' /\ BooksOK /\ BooksOK' /\ DebtInv /\ UsageFits
        /\ [CollectionNext]_collectionVars
      => DebtFits' /\ UsageFits'
  BY FitsStep
<1>4. CollectionInv /\ CollectionInv' /\ BooksOK /\ BooksOK' /\ DebtInv /\ DebtFits'
        /\ [CollectionNext]_collectionVars
      => DebtInv'
  BY DebtStep
<1> QED
  BY <1>1, <1>2, <1>3, <1>4, CollectionInvariant, PTL DEF CollectionSpec

(***************************************************************************)
(* The same for the stores without a collector.                             *)
(***************************************************************************)
THEOREM StoreBytesFit ==
  ASSUME MaxBytes > 0
  PROVE  StoreSpec /\ BytesFit(0) => []BytesFit(0)
<1>1. StoreInit /\ BytesFit(0) => ControllerInv /\ AccountsInv(0) /\ UsageFits
  <2> SUFFICES ASSUME StoreInit, BytesFit(0) PROVE ControllerInv /\ AccountsInv(0) /\ UsageFits
    OBVIOUS
  <2>1. ControllerInv /\ AccountsInv(0)
    BY StartLedger, StartAccounts
  <2>2. committedBytes \in 0..MaxInt /\ reservedBytes = 0
    BY <2>1 DEF StoreInit, ControllerInv, ControllerTypeOK
  <2> QED
    BY <2>1, <2>2, WidthAssumption DEF UsageFits
<1>2. FilesInv => BooksOK
  BY FilesBooks
<1>3. FilesInv /\ FilesInv' /\ BooksOK /\ BooksOK' /\ ControllerInv /\ AccountsInv(0)
        /\ UsageFits /\ [StoreNext]_storeVars
      => BytesFit(0)' /\ UsageFits'
  <2> SUFFICES ASSUME FilesInv, FilesInv', BooksOK, BooksOK', ControllerInv, AccountsInv(0),
                      UsageFits, [StoreNext]_storeVars
               PROVE  BytesFit(0)' /\ UsageFits'
    OBVIOUS
  <2>1. 0 \in Nat
    OBVIOUS
  <2>2. ASSUME NEW w \in Holders, Put(w) \/ PutStep(w) PROVE BytesFit(0)' /\ UsageFits'
    <3>1. ControllerInv'
      BY <2>2, WriterLedger
    <3> QED
      BY <2>1, <2>2, <3>1, WriterFits, WriterUsage
  <2>3. CASE Crash
    BY <2>1, <2>3, CrashFits
  <2>4. CASE UNCHANGED storeVars \/ \E s \in Stores : CleanupStaleTemps(s)
    <3>1. UNCHANGED <<bytes, committedBytes, reservedBytes>>
      BY <2>4 DEF CleanupStaleTemps, counters, controllerVars, storeVars
    <3>2. BytesFit(0)
      BY DEF BytesFit, AccountsInv, LedgerInv, ControllerInv, ControllerTypeOK
    <3> QED
      BY <3>1, <3>2 DEF BytesFit, AllStoreBytes, UsageFits
  <2> QED
    BY <2>2, <2>3, <2>4 DEF StoreNext
<1>4. FilesInv /\ FilesInv' /\ BooksOK /\ BooksOK' /\ BytesFit(0)'
        /\ ControllerInv /\ AccountsInv(0) /\ [StoreNext]_storeVars
      => ControllerInv' /\ AccountsInv(0)'
  BY StoreStepAccounts
<1> QED
  BY <1>1, <1>2, <1>3, <1>4, StoreFiles, PTL DEF StoreSpec
=============================================================================
