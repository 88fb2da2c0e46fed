-------------------------- MODULE CasCatalogProofs --------------------------
(***************************************************************************)
(* Proofs about the pack catalog, for any number of processes and packs,   *)
(* any thresholds and journals of any length.                              *)
(***************************************************************************)
EXTENDS CasCatalog, TLAPS

CatalogStates ==
  [initialized : BOOLEAN, last : Journals, packs : SUBSET Packs,
   snap : Snapshots \cup {None}, deferred : BOOLEAN]

\* The type invariant in two parts, files and processes, for shorter proofs.
FilesOK ==
  /\ snapshots \subseteq Snapshots /\ head \in Snapshots \cup {None}
  /\ records \subseteq Journals /\ marker \in Markers \cup {None}
  /\ data \subseteq Packs /\ index \subseteq Packs
  /\ journal \in Journals /\ after \in Seq(SUBSET Packs) \ {<<>>}

ProcsOK ==
  /\ batch \in Procs \cup {None}
  /\ lease \in [Procs -> {"none", "shared", "exclusive"}]
  /\ cat \in [Procs -> CatalogStates]
  /\ pc \in [Procs -> WritePcs \cup {"closed", "wait", "sync", "load", "replay",
                                     "open", "put", "capacity", "gc-done"}]
  /\ goal \in [Procs -> {"open", "put", "gc-open", "gc-plan", "gc-apply"}]
  /\ ret \in [Procs -> {"load", "capacity", "tidy", "gc-done"}]
  /\ work \in [Procs -> Packs \cup {None}]
  /\ dead \in [Procs -> SUBSET Packs] /\ junk \in [Procs -> SUBSET Packs]
  /\ outcome \in [Procs -> {"none", "ok", "full", "corrupt", "io"}]
  /\ acked \in [Procs -> SUBSET Packs]

\* Where process p is, it has what it needs: put_batch names its pack, the
\* memory has been loaded, a head exists, the collector is the collector.
ReadyAt(p) ==
  /\ goal[p] = "put" => work[p] \in Packs /\ cat[p].initialized
  /\ pc[p] \in {"put", "capacity", "place", "append", "tidy"} => goal[p] = "put"
  /\ (pc[p] \in {"maybe", "snapshot", "head", "clean"} /\ ret[p] \in {"capacity", "tidy"})
       => goal[p] = "put"
  /\ (pc[p] \in {"maybe", "snapshot", "head", "clean"} /\ ret[p] = "gc-done")
       => goal[p] = "gc-apply"
  /\ pc[p] \in {"collect", "delete", "gc-done"} => goal[p] = "gc-apply"
  /\ pc[p] = "maybe" => ret[p] # "load"
  /\ pc[p] \in {"load", "replay", "prune", "clean"} => head # None
  /\ pc[p] \in {"replay", "prune", "open", "maybe", "collect", "delete", "clean"}
       => cat[p].initialized
  /\ cat[p].initialized => cat[p].snap # None

Ready == \A p \in Procs : ReadyAt(p)

TypeInv == FilesOK /\ ProcsOK /\ Ready

\* The two parts make up the type invariant.
LEMMA TypeInvImpliesTypeOK == TypeInv => TypeOK
BY DEF TypeInv, FilesOK, ProcsOK, TypeOK, CatalogStates

\* What CatalogState may become: unset, loaded from a snapshot, marked as
\* deferred, and what a snapshot of it is.
LEMMA StateTypes ==
  /\ Uninitialized \in CatalogStates /\ ~Uninitialized.initialized
  /\ \A s \in Snapshots :
       /\ FromSnapshot(s) \in CatalogStates
       /\ FromSnapshot(s).initialized /\ FromSnapshot(s).snap # None
  /\ \A c \in CatalogStates : SnapshotOf(c) \in Snapshots
  /\ \A c \in CatalogStates, b \in BOOLEAN :
       /\ [c EXCEPT !.deferred = b] \in CatalogStates
       /\ [c EXCEPT !.deferred = b].initialized = c.initialized
       /\ [c EXCEPT !.deferred = b].snap = c.snap
  /\ \A P \in SUBSET Packs, o \in Operations : Apply(P, o) \in SUBSET Packs
  /\ \A c \in CatalogStates, o \in Operations :
       /\ Append(c.last, o) \in Journals
       /\ AppliedTo(c, o) \in CatalogStates
       /\ AppliedTo(c, o).initialized = c.initialized
       /\ AppliedTo(c, o).snap = c.snap
<1> USE CatalogAssumption
<1>1. <<>> \in Journals
  BY DEF Journals
<1>2. \A P \in SUBSET Packs, o \in Operations : Apply(P, o) \in SUBSET Packs
  BY DEF Apply, Operations
<1>3. \A c \in CatalogStates, o \in Operations :
       /\ Append(c.last, o) \in Journals
       /\ AppliedTo(c, o) \in CatalogStates
       /\ AppliedTo(c, o).initialized = c.initialized
       /\ AppliedTo(c, o).snap = c.snap
  <2> SUFFICES ASSUME NEW c \in CatalogStates, NEW o \in Operations
               PROVE  /\ Append(c.last, o) \in Journals
                      /\ AppliedTo(c, o) \in CatalogStates
                      /\ AppliedTo(c, o).initialized = c.initialized
                      /\ AppliedTo(c, o).snap = c.snap
    OBVIOUS
  <2>1. Append(c.last, o) \in Journals
    BY DEF CatalogStates, Journals
  <2>2. Apply(c.packs, o) \in SUBSET Packs
    BY <1>2 DEF CatalogStates
  <2> QED
    BY <2>1, <2>2 DEF AppliedTo, CatalogStates
<1>4. \A c \in CatalogStates, b \in BOOLEAN :
       /\ [c EXCEPT !.deferred = b] \in CatalogStates
       /\ [c EXCEPT !.deferred = b].initialized = c.initialized
       /\ [c EXCEPT !.deferred = b].snap = c.snap
  BY DEF CatalogStates
<1> QED
  BY <1>1, <1>2, <1>3, <1>4 DEF Uninitialized, FromSnapshot, SnapshotOf, CatalogStates,
     Snapshots

\* A store before any process has opened it is well typed.
LEMMA TypeInit == Init => TypeInv
<1> SUFFICES ASSUME Init PROVE TypeInv
  OBVIOUS
<1> USE CatalogAssumption, StateTypes DEF Init
<1>1. FilesOK
  <2>1. <<>> \in Journals
    BY DEF Journals
  <2>2. after \in Seq(SUBSET Packs) \ {<<>>}
    OBVIOUS
  <2> QED
    BY <2>1, <2>2 DEF FilesOK
<1>2. ProcsOK
  BY DEF ProcsOK, WritePcs
<1>3. Ready
  BY DEF Ready, ReadyAt
<1> QED
  BY <1>1, <1>2, <1>3 DEF TypeInv

-----------------------------------------------------------------------------
(* What a step does to the files and to the other processes.               *)

\* Nothing of process q changes.
Same(q) ==
  /\ pc'[q] = pc[q] /\ lease'[q] = lease[q] /\ cat'[q] = cat[q] /\ goal'[q] = goal[q]
  /\ ret'[q] = ret[q] /\ work'[q] = work[q] /\ dead'[q] = dead[q] /\ junk'[q] = junk[q]
  /\ outcome'[q] = outcome[q] /\ acked'[q] = acked[q]

\* The three ways to change the journal and the head.
NewHead(p) ==
  /\ pc[p] = "head" /\ head' = Pending(p)
  /\ UNCHANGED <<snapshots, records, marker, data, index, history>>
LinksAdd(p) ==
  /\ pc[p] = "append" /\ LinkRecord(p, [op |-> "ADD", pack |-> work[p]])
  /\ UNCHANGED <<snapshots, head, marker, data, index>>
LinksRemove(p) ==
  /\ pc[p] = "collect"
  /\ \E k \in dead[p] : LinkRecord(p, [op |-> "REMOVE", pack |-> k])
  /\ UNCHANGED <<snapshots, head, marker, data, index>>

\* No file and no history changes.
Quiet == UNCHANGED <<disk, history>>

\* The steps that change files.
Writes(p) ==
  \/ PruneFile(p) \/ DeferSnapshot(p) \/ CreateSnapshot(p) \/ NewHead(p) \/ RemoveMarker(p)
  \/ PlaceData(p) \/ PlaceIndex(p) \/ LinksAdd(p) \/ FinishPut(p)
  \/ LinksRemove(p) \/ DeleteData(p) \/ DeleteIndex(p) \/ DeleteOrphan(p)

\* A process changes its own memory and steps only.
LEMMA OthersSame ==
  ASSUME TypeInv, NEW q \in Procs, NEW p \in Procs, Work(p) \/ Call(p) \/ Fault(p)
  PROVE  q # p => Same(q)
<1>1. CASE LockBatch(p) \/ SyncWithHead(p) \/ PruneFile(p) \/
          SyncedForOpen(p) \/ SyncedForPut(p)
  BY <1>1 DEF LockBatch, SyncWithHead, PruneFile, SyncedForOpen, SyncedForPut,
     Same, TypeInv, ProcsOK, Goto, Return, local
<1>2. CASE SyncWithoutHead(p) \/ LoadSnapshot(p) \/ ReplayRecord(p) \/
          LoadDeferred(p)
  BY <1>2 DEF SyncWithoutHead, LoadSnapshot, ReplayRecord, LoadDeferred, Fail,
     EndPut, Vanish, Same, TypeInv, ProcsOK, Goto, Return, local
<1>3. CASE SkipSnapshot(p) \/ DeferSnapshot(p) \/ BeginSnapshot(p) \/
          CreateSnapshot(p) \/ WriteHead(p) \/ RemoveMarker(p)
  BY <1>3 DEF SkipSnapshot, DeferSnapshot, BeginSnapshot, CreateSnapshot,
     WriteHead, RemoveMarker, Same, TypeInv, ProcsOK, Goto, Return, local
<1>4. CASE PutPresent(p) \/ PutOverflow(p) \/ RecheckCapacity(p) \/
          FinishPut(p)
  BY <1>4 DEF PutPresent, PutOverflow, RecheckCapacity, FinishPut, EndPut,
     Same, TypeInv, ProcsOK, Goto, Return, local
<1>5. CASE CheckCapacity(p) \/ PlaceData(p) \/ PlaceIndex(p) \/ VerifyPair(p)
          \/ AppendAdd(p)
  BY <1>5 DEF CheckCapacity, PlaceData, PlaceIndex, VerifyPair, AppendAdd,
     Same, TypeInv, ProcsOK, Goto, Return, local
<1>6. CASE CollectorOpened(p) \/ BeginCollect(p) \/ AppendRemove(p)
  BY <1>6 DEF CollectorOpened, BeginCollect, AppendRemove, Same, TypeInv,
     ProcsOK, Goto, Return, local
<1>7. CASE DrawPlan(p)
  BY <1>7 DEF DrawPlan, Same, TypeInv, ProcsOK, Goto, Return, local
<1>8. CASE DeleteData(p) \/ DeleteIndex(p) \/ DeleteOrphan(p) \/
          CompactAfterCollect(p)
  BY <1>8 DEF DeleteData, DeleteIndex, DeleteOrphan, CompactAfterCollect, Same,
     TypeInv, ProcsOK, Goto, Return, local
<1>9. CASE Open(p) \/ OpenCollector(p) \/ (\E k \in Packs : PutBatch(p, k))
  BY <1>9 DEF Open, OpenCollector, PutBatch, Same, TypeInv, ProcsOK, Goto,
     Return, local
<1>10. CASE EndCollect(p) \/ Crash(p) \/ Close(p)
  BY <1>10 DEF EndCollect, Crash, Close, Vanish, Same, TypeInv, ProcsOK, Goto,
     Return, local
<1>11. CASE IoError(p) \/ IoErrorAfterRecord(p) \/ IoErrorAfterHead(p)
  BY <1>11 DEF IoError, IoErrorAfterRecord, IoErrorAfterHead, Fail, EndPut,
     Vanish, Same, TypeInv, ProcsOK, Goto, Return, local
<1> QED
  BY <1>1, <1>2, <1>3, <1>4, <1>5, <1>6, <1>7, <1>8, <1>9, <1>10, <1>11 DEF
     Work, Sync, Maintain, Put, Collect, Call, Fault

\* A step leaves the files alone or is one of those that write.
LEMMA FilesChange ==
  ASSUME NEW p \in Procs, Work(p) \/ Call(p) \/ Fault(p)
  PROVE  Quiet \/ Writes(p)
<1>1. CASE LockBatch(p) \/ SyncWithoutHead(p) \/ SyncWithHead(p) \/
          LoadSnapshot(p) \/ ReplayRecord(p) \/ LoadDeferred(p) \/
          SyncedForOpen(p) \/ SyncedForPut(p) \/ SkipSnapshot(p) \/
          BeginSnapshot(p)
  BY <1>1 DEF LockBatch, SyncWithoutHead, SyncWithHead, LoadSnapshot,
     ReplayRecord, LoadDeferred, SyncedForOpen, SyncedForPut, SkipSnapshot,
     BeginSnapshot, Quiet
<1>2. CASE PutPresent(p) \/ CheckCapacity(p) \/ RecheckCapacity(p) \/
          PutOverflow(p) \/ VerifyPair(p) \/ CollectorOpened(p) \/
          DrawPlan(p) \/ BeginCollect(p) \/ CompactAfterCollect(p) \/
          EndCollect(p)
  BY <1>2 DEF PutPresent, CheckCapacity, RecheckCapacity, PutOverflow,
     VerifyPair, CollectorOpened, DrawPlan, BeginCollect, CompactAfterCollect,
     EndCollect, Quiet
<1>3. CASE Open(p) \/ OpenCollector(p) \/ Close(p) \/
          (\E k \in Packs : PutBatch(p, k)) \/ Crash(p) \/ IoError(p)
  BY <1>3 DEF Open, OpenCollector, Close, PutBatch, Crash, IoError, Quiet
<1>4. CASE WriteHead(p) \/ IoErrorAfterHead(p)
  BY <1>4 DEF WriteHead, IoErrorAfterHead, NewHead, Writes
<1>5. CASE AppendAdd(p) \/ IoErrorAfterRecord(p)
  BY <1>5 DEF AppendAdd, IoErrorAfterRecord, LinksAdd, Writes
<1>6. CASE AppendRemove(p)
  BY <1>6 DEF AppendRemove, LinksRemove, Writes
<1>7. CASE PruneFile(p) \/ DeferSnapshot(p) \/ CreateSnapshot(p) \/
          RemoveMarker(p) \/ PlaceData(p) \/ PlaceIndex(p) \/ FinishPut(p)
          \/ DeleteData(p) \/ DeleteIndex(p) \/ DeleteOrphan(p)
  BY <1>7 DEF Writes
<1> QED
  BY <1>1, <1>2, <1>3, <1>4, <1>5, <1>6, <1>7 DEF Work, Sync, Maintain, Put,
     Collect, Call, Fault

-----------------------------------------------------------------------------
(* Types.                                                                  *)

\* Between the call and the return of put_batch the pack to add is known.
LEMMA Putting ==
  ASSUME TypeInv, NEW p \in Procs, pc[p] \in {"put", "capacity", "place", "append", "tidy"}
  PROVE  goal[p] = "put" /\ work[p] \in Packs
BY DEF TypeInv, Ready, ReadyAt

\* A process that ends needs nothing any more.
LEMMA VanishTypes ==
  ASSUME TypeInv, NEW p \in Procs, Vanish(p),
         outcome' \in [Procs -> {"none", "ok", "full", "corrupt", "io"}]
  PROVE  ProcsOK' /\ ReadyAt(p)'
<1>1. ProcsOK'
  BY CatalogAssumption, StateTypes DEF TypeInv, Vanish, Goto, ProcsOK, WritePcs
<1>2. ReadyAt(p)'
  BY StateTypes DEF TypeInv, Vanish, Goto, ProcsOK, ReadyAt
<1> QED
  BY <1>1, <1>2

\* A call of put_batch that returns leaves an open store.
LEMMA EndPutTypes ==
  ASSUME TypeInv, NEW p \in Procs, NEW o \in {"ok", "full", "corrupt", "io"},
         goal[p] = "put", EndPut(p, o), UNCHANGED cat,
         acked' \in [Procs -> SUBSET Packs]
  PROVE  ProcsOK' /\ ReadyAt(p)'
<1>1. ProcsOK'
  BY CatalogAssumption DEF TypeInv, EndPut, Goto, Return, ProcsOK, WritePcs
<1>2. ReadyAt(p)'
  BY DEF TypeInv, EndPut, Goto, ProcsOK, Ready, ReadyAt
<1> QED
  BY <1>1, <1>2

\* An operation that fails does the one or the other.
LEMMA FailTypes ==
  ASSUME TypeInv, NEW p \in Procs, NEW o \in {"ok", "full", "corrupt", "io"}, Fail(p, o)
  PROVE  ProcsOK' /\ ReadyAt(p)'
<1>1. CASE goal[p] = "put"
  BY <1>1, EndPutTypes DEF Fail, TypeInv, ProcsOK
<1>2. CASE goal[p] # "put"
  BY <1>2, VanishTypes DEF Fail, Return, TypeInv, ProcsOK
<1> QED
  BY <1>1, <1>2

\* Linking a record keeps files and history well-formed.
LEMMA LinkTypes ==
  ASSUME TypeInv, NEW p \in Procs, NEW o \in Operations, LinkRecord(p, o),
         UNCHANGED <<snapshots, head, marker, data, index>>
  PROVE  FilesOK'
<1>1. Append(cat[p].last, o) \in Journals
  BY StateTypes DEF TypeInv, ProcsOK
<1>2. Contents \in SUBSET Packs
  BY DEF TypeInv, FilesOK, Contents
<1>3. Apply(Contents, o) \in SUBSET Packs
  BY <1>2, StateTypes
<1>4. after' \in Seq(SUBSET Packs) \ {<<>>}
  BY <1>3 DEF LinkRecord, TypeInv, FilesOK
<1> QED
  BY <1>1, <1>4 DEF LinkRecord, TypeInv, FilesOK

\* The snapshot that a process would write next is a snapshot.
LEMMA PendingType == ASSUME TypeInv, NEW p \in Procs PROVE Pending(p) \in Snapshots
<1>1. <<>> \in Journals
  BY DEF Journals
<1> QED
  BY <1>1, StateTypes DEF TypeInv, FilesOK, ProcsOK, Pending, Snapshots

\* A step that writes keeps the types of files and history, and a head that
\* was once written stays.
LEMMA FilesTypes ==
  ASSUME TypeInv, NEW p \in Procs, Quiet \/ Writes(p)
  PROVE  FilesOK' /\ (head # None => head' # None)
<1>1. CASE Quiet
  BY <1>1 DEF Quiet, disk, history, TypeInv, FilesOK
<1>2. CASE PruneFile(p) \/ RemoveMarker(p)
  BY <1>2 DEF PruneFile, RemoveMarker, history, TypeInv, FilesOK
<1>3. CASE PlaceData(p) \/ PlaceIndex(p) \/ FinishPut(p)
  BY <1>3 DEF PlaceData, PlaceIndex, FinishPut, history, TypeInv, FilesOK, Ready,
     ReadyAt
<1>4. CASE DeleteData(p) \/ DeleteIndex(p) \/ DeleteOrphan(p)
  BY <1>4 DEF DeleteData, DeleteIndex, DeleteOrphan, history, TypeInv, FilesOK
<1>5. CASE DeferSnapshot(p)
  <2>1. cat[p].snap \in Snapshots /\ Len(cat[p].last) \in Nat
    BY <1>5 DEF DeferSnapshot, TypeInv, ProcsOK, CatalogStates, Journals, Ready, ReadyAt
  <2> QED
    BY <1>5, <2>1 DEF DeferSnapshot, Markers, history, TypeInv, FilesOK
<1>6. CASE CreateSnapshot(p) \/ NewHead(p)
  BY <1>6, PendingType, CatalogAssumption DEF CreateSnapshot, NewHead, history, TypeInv,
     FilesOK
<1>7. CASE LinksAdd(p)
  <2>1. [op |-> "ADD", pack |-> work[p]] \in Operations
    BY <1>7 DEF LinksAdd, TypeInv, Ready, ReadyAt, Operations
  <2> QED
    BY <1>7, <2>1, LinkTypes DEF LinksAdd
<1>8. CASE LinksRemove(p)
  <2>1. \A k \in dead[p] : [op |-> "REMOVE", pack |-> k] \in Operations
    BY DEF TypeInv, ProcsOK, Operations
  <2> QED
    BY <1>8, <2>1, LinkTypes DEF LinksRemove
<1> QED
  BY <1>1, <1>2, <1>3, <1>4, <1>5, <1>6, <1>7, <1>8 DEF Writes

\* A step of a process keeps the types of all process state and leaves the
\* process with what it needs.
LEMMA ProcsStep ==
  ASSUME TypeInv, NEW p \in Procs, Work(p) \/ Call(p) \/ Fault(p)
  PROVE  ProcsOK' /\ ReadyAt(p)'
<1> USE DEF Goto, Return, disk, local
<1>1. CASE LockBatch(p) \/ SyncWithHead(p) \/ SyncedForOpen(p) \/
          SyncedForPut(p)
  <2>1. ProcsOK'
    BY <1>1 DEF LockBatch, SyncWithHead, SyncedForOpen, SyncedForPut, TypeInv,
       ProcsOK, WritePcs
  <2>2. ReadyAt(p)'
    BY <1>1 DEF LockBatch, SyncWithHead, SyncedForOpen, SyncedForPut, TypeInv,
       ProcsOK, Ready, ReadyAt
  <2> QED
    BY <2>1, <2>2
<1>2. CASE SyncWithoutHead(p)
  <2>1. CASE Fail(p, "corrupt")
    BY <2>1, FailTypes
  <2>2. CASE ~Fail(p, "corrupt")
    BY <1>2, <2>2 DEF SyncWithoutHead, TypeInv, ProcsOK, WritePcs, Ready,
       ReadyAt
  <2> QED
    BY <2>1, <2>2
<1>3. CASE LoadSnapshot(p)
  <2>1. CASE Fail(p, "corrupt")
    BY <2>1, FailTypes
  <2>2. CASE ~Fail(p, "corrupt")
    <3>1. head \in Snapshots /\ head # None
      BY <1>3 DEF LoadSnapshot, TypeInv, FilesOK, Ready, ReadyAt
    <3>2. /\ FromSnapshot(head) \in CatalogStates /\ FromSnapshot(head).initialized
          /\ FromSnapshot(head).snap # None
      BY <3>1, StateTypes
    <3>3. ProcsOK'
      BY <1>3, <2>2, <3>2 DEF LoadSnapshot, TypeInv, ProcsOK, WritePcs
    <3>4. ReadyAt(p)'
      BY <1>3, <2>2, <3>1, <3>2 DEF LoadSnapshot, NeedsSnapshot, TypeInv,
         ProcsOK, Ready, ReadyAt
    <3> QED
      BY <3>3, <3>4
  <2> QED
    BY <2>1, <2>2
<1>4. CASE ReplayRecord(p)
  <2>1. CASE Fail(p, "corrupt")
    BY <2>1, FailTypes
  <2>2. CASE ~Fail(p, "corrupt")
    <3>1. PICK r \in records :
            /\ Continues(r, cat[p])
            /\ cat' = [cat EXCEPT ![p] = AppliedTo(cat[p], r[Len(r)])]
            /\ UNCHANGED <<batch, lease, pc, local, outcome>>
      BY <1>4, <2>2 DEF ReplayRecord, Unseen
    <3>2. r[Len(r)] \in Operations
      <4>1. r \in Seq(Operations) /\ cat[p].last \in Seq(Operations)
        BY DEF TypeInv, FilesOK, ProcsOK, CatalogStates, Journals
      <4>2. Len(r) \in 1 .. Len(r)
        BY <3>1, <4>1 DEF Continues
      <4> QED
        BY <4>1, <4>2
    <3> DEFINE c == AppliedTo(cat[p], r[Len(r)])
    <3>3. c \in CatalogStates /\ c.initialized = cat[p].initialized /\ c.snap = cat[p].snap
      BY <3>2, StateTypes DEF TypeInv, ProcsOK
    <3>4. cat' = [cat EXCEPT ![p] = c] /\ head' = head
      BY <1>4, <3>1 DEF ReplayRecord
    <3> HIDE DEF c
    <3>5. ProcsOK'
      BY <3>1, <3>3, <3>4 DEF TypeInv, ProcsOK
    <3>6. ReadyAt(p)'
      BY <3>1, <3>3, <3>4 DEF TypeInv, ProcsOK, Ready, ReadyAt
    <3> QED
      BY <3>5, <3>6
  <2> QED
    BY <2>1, <2>2
<1>5. CASE LoadDeferred(p)
  <2>1. CASE Fail(p, "corrupt")
    BY <2>1, FailTypes
  <2>2. CASE ~Fail(p, "corrupt")
    <3> DEFINE c == [cat[p] EXCEPT !.deferred = ~MarkerObsolete]
    <3>1. c \in CatalogStates /\ c.initialized = cat[p].initialized /\ c.snap = cat[p].snap
      <4>1. cat[p] \in CatalogStates /\ (~MarkerObsolete) \in BOOLEAN
        BY DEF TypeInv, ProcsOK, MarkerObsolete
      <4>2. \A b \in BOOLEAN :
              /\ [cat[p] EXCEPT !.deferred = b] \in CatalogStates
              /\ [cat[p] EXCEPT !.deferred = b].initialized = cat[p].initialized
              /\ [cat[p] EXCEPT !.deferred = b].snap = cat[p].snap
        BY <4>1, StateTypes
      <4> QED
        BY <4>1, <4>2
    <3>2. /\ pc[p] = "replay" /\ cat' = [cat EXCEPT ![p] = c] /\ pc' = [pc EXCEPT ![p] = "prune"]
          /\ UNCHANGED <<disk, batch, lease, local, outcome, history>>
      BY <1>5, <2>2 DEF LoadDeferred
    <3> HIDE DEF c
    <3> QED
      BY <3>1, <3>2 DEF TypeInv, ProcsOK, WritePcs, Ready, ReadyAt
  <2> QED
    BY <2>1, <2>2
<1>6. CASE PruneFile(p) \/ PlaceData(p) \/ PlaceIndex(p) \/ DeleteData(p)
  <2>1. ProcsOK'
    BY <1>6 DEF PruneFile, PlaceData, PlaceIndex, DeleteData, TypeInv, ProcsOK,
       WritePcs
  <2>2. ReadyAt(p)'
    BY <1>6 DEF PruneFile, PlaceData, PlaceIndex, DeleteData, TypeInv, ProcsOK,
       Ready, ReadyAt
  <2> QED
    BY <2>1, <2>2
<1>7. CASE SkipSnapshot(p) \/ BeginSnapshot(p) \/ RemoveMarker(p)
  <2>1. ProcsOK'
    BY <1>7 DEF SkipSnapshot, BeginSnapshot, RemoveMarker, TypeInv, ProcsOK,
       WritePcs
  <2>2. ReadyAt(p)'
    BY <1>7, SMTT(30) DEF SkipSnapshot, BeginSnapshot, RemoveMarker, TypeInv,
       ProcsOK, Ready, ReadyAt
  <2> QED
    BY <2>1, <2>2
<1>8. CASE DeferSnapshot(p)
  <2> DEFINE c == [cat[p] EXCEPT !.deferred = TRUE]
  <2>1. c \in CatalogStates /\ c.initialized = cat[p].initialized /\ c.snap = cat[p].snap
    BY StateTypes DEF TypeInv, ProcsOK
  <2>2. /\ cat' = [cat EXCEPT ![p] = c] /\ pc[p] = "maybe" /\ pc' = [pc EXCEPT ![p] = ret[p]]
        /\ UNCHANGED <<head, batch, lease, goal, ret, work, dead, junk, outcome, acked>>
    BY <1>8 DEF DeferSnapshot
  <2> HIDE DEF c
  <2>3. ProcsOK'
    BY <2>1, <2>2 DEF TypeInv, ProcsOK, WritePcs
  <2>4. ReadyAt(p)'
    BY <2>1, <2>2, SMTT(30) DEF TypeInv, ProcsOK, Ready, ReadyAt
  <2> QED
    BY <2>3, <2>4
<1>9. CASE CreateSnapshot(p) \/ VerifyPair(p) \/ BeginCollect(p)
  <2>1. ProcsOK'
    BY <1>9 DEF CreateSnapshot, VerifyPair, BeginCollect, TypeInv, ProcsOK,
       WritePcs
  <2>2. ReadyAt(p)'
    BY <1>9 DEF CreateSnapshot, VerifyPair, BeginCollect, TypeInv, ProcsOK,
       Ready, ReadyAt
  <2> QED
    BY <2>1, <2>2
<1>10. CASE WriteHead(p)
  <2>1. /\ Pending(p) # None /\ FromSnapshot(Pending(p)) \in CatalogStates
        /\ FromSnapshot(Pending(p)).initialized /\ FromSnapshot(Pending(p)).snap # None
    BY PendingType, StateTypes, CatalogAssumption
  <2>2. ProcsOK'
    BY <1>10, <2>1 DEF WriteHead, TypeInv, ProcsOK, WritePcs
  <2>3. ReadyAt(p)'
    BY <1>10, <2>1 DEF WriteHead, TypeInv, ProcsOK, Ready, ReadyAt
  <2> QED
    BY <2>2, <2>3
<1>11. CASE PutPresent(p) \/ PutOverflow(p) \/ FinishPut(p)
  <2>1. goal[p] = "put" /\ work[p] \in Packs /\ UNCHANGED cat
    BY <1>11, Putting, Zenon DEF PutPresent, PutOverflow, FinishPut
  <2>2. acked' \in [Procs -> SUBSET Packs]
    BY <1>11, <2>1 DEF PutPresent, PutOverflow, FinishPut, TypeInv, ProcsOK
  <2> QED
    BY <1>11, <2>1, <2>2, EndPutTypes, Zenon DEF PutPresent, PutOverflow,
       FinishPut
<1>12. CASE CheckCapacity(p) \/ CompactAfterCollect(p)
  <2>1. ProcsOK'
    BY <1>12 DEF CheckCapacity, CompactAfterCollect, TypeInv, ProcsOK, WritePcs
  <2>2. ReadyAt(p)'
    BY <1>12, SMTT(30) DEF CheckCapacity, CompactAfterCollect, TypeInv,
       ProcsOK, Ready, ReadyAt
  <2> QED
    BY <2>1, <2>2
<1>13. CASE RecheckCapacity(p)
  <2>1. goal[p] = "put"
    BY <1>13, Putting, Zenon DEF RecheckCapacity
  <2>2. CASE RoomInTail(cat[p])
    BY <1>13, <2>1, <2>2 DEF RecheckCapacity, TypeInv, ProcsOK, WritePcs,
       Ready, ReadyAt
  <2>3. CASE ~RoomInTail(cat[p])
    <3>1. acked' \in [Procs -> SUBSET Packs]
      BY <1>13, <2>3 DEF RecheckCapacity, TypeInv, ProcsOK
    <3> QED
      BY <1>13, <2>1, <2>3, <3>1, EndPutTypes, Zenon DEF RecheckCapacity
  <2> QED
    BY <2>2, <2>3
<1>14. CASE AppendAdd(p)
  <2> DEFINE c == AppliedTo(cat[p], [op |-> "ADD", pack |-> work[p]])
  <2>1. c \in CatalogStates /\ c.initialized = cat[p].initialized /\ c.snap = cat[p].snap
    BY <1>14, StateTypes DEF AppendAdd, TypeInv, ProcsOK, Ready, ReadyAt,
       Operations
  <2>2. cat' = [cat EXCEPT ![p] = c]
    BY <1>14 DEF AppendAdd
  <2> HIDE DEF c
  <2>3. ProcsOK'
    BY <1>14, <2>1, <2>2 DEF AppendAdd, TypeInv, ProcsOK, WritePcs
  <2>4. ReadyAt(p)'
    BY <1>14, <2>1, <2>2, SMTT(30) DEF AppendAdd, TypeInv, ProcsOK, Ready,
       ReadyAt
  <2> QED
    BY <2>3, <2>4
<1>15. CASE CollectorOpened(p) \/ OpenCollector(p) \/ Open(p)
  <2>1. ProcsOK'
    BY <1>15 DEF CollectorOpened, OpenCollector, Open, TypeInv, ProcsOK,
       WritePcs
  <2>2. ReadyAt(p)'
    BY <1>15, SMTT(30) DEF CollectorOpened, OpenCollector, Open, TypeInv,
       ProcsOK, Ready, ReadyAt
  <2> QED
    BY <2>1, <2>2
<1>16. CASE DrawPlan(p)
  <2>1. PICK d \in SUBSET cat[p].packs : dead' = [dead EXCEPT ![p] = d]
    BY <1>16, Zenon DEF DrawPlan
  <2>2. dead' \in [Procs -> SUBSET Packs]
    <3>1. cat[p].packs \in SUBSET Packs /\ dead \in [Procs -> SUBSET Packs]
      BY DEF TypeInv, ProcsOK, CatalogStates
    <3> QED
      BY <2>1, <3>1
  <2>3. junk' \in [Procs -> SUBSET Packs]
    BY <1>16 DEF DrawPlan, TypeInv, FilesOK, ProcsOK
  <2>4. ProcsOK'
    BY <1>16, <2>2, <2>3, Zenon DEF DrawPlan, TypeInv, ProcsOK, WritePcs
  <2>5. ReadyAt(p)'
    BY <1>16, SMTT(30) DEF DrawPlan, TypeInv, ProcsOK, Ready, ReadyAt
  <2> QED
    BY <2>4, <2>5
<1>17. CASE AppendRemove(p)
  <2>1. PICK k \in dead[p] :
          /\ cat' = [cat EXCEPT ![p] = AppliedTo(cat[p], [op |-> "REMOVE", pack |-> k])]
          /\ dead' = [dead EXCEPT ![p] = @ \ {k}] /\ work' = [work EXCEPT ![p] = k]
    BY <1>17, Zenon DEF AppendRemove
  <2> DEFINE c == AppliedTo(cat[p], [op |-> "REMOVE", pack |-> k])
  <2>2. /\ k \in Packs /\ c \in CatalogStates
        /\ c.initialized = cat[p].initialized /\ c.snap = cat[p].snap
    BY StateTypes DEF TypeInv, ProcsOK, Operations
  <2>3. cat' = [cat EXCEPT ![p] = c]
    BY <2>1
  <2> HIDE DEF c
  <2>4. /\ pc[p] = "collect" /\ pc' = [pc EXCEPT ![p] = "delete"]
        /\ UNCHANGED <<head, batch, lease, goal, ret, junk, acked, outcome>>
    BY <1>17 DEF AppendRemove
  <2>5. ProcsOK'
    BY <2>1, <2>2, <2>3, <2>4 DEF TypeInv, ProcsOK, WritePcs
  <2>6. ReadyAt(p)'
    BY <2>1, <2>2, <2>3, <2>4, SMTT(30) DEF TypeInv, ProcsOK, Ready, ReadyAt
  <2> QED
    BY <2>5, <2>6
<1>18. CASE DeleteIndex(p) \/ DeleteOrphan(p)
  <2>1. ProcsOK'
    BY <1>18 DEF DeleteIndex, DeleteOrphan, TypeInv, ProcsOK, WritePcs
  <2>2. ReadyAt(p)'
    BY <1>18, SMTT(30) DEF DeleteIndex, DeleteOrphan, TypeInv, ProcsOK, Ready,
       ReadyAt
  <2> QED
    BY <2>1, <2>2
<1>19. CASE \E k \in Packs : PutBatch(p, k)
  <2>1. ProcsOK'
    BY <1>19 DEF PutBatch, TypeInv, ProcsOK, WritePcs
  <2>2. ReadyAt(p)'
    BY <1>19, SMTT(30) DEF PutBatch, TypeInv, ProcsOK, Ready, ReadyAt
  <2> QED
    BY <2>1, <2>2
<1>20. CASE EndCollect(p) \/ Crash(p) \/ Close(p)
  <2>1. Vanish(p) /\ outcome' \in [Procs -> {"none", "ok", "full", "corrupt", "io"}]
    BY <1>20 DEF EndCollect, Crash, Close, TypeInv, ProcsOK
  <2> QED
    BY <2>1, VanishTypes
<1>21. CASE IoError(p) \/ IoErrorAfterRecord(p) \/ IoErrorAfterHead(p)
  BY <1>21, FailTypes DEF IoError, IoErrorAfterRecord, IoErrorAfterHead
<1> QED
  BY <1>1, <1>2, <1>3, <1>4, <1>5, <1>6, <1>7, <1>8, <1>9, <1>10, <1>11, <1>12,
     <1>13, <1>14, <1>15, <1>16, <1>17, <1>18, <1>19, <1>20, <1>21 DEF Work,
     Sync, Maintain, Put, Collect, Call, Fault

\* No step of any process breaks the types.
LEMMA TypeStep == TypeInv /\ [Next]_vars => TypeInv'
<1>1. CASE TypeInv /\ UNCHANGED vars
  BY <1>1 DEF vars, disk, local, history, TypeInv, FilesOK, ProcsOK, Ready, ReadyAt
<1>2. ASSUME TypeInv, NEW p \in Procs, Work(p) \/ Call(p) \/ Fault(p) PROVE TypeInv'
  <2>1. FilesOK' /\ (head # None => head' # None)
    BY <1>2, FilesChange, FilesTypes
  <2>2. ProcsOK' /\ ReadyAt(p)'
    BY <1>2, ProcsStep
  <2>3. ASSUME NEW q \in Procs, q # p PROVE ReadyAt(q)'
    <3>1. Same(q) /\ ReadyAt(q)
      BY <1>2, <2>3, OthersSame DEF TypeInv, Ready
    <3> QED
      BY <2>1, <3>1 DEF Same, ReadyAt
  <2> QED
    BY <2>1, <2>2, <2>3 DEF TypeInv, Ready
<1> QED
  BY <1>1, <1>2, Zenon DEF Next

\* Files, locks, memories and history always have the shape the code gives
\* them, in every interleaving of writers, collectors, crashes and I/O errors.
THEOREM TypeCorrect == Spec => []TypeOK
<1>1. Spec => []TypeInv
  BY TypeInit, TypeStep, PTL DEF Spec
<1> QED
  BY <1>1, TypeInvImpliesTypeOK, PTL

-----------------------------------------------------------------------------
(* The locks.                                                              *)

\* Steps under the batch lock; those of them that follow the replay; snapshot
\* maintenance; what a collector is after.
Locked ==
  {"sync", "load", "replay", "prune", "maybe", "snapshot", "head", "clean", "put", "capacity",
   "place", "append", "tidy", "collect", "delete", "gc-done"}
UpToDate == Locked \ {"sync", "load", "replay"}
Maintenance == {"maybe", "snapshot", "head", "clean"}
Collection == {"gc-open", "gc-plan", "gc-apply"}

\* The batch lock, the world lease and what a process without the lease has.
LocksAt(p) ==
  /\ pc[p] \in Locked <=> batch = p
  /\ lease[p] = "none" <=> pc[p] = "closed"
  /\ lease[p] = "exclusive" <=> goal[p] \in Collection
  /\ acked[p] # {} => lease[p] = "shared"
  /\ pc[p] = "open" => goal[p] = "open"
  /\ pc[p] = "closed" => cat[p] = Uninitialized
  /\ \A q \in Procs : lease[p] = "exclusive" /\ q # p => lease[q] = "none"

Locks == \A p \in Procs : LocksAt(p)

\* A process that goes on under the batch lock changes no lock.
LEMMA LocksKept ==
  ASSUME TypeInv, Locks, NEW p \in Procs, pc[p] \in Locked, pc'[p] \in Locked,
         UNCHANGED <<batch, lease, goal, acked>>,
         \A q \in Procs : q # p => pc'[q] = pc[q] /\ cat'[q] = cat[q]
  PROVE  Locks'
BY DEF Locks, LocksAt, Locked

\* A process that ends gives back its locks, and nobody else's.
LEMMA VanishLocks ==
  ASSUME TypeInv, Locks, NEW p \in Procs, Vanish(p)
  PROVE  Locks'
<1> SUFFICES ASSUME NEW q \in Procs PROVE LocksAt(q)'
  BY DEF Locks
<1>1. CASE q = p
  BY <1>1, CatalogAssumption DEF Vanish, Goto, Locks, LocksAt, Locked, Collection,
     TypeInv, ProcsOK
<1>2. CASE q # p
  BY <1>2, CatalogAssumption DEF Vanish, Goto, Locks, LocksAt, TypeInv, ProcsOK
<1> QED
  BY <1>1, <1>2

\* put_batch, when it returns, gives back the batch lock and keeps the lease.
LEMMA EndPutLocks ==
  ASSUME TypeInv, Locks, NEW p \in Procs, NEW o, EndPut(p, o), goal[p] = "put", pc[p] \in Locked,
         UNCHANGED cat, \A q \in Procs : q # p => acked'[q] = acked[q]
  PROVE  Locks'
<1>1. batch = p /\ batch' = None /\ p # None /\ lease[p] = "shared" /\ UNCHANGED lease
  BY CatalogAssumption DEF EndPut, Locks, LocksAt, Locked, Collection, TypeInv, ProcsOK
<1> SUFFICES ASSUME NEW q \in Procs PROVE LocksAt(q)'
  BY DEF Locks
<1>2. CASE q = p
  BY <1>1, <1>2 DEF EndPut, Goto, Locks, LocksAt, Locked, Collection, TypeInv, ProcsOK
<1>3. CASE q # p
  BY <1>1, <1>3, CatalogAssumption DEF EndPut, Goto, Locks, LocksAt, TypeInv, ProcsOK
<1> QED
  BY <1>2, <1>3

\* A failure does the one or the other.
LEMMA FailLocks ==
  ASSUME TypeInv, Locks, NEW p \in Procs, NEW o, Fail(p, o), pc[p] \in Locked
  PROVE  Locks'
<1>1. CASE goal[p] = "put"
  BY <1>1, EndPutLocks DEF Fail
<1>2. CASE goal[p] # "put"
  BY <1>2, VanishLocks DEF Fail
<1> QED
  BY <1>1, <1>2

\* The batch lock has one holder, and the exclusive lease no company, after
\* every step.
LEMMA LocksStep ==
  ASSUME TypeInv, Locks, NEW p \in Procs, Work(p) \/ Call(p) \/ Fault(p)
  PROVE  Locks'
<1>a. \A q \in Procs : q # p => pc'[q] = pc[q] /\ cat'[q] = cat[q] /\ acked'[q] = acked[q]
  BY OthersSame, Zenon DEF Same
<1>1. CASE LockBatch(p) \/ SyncedForOpen(p)
  BY <1>1, CatalogAssumption, SMTT(30) DEF LockBatch, SyncedForOpen, Goto,
     local, TypeInv, ProcsOK, Locks, LocksAt, Locked, Collection
<1>2. CASE SyncWithoutHead(p) \/ LoadSnapshot(p) \/ ReplayRecord(p) \/
          LoadDeferred(p)
  <2>1. CASE Fail(p, "corrupt")
    BY <1>2, <2>1, FailLocks DEF SyncWithoutHead, LoadSnapshot, ReplayRecord,
       LoadDeferred, Locked
  <2>2. CASE ~Fail(p, "corrupt")
    BY <1>2, <2>2, SMTT(30) DEF SyncWithoutHead, LoadSnapshot, ReplayRecord,
       LoadDeferred, Goto, local, TypeInv, ProcsOK, Locks, LocksAt, Locked,
       Collection
  <2> QED
    BY <2>1, <2>2
<1>3. CASE SyncWithHead(p) \/ PruneFile(p) \/ SyncedForPut(p) \/
          BeginSnapshot(p) \/ CreateSnapshot(p)
  <2>1. pc[p] \in Locked /\ pc'[p] \in Locked /\ UNCHANGED <<batch, lease, goal, acked>>
    BY <1>3 DEF SyncWithHead, PruneFile, SyncedForPut, BeginSnapshot,
       CreateSnapshot, Goto, local, TypeInv, ProcsOK, Locked
  <2> QED
    BY <2>1, <1>a, LocksKept, Zenon
<1>4. CASE SkipSnapshot(p) \/ DeferSnapshot(p) \/ RemoveMarker(p)
  <2>1. pc[p] \in Locked /\ pc'[p] \in Locked /\ UNCHANGED <<batch, lease, goal, acked>>
    BY <1>4 DEF SkipSnapshot, DeferSnapshot, RemoveMarker, Goto, local,
       TypeInv, ProcsOK, Locked
  <2> QED
    BY <2>1, <1>a, LocksKept, Zenon
<1>5. CASE WriteHead(p) \/ AppendAdd(p)
  <2>1. pc[p] \in Locked /\ pc'[p] \in Locked /\ UNCHANGED <<batch, lease, goal, acked>>
    BY <1>5 DEF WriteHead, AppendAdd, Goto, local, TypeInv, ProcsOK, Locked
  <2> QED
    BY <2>1, <1>a, LocksKept, Zenon
<1>6. CASE AppendRemove(p)
  <2>1. pc[p] \in Locked /\ pc'[p] \in Locked /\ UNCHANGED <<batch, lease, goal, acked>>
    BY <1>6 DEF AppendRemove, Goto, local, TypeInv, ProcsOK, Locked
  <2> QED
    BY <2>1, <1>a, LocksKept, Zenon
<1>7. CASE CheckCapacity(p)
  <2>1. /\ pc[p] = "put" /\ UNCHANGED <<batch, lease, goal, acked>>
        /\ pc' = [pc EXCEPT ![p] = "place"] \/ pc' = [pc EXCEPT ![p] = "maybe"]
    BY <1>7, Zenon DEF CheckCapacity, Goto
  <2>2. pc[p] \in Locked /\ pc'[p] \in Locked
    BY <2>1 DEF TypeInv, ProcsOK, Locked
  <2> QED
    BY <2>1, <2>2, <1>a, LocksKept, Zenon
<1>8. CASE PlaceData(p) \/ PlaceIndex(p) \/ VerifyPair(p)
  <2>1. pc[p] \in Locked /\ pc'[p] \in Locked /\ UNCHANGED <<batch, lease, goal, acked>>
    BY <1>8 DEF PlaceData, PlaceIndex, VerifyPair, Goto, local, TypeInv,
       ProcsOK, Locked
  <2> QED
    BY <2>1, <1>a, LocksKept, Zenon
<1>9. CASE PutPresent(p) \/ PutOverflow(p) \/ FinishPut(p)
  <2>1. goal[p] = "put" /\ pc[p] \in Locked /\ UNCHANGED cat
    BY <1>9, Putting, Zenon DEF PutPresent, PutOverflow, FinishPut, Locked
  <2> QED
    BY <1>9, <2>1, <1>a, EndPutLocks, Zenon DEF PutPresent, PutOverflow,
       FinishPut
<1>10. CASE RecheckCapacity(p)
  <2>1. goal[p] = "put" /\ pc[p] \in Locked /\ UNCHANGED cat
    BY <1>10, Putting, Zenon DEF RecheckCapacity, Locked
  <2>2. CASE RoomInTail(cat[p])
    <3>1. pc'[p] \in Locked /\ UNCHANGED <<batch, lease, goal, acked>>
      BY <1>10, <2>2 DEF RecheckCapacity, Goto, local, TypeInv, ProcsOK, Locked
    <3> QED
      BY <2>1, <3>1, <1>a, LocksKept, Zenon
  <2>3. CASE ~RoomInTail(cat[p])
    BY <1>10, <2>1, <2>3, EndPutLocks, Zenon DEF RecheckCapacity
  <2> QED
    BY <2>2, <2>3
<1>11. CASE CollectorOpened(p) \/ DrawPlan(p)
  <2>1. /\ pc[p] = "prune" /\ pc' = [pc EXCEPT ![p] = "wait"] /\ batch' = None
        /\ goal[p] \in Collection /\ UNCHANGED <<lease, cat, acked>>
        /\ goal' = [goal EXCEPT ![p] = "gc-plan"] \/ goal' = [goal EXCEPT ![p] = "gc-apply"]
    BY <1>11, Zenon DEF CollectorOpened, DrawPlan, Goto, Collection
  <2> QED
    BY <2>1, CatalogAssumption DEF TypeInv, ProcsOK, Locks, LocksAt, Locked,
       Collection
<1>12. CASE BeginCollect(p) \/ DeleteData(p) \/ DeleteIndex(p) \/
          DeleteOrphan(p) \/ CompactAfterCollect(p)
  <2>1. pc[p] \in Locked /\ pc'[p] \in Locked /\ UNCHANGED <<batch, lease, goal, acked>>
    BY <1>12 DEF BeginCollect, DeleteData, DeleteIndex, DeleteOrphan,
       CompactAfterCollect, Goto, local, TypeInv, ProcsOK, Locked
  <2> QED
    BY <2>1, <1>a, LocksKept, Zenon
<1>13. CASE Open(p) \/ OpenCollector(p) \/ (\E k \in Packs : PutBatch(p, k))
  BY <1>13, SMTT(30) DEF Open, OpenCollector, PutBatch, Goto, local, TypeInv,
     ProcsOK, Locks, LocksAt, Locked, Collection
<1>14. CASE EndCollect(p) \/ Crash(p) \/ Close(p)
  BY <1>14, VanishLocks DEF EndCollect, Crash, Close
<1>15. CASE IoError(p) \/ IoErrorAfterRecord(p) \/ IoErrorAfterHead(p)
  BY <1>15, FailLocks DEF IoError, IoErrorAfterRecord, IoErrorAfterHead,
     WritePcs, Locked
<1> QED
  BY <1>1, <1>2, <1>3, <1>4, <1>5, <1>6, <1>7, <1>8, <1>9, <1>10, <1>11, <1>12,
     <1>13, <1>14, <1>15 DEF Work, Sync, Maintain, Put, Collect, Call, Fault


\* At most one process is under the batch lock.
LEMMA OneHolder ==
  ASSUME Locks, NEW p \in Procs, NEW q \in Procs, pc[p] \in Locked, q # p
  PROVE  pc[q] \notin Locked
BY DEF Locks, LocksAt

\* A collector is alone: no other store is open, remembers or was promised anything.
LEMMA CollectorAlone ==
  ASSUME TypeInv, Locks, NEW p \in Procs, NEW q \in Procs, goal[p] \in Collection, q # p
  PROVE  pc[q] = "closed" /\ cat[q] = Uninitialized /\ acked[q] = {}
BY DEF Locks, LocksAt
=============================================================================
