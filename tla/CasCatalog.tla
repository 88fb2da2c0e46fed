----------------------------- MODULE CasCatalog -----------------------------
(***************************************************************************)
(* The pack catalog of the content-addressed store (crates/clew/src/cas.rs)*)
(*                                                                         *)
(* Packs are immutable data files.  Which packs the store consists of is   *)
(* decided by a journal: one ADD or REMOVE record file per change, each    *)
(* naming the digest of the one before it; a snapshot of the pack set; and *)
(* head.json, which names the snapshot that recovery starts from.  Several *)
(* processes hold the store open under a shared world lease, each with its *)
(* own in-memory catalog; the batch lock serialises every change; the      *)
(* collector works alone, under the exclusive lease.  A process may stop   *)
(* between any two file operations.                                        *)
(*                                                                         *)
(* A digest in the hash chain is represented by what it commits to: the    *)
(* whole sequence of operations up to that record.  A record file is       *)
(* therefore a non-empty journal, its sequence number is its length, and   *)
(* its previous digest is its front.                                       *)
(***************************************************************************)
EXTENDS Integers, Sequences, FiniteSets

CONSTANTS
  Procs,          \* processes that may hold the store open
  Packs,          \* packs (disjoint batches of objects)
  None,           \* absent file, free lock
  DueTail,        \* records after which a snapshot is due
  SnapshotLimit,  \* packs that fit in a snapshot of bounded size
  TailLimit,      \* records the recovery journal may hold for new ADDs
  MaxRecords,     \* bound of the model: length of the journal
  IoFaults        \* whether file operations may also fail with an error

Operations == [op : {"ADD", "REMOVE"}, pack : Packs]
Journals == Seq(Operations)
Snapshots == [last : Journals, packs : SUBSET Packs]
Markers == [base : Snapshots, sequence : Nat]

ASSUME CatalogAssumption ==
  /\ DueTail \in Nat \ {0} /\ SnapshotLimit \in Nat
  /\ TailLimit \in Nat /\ MaxRecords \in Nat
  /\ IoFaults \in BOOLEAN
  /\ None \notin Procs \cup Packs \cup Snapshots \cup Markers

VARIABLES
  snapshots,  \* catalog/snapshots: the snapshot files
  head,       \* catalog/head.json: the snapshot it names, or None
  records,    \* catalog/records: the record files
  marker,     \* catalog/deferred.json, or None
  data,       \* packs/*.pack
  index,      \* packs/*.json
  batch,      \* holder of the batch lock
  lease,      \* world lease of each process
  cat,        \* CatalogState of each process
  pc,         \* the step each process is at
  goal,       \* what the current synchronisation is for
  ret,        \* where snapshot maintenance returns to
  work,       \* pack being written or removed
  dead,       \* catalogued packs the collector still has to remove
  junk,       \* packs whose orphan files the collector still has to remove
  outcome,    \* result of the last call of each process
  acked,      \* packs put_batch reported stored to this open store
  journal,    \* history: every operation ever linked into the journal
  after       \* history: the pack set after 0, 1, 2 ... operations

disk == <<snapshots, head, records, marker, data, index>>
local == <<goal, ret, work, dead, junk, acked>>
history == <<journal, after>>
vars == <<disk, batch, lease, cat, pc, local, outcome, history>>

Uninitialized ==
  [initialized |-> FALSE, last |-> <<>>, packs |-> {}, snap |-> None, deferred |-> FALSE]

\* The state read back from a snapshot: nothing deferred, empty tail.
FromSnapshot(s) ==
  [initialized |-> TRUE, last |-> s.last, packs |-> s.packs, snap |-> s, deferred |-> FALSE]

SnapshotOf(c) == [last |-> c.last, packs |-> c.packs]

\* Records all weigh the same here, so the tail in bytes and the distance to
\* the snapshot in records are one measure.
TailOf(c) == Len(c.last) - Len(c.snap.last)
SnapshotDue(c) == TailOf(c) >= DueTail
Oversized(s) == Cardinality(s.packs) > SnapshotLimit

Apply(packs, o) == IF o.op = "ADD" THEN packs \cup {o.pack} ELSE packs \ {o.pack}

\* An ADD of a catalogued pack and a REMOVE of another one are both corrupt.
Applicable(packs, o) == (o.op = "ADD") <=> (o.pack \notin packs)

AppliedTo(c, o) == [c EXCEPT !.last = Append(c.last, o), !.packs = Apply(c.packs, o)]

\* The pack set the durable journal stands for.
Contents == after[Len(after)]

Goto(p, l) == pc' = [pc EXCEPT ![p] = l]
Return(p, o) == outcome' = [outcome EXCEPT ![p] = o]

-----------------------------------------------------------------------------

\* A store without catalog metadata; packs of the earlier layout, each with
\* its index, and stray data files may already be there.
Init ==
  /\ data \in SUBSET Packs
  /\ index \in SUBSET data
  /\ snapshots = {} /\ head = None /\ records = {} /\ marker = None
  /\ batch = None
  /\ lease = [p \in Procs |-> "none"]
  /\ cat = [p \in Procs |-> Uninitialized]
  /\ pc = [p \in Procs |-> "closed"]
  /\ goal = [p \in Procs |-> "open"]
  /\ ret = [p \in Procs |-> "load"]
  /\ work = [p \in Procs |-> None]
  /\ dead = [p \in Procs |-> {}]
  /\ junk = [p \in Procs |-> {}]
  /\ outcome = [p \in Procs |-> "none"]
  /\ acked = [p \in Procs |-> {}]
  /\ journal = <<>>
  /\ after = <<index>>

\* Everything a store holds goes with it: locks, lease and memory.
Vanish(p) ==
  /\ batch' = IF batch = p THEN None ELSE batch
  /\ lease' = [lease EXCEPT ![p] = "none"]
  /\ cat' = [cat EXCEPT ![p] = Uninitialized]
  /\ Goto(p, "closed")
  /\ goal' = [goal EXCEPT ![p] = "open"]
  /\ ret' = [ret EXCEPT ![p] = "load"]
  /\ work' = [work EXCEPT ![p] = None]
  /\ dead' = [dead EXCEPT ![p] = {}]
  /\ junk' = [junk EXCEPT ![p] = {}]
  /\ acked' = [acked EXCEPT ![p] = {}]

\* put_batch returns with result o: the batch lock is dropped, the store and
\* its in-memory catalog stay.
EndPut(p, o) ==
  /\ Return(p, o)
  /\ batch' = None
  /\ Goto(p, "open")
  /\ goal' = [goal EXCEPT ![p] = "open"]
  /\ work' = [work EXCEPT ![p] = None]
  /\ UNCHANGED <<lease, ret, dead, junk>>

\* An error ends an opening or a collection; it only ends the call of put_batch.
Fail(p, o) ==
  \/ /\ goal[p] = "put"
     /\ EndPut(p, o)
     /\ UNCHANGED <<cat, acked>>
  \/ /\ goal[p] # "put"
     /\ Vanish(p) /\ Return(p, o)

-----------------------------------------------------------------------------
(* Opening, closing, and what happens to a process at any time.            *)

\* CasStore::open takes the world lease shared ...
Open(p) ==
  /\ pc[p] = "closed"
  /\ \A q \in Procs : lease[q] # "exclusive"
  /\ lease' = [lease EXCEPT ![p] = "shared"]
  /\ Goto(p, "wait")
  /\ Return(p, "none")
  /\ UNCHANGED <<disk, batch, cat, local, history>>

\* Mutant: collection does not wait for the open stores.
OpenCollectorAmongReaders(p) ==
  /\ pc[p] = "closed"
  /\ \A q \in Procs : lease[q] # "exclusive"
  /\ lease' = [lease EXCEPT ![p] = "exclusive"]
  /\ goal' = [goal EXCEPT ![p] = "gc-open"]
  /\ Goto(p, "wait")
  /\ Return(p, "none")
  /\ UNCHANGED <<disk, batch, cat, ret, work, dead, junk, acked, history>>

\* ... and garbage_collect_storage takes it exclusively.
OpenCollector(p) ==
  /\ pc[p] = "closed"
  /\ \A q \in Procs : lease[q] = "none"
  /\ lease' = [lease EXCEPT ![p] = "exclusive"]
  /\ goal' = [goal EXCEPT ![p] = "gc-open"]
  /\ Goto(p, "wait")
  /\ Return(p, "none")
  /\ UNCHANGED <<disk, batch, cat, ret, work, dead, junk, acked, history>>

Close(p) ==
  /\ pc[p] = "open"
  /\ Vanish(p)
  /\ UNCHANGED <<disk, outcome, history>>

Crash(p) ==
  /\ pc[p] # "closed"
  /\ Vanish(p)
  /\ Return(p, "none")
  /\ UNCHANGED <<disk, history>>

\* Mutant: put_batch trusts its memory and does not synchronise.
LockBatchUnsynced(p) ==
  /\ pc[p] = "wait"
  /\ batch = None
  /\ batch' = p
  /\ Goto(p, IF goal[p] = "put" THEN "put" ELSE "sync")
  /\ UNCHANGED <<disk, lease, cat, local, outcome, history>>

LockBatch(p) ==
  /\ pc[p] = "wait"
  /\ batch = None
  /\ batch' = p
  /\ Goto(p, "sync")
  /\ UNCHANGED <<disk, lease, cat, local, outcome, history>>

-----------------------------------------------------------------------------
(* sync_catalog_locked: the in-memory catalog catches up with the disk.    *)

\* Without head.json any snapshot or record means the head was lost;
\* otherwise the packs of the earlier layout become the first snapshot.
SyncWithoutHead(p) ==
  /\ pc[p] = "sync" /\ head = None
  /\ IF snapshots # {} \/ records # {} \/ ~(index \subseteq data)
       THEN Fail(p, "corrupt")
       ELSE /\ Goto(p, "snapshot")
            /\ ret' = [ret EXCEPT ![p] = "load"]
            /\ UNCHANGED <<batch, lease, cat, goal, work, dead, junk, acked, outcome>>
  /\ UNCHANGED <<disk, history>>

SyncWithHead(p) ==
  /\ pc[p] = "sync" /\ head # None
  /\ Goto(p, "load")
  /\ UNCHANGED <<disk, batch, lease, cat, local, outcome, history>>

\* The head this process already knows must still name the same snapshot.
HeadChanged(c) ==
  /\ c.initialized
  /\ Len(head.last) = Len(c.snap.last)
  /\ c.snap # head

\* Mutant: a head that has overtaken the memory is not noticed.
NeedsSnapshotOnce(c) == ~c.initialized

NeedsSnapshot(c) == ~c.initialized \/ Len(head.last) > Len(c.last)

LoadSnapshot(p) ==
  /\ pc[p] = "load"
  /\ IF HeadChanged(cat[p]) \/ (NeedsSnapshot(cat[p]) /\ head \notin snapshots)
       THEN Fail(p, "corrupt")
       ELSE /\ cat' = IF NeedsSnapshot(cat[p])
                        THEN [cat EXCEPT ![p] = FromSnapshot(head)] ELSE cat
            /\ Goto(p, "replay")
            /\ UNCHANGED <<batch, lease, local, outcome>>
  /\ UNCHANGED <<disk, history>>

\* The record files beyond the in-memory sequence.
Unseen(c) == {r \in records : Len(r) > Len(c.last)}

\* r continues c: next sequence number, previous digest, applicable operation.
Continues(r, c) ==
  /\ Len(r) = Len(c.last) + 1
  /\ SubSeq(r, 1, Len(c.last)) = c.last
  /\ Applicable(c.packs, r[Len(r)])

ReplayRecord(p) ==
  /\ pc[p] = "replay"
  /\ \E r \in Unseen(cat[p]) :
       /\ \A s \in Unseen(cat[p]) : Len(r) <= Len(s)
       /\ IF Continues(r, cat[p])
            THEN /\ cat' = [cat EXCEPT ![p] = AppliedTo(cat[p], r[Len(r)])]
                 /\ UNCHANGED <<batch, lease, pc, local, outcome>>
            ELSE Fail(p, "corrupt")
  /\ UNCHANGED <<disk, history>>

\* load_catalog_deferred_locked: a marker the head covers is obsolete, any
\* other must name this head and lie within the journal.
MarkerObsolete == marker # None => marker.sequence <= Len(head.last)
MarkerFits(c) == marker.base = head /\ marker.sequence <= Len(c.last)

LoadDeferred(p) ==
  /\ pc[p] = "replay" /\ Unseen(cat[p]) = {}
  /\ IF MarkerObsolete \/ MarkerFits(cat[p])
       THEN /\ cat' = [cat EXCEPT ![p].deferred = ~MarkerObsolete]
            /\ Goto(p, "prune")
            /\ UNCHANGED <<batch, lease, local, outcome>>
       ELSE Fail(p, "corrupt")
  /\ UNCHANGED <<disk, history>>

\* Files the head makes redundant, removed one by one.
StaleSnapshots == snapshots \ {head}
\* Mutant: one record too many is pruned.
StaleRecordsTooMany == {r \in records : Len(r) <= Len(head.last) + 1}

StaleRecords == {r \in records : Len(r) <= Len(head.last)}
StaleIndexes(p) == index \cap cat[p].packs
Pruned(p) == StaleSnapshots = {} /\ StaleRecords = {} /\ StaleIndexes(p) = {}

PruneFile(p) ==
  /\ pc[p] \in {"prune", "clean"}
  /\ \/ \E s \in StaleSnapshots :
          snapshots' = snapshots \ {s} /\ UNCHANGED <<records, index>>
     \/ /\ StaleSnapshots = {}
        /\ \E r \in StaleRecords :
             records' = records \ {r} /\ UNCHANGED <<snapshots, index>>
     \/ /\ StaleSnapshots = {} /\ StaleRecords = {}
        /\ \E k \in StaleIndexes(p) :
             index' = index \ {k} /\ UNCHANGED <<snapshots, records>>
  /\ UNCHANGED <<head, marker, data, batch, lease, cat, pc, local, outcome, history>>

\* The synchronisation is over; who asked for it goes on.
SyncedForOpen(p) ==
  /\ pc[p] = "prune" /\ Pruned(p) /\ goal[p] = "open"
  /\ batch' = None
  /\ Goto(p, "open")
  /\ UNCHANGED <<disk, lease, cat, local, outcome, history>>

SyncedForPut(p) ==
  /\ pc[p] = "prune" /\ Pruned(p) /\ goal[p] = "put"
  /\ Goto(p, "put")
  /\ UNCHANGED <<disk, batch, lease, cat, local, outcome, history>>

-----------------------------------------------------------------------------
(* Snapshot maintenance.                                                   *)

Forced(p) == goal[p] = "gc-apply"

\* maybe_snapshot_catalog_locked: not due, or deferred already ...
SkipSnapshot(p) ==
  /\ pc[p] = "maybe"
  /\ ~Forced(p) /\ (cat[p].deferred \/ ~SnapshotDue(cat[p]))
  /\ Goto(p, ret[p])
  /\ UNCHANGED <<disk, batch, lease, cat, local, outcome, history>>

\* ... or too large: leave a marker that names the snapshot in memory ...
DeferSnapshot(p) ==
  /\ pc[p] = "maybe"
  /\ Forced(p) \/ (~cat[p].deferred /\ SnapshotDue(cat[p]))
  /\ Oversized(SnapshotOf(cat[p]))
  /\ marker' = [base |-> cat[p].snap, sequence |-> Len(cat[p].last)]
  /\ cat' = [cat EXCEPT ![p].deferred = TRUE]
  /\ Goto(p, ret[p])
  /\ UNCHANGED <<snapshots, head, records, data, index, batch, lease, local, outcome, history>>

\* ... or to be published.
BeginSnapshot(p) ==
  /\ pc[p] = "maybe"
  /\ Forced(p) \/ (~cat[p].deferred /\ SnapshotDue(cat[p]))
  /\ ~Oversized(SnapshotOf(cat[p]))
  /\ Goto(p, "snapshot")
  /\ UNCHANGED <<disk, batch, lease, cat, local, outcome, history>>

\* The snapshot under publication; the bootstrap one is read off the indexes.
Pending(p) ==
  IF cat[p].initialized THEN SnapshotOf(cat[p]) ELSE [last |-> <<>>, packs |-> index]

CreateSnapshot(p) ==
  /\ pc[p] = "snapshot"
  /\ snapshots' = snapshots \cup {Pending(p)}
  /\ Goto(p, "head")
  /\ UNCHANGED <<head, records, marker, data, index, batch, lease, cat, local, outcome, history>>

\* Replacing head.json commits the snapshot; the memory is rebuilt from it.
WriteHead(p) ==
  /\ pc[p] = "head"
  /\ head' = Pending(p)
  /\ cat' = [cat EXCEPT ![p] = FromSnapshot(Pending(p))]
  /\ Goto(p, "clean")
  /\ UNCHANGED <<snapshots, records, marker, data, index, batch, lease, local, outcome, history>>

\* Pruning done, the deferred marker goes last; failing to remove it is ignored.
RemoveMarker(p) ==
  /\ pc[p] = "clean" /\ Pruned(p)
  /\ marker' \in IF IoFaults THEN {None, marker} ELSE {None}
  /\ Goto(p, ret[p])
  /\ UNCHANGED <<snapshots, head, records, data, index, batch, lease, cat, local, outcome, history>>

-----------------------------------------------------------------------------
(* put_batch: the missing objects of a batch become one pack.              *)

PutBatch(p, k) ==
  /\ pc[p] = "open"
  /\ goal' = [goal EXCEPT ![p] = "put"]
  /\ work' = [work EXCEPT ![p] = k]
  /\ Goto(p, "wait")
  /\ UNCHANGED <<disk, batch, lease, cat, ret, dead, junk, acked, outcome, history>>

\* Mutant: an index file left by an earlier attempt counts as stored.
PutPresentByIndex(p) ==
  /\ pc[p] = "put" /\ work[p] \in cat[p].packs \cup index
  /\ EndPut(p, "ok")
  /\ acked' = [acked EXCEPT ![p] = @ \cup {work[p]}]
  /\ UNCHANGED <<disk, cat, history>>

\* Nothing is missing: the batch is read back from the catalogued pack.
PutPresent(p) ==
  /\ pc[p] = "put" /\ work[p] \in cat[p].packs
  /\ IF work[p] \in data
       THEN EndPut(p, "ok") /\ acked' = [acked EXCEPT ![p] = @ \cup {work[p]}]
       ELSE EndPut(p, "corrupt") /\ UNCHANGED acked
  /\ UNCHANGED <<disk, cat, history>>

RoomInTail(c) == TailOf(c) + 1 <= TailLimit

\* ensure_catalog_add_capacity_locked: a full recovery journal is first
\* compacted if that is possible, and otherwise refuses the ADD.
CheckCapacity(p) ==
  /\ pc[p] = "put" /\ work[p] \notin cat[p].packs
  /\ Len(cat[p].last) < MaxRecords
  /\ IF RoomInTail(cat[p])
       THEN Goto(p, "place") /\ UNCHANGED ret
       ELSE Goto(p, "maybe") /\ ret' = [ret EXCEPT ![p] = "capacity"]
  /\ UNCHANGED <<disk, batch, lease, cat, goal, work, dead, junk, acked, outcome, history>>

RecheckCapacity(p) ==
  /\ pc[p] = "capacity"
  /\ IF RoomInTail(cat[p])
       THEN /\ Goto(p, "place")
            /\ UNCHANGED <<batch, lease, local, outcome>>
       ELSE EndPut(p, "full") /\ UNCHANGED acked
  /\ UNCHANGED <<disk, cat, history>>

\* The sequence number cannot grow any further (here: the model's bound).
PutOverflow(p) ==
  /\ pc[p] = "put" /\ work[p] \notin cat[p].packs
  /\ Len(cat[p].last) >= MaxRecords
  /\ EndPut(p, "full")
  /\ UNCHANGED <<disk, cat, acked, history>>

\* write_pack installs the data file, then the index; either may be there
\* already, left by an earlier attempt.
PlaceData(p) ==
  /\ pc[p] = "place" /\ work[p] \notin data
  /\ data' = data \cup {work[p]}
  /\ UNCHANGED <<snapshots, head, records, marker, index, batch, lease, cat, pc, local, outcome, history>>

PlaceIndex(p) ==
  /\ pc[p] = "place" /\ work[p] \in data /\ work[p] \notin index
  /\ index' = index \cup {work[p]}
  /\ UNCHANGED <<snapshots, head, records, marker, data, batch, lease, cat, pc, local, outcome, history>>

VerifyPair(p) ==
  /\ pc[p] = "place" /\ work[p] \in data /\ work[p] \in index
  /\ Goto(p, "append")
  /\ UNCHANGED <<disk, batch, lease, cat, local, outcome, history>>

\* Linking the record file is the commit point of an ADD or a REMOVE.
LinkRecord(p, o) ==
  /\ records' = records \cup {Append(cat[p].last, o)}
  /\ journal' = Append(cat[p].last, o)
  /\ after' = Append(after, Apply(Contents, o))

AppendAdd(p) ==
  /\ pc[p] = "append"
  /\ LET o == [op |-> "ADD", pack |-> work[p]] IN
       /\ LinkRecord(p, o)
       /\ cat' = [cat EXCEPT ![p] = AppliedTo(cat[p], o)]
  /\ Goto(p, "maybe")
  /\ ret' = [ret EXCEPT ![p] = "tidy"]
  /\ UNCHANGED <<snapshots, head, marker, data, index, batch, lease, goal, work, dead, junk, acked, outcome>>

\* The catalog now carries the manifest; its index file is redundant.
FinishPut(p) ==
  /\ pc[p] = "tidy"
  /\ index' = index \ {work[p]}
  /\ acked' = [acked EXCEPT ![p] = @ \cup {work[p]}]
  /\ EndPut(p, "ok")
  /\ UNCHANGED <<snapshots, head, records, marker, data, cat, history>>

-----------------------------------------------------------------------------
(* garbage_collect_storage.                                                *)

\* Opened, the collector synchronises again to draw up its plan ...
CollectorOpened(p) ==
  /\ pc[p] = "prune" /\ Pruned(p) /\ goal[p] = "gc-open"
  /\ goal' = [goal EXCEPT ![p] = "gc-plan"]
  /\ batch' = None
  /\ Goto(p, "wait")
  /\ UNCHANGED <<disk, lease, cat, ret, work, dead, junk, acked, outcome, history>>

\* ... of packs no root reaches (any set of them) and of pack files that no
\* catalogued pack owns; and once more before it applies the plan.
DrawPlan(p) ==
  /\ pc[p] = "prune" /\ Pruned(p) /\ goal[p] = "gc-plan"
  /\ \E d \in SUBSET cat[p].packs :
       /\ Len(cat[p].last) + Cardinality(d) <= MaxRecords
       /\ dead' = [dead EXCEPT ![p] = d]
  /\ junk' = [junk EXCEPT ![p] = (data \cup index) \ cat[p].packs]
  /\ goal' = [goal EXCEPT ![p] = "gc-apply"]
  /\ batch' = None
  /\ Goto(p, "wait")
  /\ UNCHANGED <<disk, lease, cat, ret, work, acked, outcome, history>>

BeginCollect(p) ==
  /\ pc[p] = "prune" /\ Pruned(p) /\ goal[p] = "gc-apply"
  /\ Goto(p, "collect")
  /\ UNCHANGED <<disk, batch, lease, cat, local, outcome, history>>

\* A dead pack leaves the catalog before its files go.
AppendRemove(p) ==
  /\ pc[p] = "collect"
  /\ \E k \in dead[p] :
       /\ LinkRecord(p, [op |-> "REMOVE", pack |-> k])
       /\ cat' = [cat EXCEPT ![p] = AppliedTo(cat[p], [op |-> "REMOVE", pack |-> k])]
       /\ dead' = [dead EXCEPT ![p] = @ \ {k}]
       /\ work' = [work EXCEPT ![p] = k]
  /\ Goto(p, "delete")
  /\ UNCHANGED <<snapshots, head, marker, data, index, batch, lease, goal, ret, junk, acked, outcome>>

DeleteData(p) ==
  /\ pc[p] = "delete" /\ work[p] \in data
  /\ data' = data \ {work[p]}
  /\ UNCHANGED <<snapshots, head, records, marker, index, batch, lease, cat, pc, local, outcome, history>>

DeleteIndex(p) ==
  /\ pc[p] = "delete" /\ work[p] \notin data
  /\ index' = index \ {work[p]}
  /\ work' = [work EXCEPT ![p] = None]
  /\ Goto(p, "collect")
  /\ UNCHANGED <<snapshots, head, records, marker, data, batch, lease, cat, goal, ret, dead, junk, acked, outcome, history>>

DeleteOrphan(p) ==
  /\ pc[p] = "collect" /\ dead[p] = {}
  /\ \E k \in junk[p] :
       \/ /\ k \in data
          /\ data' = data \ {k}
          /\ UNCHANGED <<index, junk>>
       \/ /\ k \notin data
          /\ index' = index \ {k}
          /\ junk' = [junk EXCEPT ![p] = @ \ {k}]
          /\ UNCHANGED data
  /\ UNCHANGED <<snapshots, head, records, marker, batch, lease, cat, pc, goal, ret, work, dead, acked, outcome, history>>

\* One forced snapshot ends the collection.
CompactAfterCollect(p) ==
  /\ pc[p] = "collect" /\ dead[p] = {} /\ junk[p] = {}
  /\ ret' = [ret EXCEPT ![p] = "gc-done"]
  /\ Goto(p, "maybe")
  /\ UNCHANGED <<disk, batch, lease, cat, goal, work, dead, junk, acked, outcome, history>>

EndCollect(p) ==
  /\ pc[p] = "gc-done"
  /\ Vanish(p) /\ Return(p, "ok")
  /\ UNCHANGED <<disk, history>>

-----------------------------------------------------------------------------
(* File operations that report an error.                                   *)

WritePcs == {"prune", "clean", "snapshot", "head", "maybe", "place", "append",
             "tidy", "collect", "delete"}

\* The operation had no effect.
IoError(p) ==
  /\ IoFaults /\ pc[p] \in WritePcs
  /\ Fail(p, "io")
  /\ UNCHANGED <<disk, history>>

\* Mutant: the memory is updated before the record is linked.
IoErrorAfterMemory(p) ==
  /\ IoFaults /\ pc[p] = "append"
  /\ cat' = [cat EXCEPT ![p] = AppliedTo(cat[p], [op |-> "ADD", pack |-> work[p]])]
  /\ EndPut(p, "io")
  /\ UNCHANGED <<disk, acked, history>>

\* The record is linked, or the head replaced, but flushing the directory
\* fails: the disk has moved on and the memory has not.
IoErrorAfterRecord(p) ==
  /\ IoFaults /\ pc[p] = "append"
  /\ LinkRecord(p, [op |-> "ADD", pack |-> work[p]])
  /\ Fail(p, "io")
  /\ UNCHANGED <<snapshots, head, marker, data, index>>

IoErrorAfterHead(p) ==
  /\ IoFaults /\ pc[p] = "head"
  /\ head' = Pending(p)
  /\ Fail(p, "io")
  /\ UNCHANGED <<snapshots, records, marker, data, index, history>>

-----------------------------------------------------------------------------

Sync(p) ==
  \/ LockBatch(p) \/ SyncWithoutHead(p) \/ SyncWithHead(p) \/ LoadSnapshot(p)
  \/ ReplayRecord(p) \/ LoadDeferred(p) \/ PruneFile(p)
  \/ SyncedForOpen(p) \/ SyncedForPut(p)

Maintain(p) ==
  \/ SkipSnapshot(p) \/ DeferSnapshot(p) \/ BeginSnapshot(p)
  \/ CreateSnapshot(p) \/ WriteHead(p) \/ RemoveMarker(p)

Put(p) ==
  \/ PutPresent(p) \/ CheckCapacity(p) \/ RecheckCapacity(p) \/ PutOverflow(p)
  \/ PlaceData(p) \/ PlaceIndex(p) \/ VerifyPair(p) \/ AppendAdd(p) \/ FinishPut(p)

Collect(p) ==
  \/ CollectorOpened(p) \/ DrawPlan(p) \/ BeginCollect(p)
  \/ AppendRemove(p) \/ DeleteData(p) \/ DeleteIndex(p) \/ DeleteOrphan(p)
  \/ CompactAfterCollect(p) \/ EndCollect(p)

\* The steps a running process takes by itself ...
Work(p) == Sync(p) \/ Maintain(p) \/ Put(p) \/ Collect(p)

\* ... those its caller decides on, and what befalls it.
Call(p) == Open(p) \/ OpenCollector(p) \/ Close(p) \/ \E k \in Packs : PutBatch(p, k)
Fault(p) == Crash(p) \/ IoError(p) \/ IoErrorAfterRecord(p) \/ IoErrorAfterHead(p)

Next == \E p \in Procs : Work(p) \/ Call(p) \/ Fault(p)

Spec == Init /\ [][Next]_vars

-----------------------------------------------------------------------------

\* Type invariant: files, locks, in-memory catalogs and history have the shape
\* cas.rs gives them (head.json names a snapshot or is absent, and so on).
TypeOK ==
  /\ snapshots \subseteq Snapshots /\ head \in Snapshots \cup {None}
  /\ records \subseteq Journals /\ marker \in Markers \cup {None}
  /\ data \subseteq Packs /\ index \subseteq Packs
  /\ batch \in Procs \cup {None}
  /\ lease \in [Procs -> {"none", "shared", "exclusive"}]
  /\ cat \in [Procs -> [initialized : BOOLEAN, last : Journals, packs : SUBSET Packs,
                        snap : Snapshots \cup {None}, deferred : BOOLEAN]]
  /\ pc \in [Procs -> WritePcs \cup {"closed", "wait", "sync", "load", "replay",
                                     "open", "put", "capacity", "gc-done"}]
  /\ goal \in [Procs -> {"open", "put", "gc-open", "gc-plan", "gc-apply"}]
  /\ ret \in [Procs -> {"load", "capacity", "tidy", "gc-done"}]
  /\ work \in [Procs -> Packs \cup {None}]
  /\ dead \in [Procs -> SUBSET Packs] /\ junk \in [Procs -> SUBSET Packs]
  /\ outcome \in [Procs -> {"none", "ok", "full", "corrupt", "io"}]
  /\ acked \in [Procs -> SUBSET Packs]
  /\ journal \in Journals /\ after \in Seq(SUBSET Packs) \ {<<>>}

\* Every location an open store knows is backed by a data file, whatever other
\* processes did since it last synchronised (cas.rs:761-763: a known location
\* never needs a rescan to be read again).
KnownLocationsReadable ==
  \A p \in Procs : pc[p] # "replay" => cat[p].packs \subseteq data

\* The comment at cas.rs:844-845, for the threads that share the catalog of a
\* process: from the moment it is initialised, and except while replay holds
\* the write guard, it names no removed pack.
ReadersNeverSeeRemovedPacks ==
  \A p \in Procs :
    (cat[p].initialized /\ (pc[p] # "replay" \/ cat[p] = FromSnapshot(head)))
      => cat[p].packs \subseteq data

\* A pack that put_batch reported stored stays catalogued and readable for as
\* long as the store that reported it is open: no other writer, no crash and
\* no collection takes it away.
AckedPacksKept == \A p \in Procs : acked[p] \subseteq Contents \cap data

Prefix(n) == SubSeq(journal, 1, n)
InJournal(last) == Len(last) <= Len(journal) /\ last = Prefix(Len(last))

\* However far behind it is, and whichever snapshots and record tails it was
\* built from, the memory of each process is the pack set the journal stood
\* for at the sequence number it has reached.
MemoryIsAJournalState ==
  \A p \in Procs : cat[p].initialized =>
    /\ InJournal(cat[p].last)
    /\ cat[p].packs = after[Len(cat[p].last) + 1]

\* Once a head exists, recovery loses nothing: its snapshot is on disk and
\* right, and every later record is on disk, whatever pruning was under way
\* when a process stopped.
Recoverable ==
  head # None =>
    /\ head \in snapshots
    /\ InJournal(head.last)
    /\ head.packs = after[Len(head.last) + 1]
    /\ \A n \in Len(head.last) + 1 .. Len(journal) : Prefix(n) \in records
    /\ \A r \in records : InJournal(r)

\* The comment at cas.rs:1130-1132: an oversized snapshot is a matter of
\* maintenance and fails no command.  The deferral marker left on disk is one
\* that the next synchronisation of any process accepts.
DeferralMarkerAccepted ==
  (marker # None /\ head # None) =>
    MarkerObsolete \/ (marker.base = head /\ marker.sequence <= Len(journal))

\* No synchronisation ever reports a corrupt catalog, except when the very
\* first head was never written, or over a marker as above.
CorruptionExplained ==
  \A p \in Procs : outcome[p] = "corrupt" => head = None \/ ~DeferralMarkerAccepted

\* What the test next_catalog_sync_prunes_crash_orphan_metadata says: the
\* metadata a crash leaves behind is pruned by the next synchronisation, which
\* succeeds.
CrashOrphansNeverBlockSync == \A p \in Procs : outcome[p] # "corrupt"

\* Recovery never moves backwards: a new head covers at least the records the
\* old one covered, and the journal only ever grows at its end.
HeadAdvances ==
  [][/\ head # None => Len(head'.last) >= Len(head.last)
     /\ journal' # journal => SubSeq(journal', 1, Len(journal)) = journal]_vars

\* The catalog with its journal, snapshots, processes and crashes implements a
\* plain durable set of packs: an ADD or REMOVE takes effect at the instant its
\* record file is linked and at no other, and recovery is invisible.
Abstract == INSTANCE PackStore WITH store <- Contents, held <- acked
ImplementsPackStore == Abstract!Spec
=============================================================================
