------------------------ MODULE CasCatalogRefinement ------------------------
(***************************************************************************)
(* The theorems about the pack catalog, for any number of processes and    *)
(* packs, any thresholds and journals of any length: what every process    *)
(* remembers and was promised stays right, what is on disk can be          *)
(* recovered, and the catalog implements PackStore.                        *)
(***************************************************************************)
EXTENDS CasCatalogRecovery

-----------------------------------------------------------------------------
(* What a process knows after a step of its own.                           *)

\* A process that ends knows nothing.
LEMMA VanishOwn ==
  ASSUME Inv, NEW p \in Procs, Vanish(p)
  PROVE  MemoryAt(p)' /\ HoldsAt(p)'
<1>1. /\ cat'[p] = Uninitialized /\ pc'[p] = "closed" /\ goal'[p] = "open" /\ acked'[p] = {}
  BY DEF Vanish, Goto, Inv, TypeInv, ProcsOK
<1> QED
  BY <1>1 DEF MemoryAt, HoldsAt, Adding, Added, Uninitialized, UpToDate, Locked,
     Maintenance

\* A process whose memory stays as it is keeps what it knows of the files.
LEMMA SameMemory ==
  ASSUME Inv, NEW p \in Procs, Quiet \/ Writes(p),
         cat'[p].initialized => cat[p].initialized, cat'[p].last = cat[p].last,
         cat'[p].packs = cat[p].packs, cat'[p].snap = cat[p].snap,
         pc[p] # "replay" \/ cat[p].packs \subseteq data, data \subseteq data',
         acked'[p] \subseteq Contents'
  PROVE  MemoryAt(p)'
<1>1. cat'[p].initialized => head' # None /\ Faithful(cat[p])' /\ Faithful(cat[p].snap)'
  BY KeepsFaithful
<1>2. cat'[p].packs \subseteq data'
  BY DEF Inv, Memories, MemoryAt
<1> QED
  BY <1>1, <1>2 DEF MemoryAt

\* A call of put_batch that returns leaves the memory in order.
LEMMA EndPutOwn ==
  ASSUME Inv, NEW p \in Procs, NEW o, Quiet \/ Writes(p), EndPut(p, o), goal[p] = "put",
         UNCHANGED cat,
         pc[p] # "replay" \/ cat[p].packs \subseteq data, acked'[p] \subseteq Contents'
  PROVE  MemoryAt(p)' /\ HoldsAt(p)'
<1>1. pc'[p] = "open" /\ goal'[p] = "open"
  BY DEF EndPut, Goto, Inv, TypeInv, ProcsOK
<1>2. data \subseteq data'
  BY OnlyCollectionsRemove DEF Collection
<1>3. MemoryAt(p)'
  BY <1>2, SameMemory
<1> QED
  BY <1>1, <1>3 DEF HoldsAt, Adding, Added, UpToDate, Locked, Maintenance

\* So does a failure.
LEMMA FailOwn ==
  ASSUME Inv, NEW p \in Procs, NEW o, Quiet \/ Writes(p), Fail(p, o),
         pc[p] # "replay" \/ cat[p].packs \subseteq data
  PROVE  MemoryAt(p)' /\ HoldsAt(p)'
<1>1. CASE goal[p] = "put"
  <2>1. acked'[p] \subseteq Contents'
    <3>1. acked[p] \subseteq Contents /\ acked' = acked
      BY <1>1 DEF Fail, Inv, Memories, MemoryAt
    <3> QED
      BY <1>1, <3>1, OnlyCollectionsRemove DEF Collection
  <2> QED
    BY <1>1, <2>1, EndPutOwn DEF Fail
<1>2. CASE goal[p] # "put"
  BY <1>2, VanishOwn DEF Fail
<1> QED
  BY <1>1, <1>2

\* A record applied to a memory changes its end and its packs only.
LEMMA AppliedFields ==
  ASSUME Inv, NEW p \in Procs, NEW o \in Operations, NEW c, c = AppliedTo(cat[p], o)
  PROVE  /\ c.last = Append(cat[p].last, o) /\ c.packs = Apply(cat[p].packs, o)
         /\ c.initialized = cat[p].initialized /\ c.snap = cat[p].snap
<1>1. cat[p] \in CatalogStates
  BY DEF Inv, TypeInv, ProcsOK
<1> QED
  BY <1>1 DEF AppliedTo, CatalogStates

\* A memory at the end of the journal, with the packs in force, is faithful.
LEMMA CurrentMemory ==
  ASSUME TypeInv', History', NEW p \in Procs, cat'[p].last = journal', cat'[p].packs = Contents'
  PROVE  Faithful(cat[p])'
<1>1. journal' \in Journals /\ Len(journal') \in Nat
  BY DEF TypeInv, FilesOK, Journals
<1>2. SubSeq(journal', 1, Len(journal')) = journal'
  BY <1>1, WholePrefix
<1>3. Contents' = after'[Len(journal') + 1]
  BY DEF History, Contents
<1> QED
  BY <1>1, <1>2, <1>3 DEF Faithful, InJournal, Prefix

\* What was promised to an open store it keeps.
LEMMA PromisesKept ==
  ASSUME Inv, NEW p \in Procs, Quiet \/ Writes(p)
  PROVE  acked[p] \subseteq Contents'
<1>1. CASE goal[p] \in Collection
  BY <1>1 DEF Inv, Locks, LocksAt
<1>2. CASE goal[p] \notin Collection
  BY <1>2, OnlyCollectionsRemove DEF Inv, Memories, MemoryAt
<1> QED
  BY <1>1, <1>2

\* Memory and promises as before the step are still right after it.
LEMMA MemoryKept ==
  ASSUME Inv, NEW p \in Procs, Quiet \/ Writes(p), UNCHANGED <<cat, acked>>, pc[p] # "replay",
         data \subseteq data'
  PROVE  MemoryAt(p)'
BY SameMemory, PromisesKept

\* A step of a process leaves its own memory faithful, and in agreement with
\* the disk where it must agree.
LEMMA OwnStep ==
  ASSUME Inv, NEW p \in Procs, Work(p) \/ Call(p) \/ Fault(p)
  PROVE  MemoryAt(p)' /\ HoldsAt(p)'
<1>1. CASE LockBatch(p) \/ SyncWithHead(p) \/ SyncedForOpen(p)
  <2>1. /\ Quiet /\ UNCHANGED <<cat, acked, data, journal>> /\ pc[p] # "replay"
        /\ pc'[p] \in {"sync", "load", "open"} /\ UNCHANGED <<goal, dead, junk>>
    BY <1>1 DEF LockBatch, SyncWithHead, SyncedForOpen, Quiet, disk, local,
       history, Goto, Inv, TypeInv, ProcsOK
  <2>2. HoldsAt(p)'
    BY <2>1 DEF Inv, Holds, HoldsAt, Adding, Added, UpToDate, Locked,
       Maintenance
  <2> QED
    BY <2>1, <2>2, MemoryKept
<1>2. CASE SyncWithoutHead(p)
  <2>1. CASE Fail(p, "corrupt")
    BY <1>2, <2>1, FailOwn DEF SyncWithoutHead, Quiet
  <2>2. CASE ~Fail(p, "corrupt")
    <3>1. MemoryAt(p)'
      BY <1>2, <2>2, SameMemory DEF SyncWithoutHead, Quiet, Inv, Memories,
         MemoryAt, history, Contents, disk
    <3>2. ~cat[p].initialized
      BY <1>2 DEF SyncWithoutHead, Inv, Memories, MemoryAt
    <3>3. HoldsAt(p)'
      BY <1>2, <2>2, <3>2 DEF SyncWithoutHead, Goto, Return, disk, local,
         history, Quiet, Inv, TypeInv, ProcsOK, Ready, ReadyAt, Holds, HoldsAt,
         Adding, Added, UpToDate, Locked, Maintenance, Collection, Pending
    <3> QED
      BY <3>1, <3>3
  <2> QED
    BY <2>1, <2>2
<1>3. CASE LoadSnapshot(p)
  <2>1. CASE Fail(p, "corrupt")
    BY <1>3, <2>1, FailOwn DEF LoadSnapshot, Quiet
  <2>2. CASE ~Fail(p, "corrupt")
    <3>1. /\ pc[p] = "load" /\ pc'[p] = "replay"
          /\ UNCHANGED <<head, data, journal, after, goal, ret, work, dead, junk, acked>>
      BY <1>3, <2>2 DEF LoadSnapshot, Goto, disk, local, history, Inv, TypeInv,
         ProcsOK
    <3>2. /\ head \in Snapshots /\ head # None /\ head.last \in Journals /\ InJournal(head.last)
          /\ head.packs = after[Len(head.last) + 1] /\ Len(head.last) \in Nat /\ Len(journal) \in Nat
      BY <3>1 DEF Inv, TypeInv, FilesOK, Ready, ReadyAt, Snapshots, Disk,
         Recoverable, Journals
    <3>3. acked[p] \subseteq Contents'
      BY <3>1 DEF Inv, Memories, MemoryAt, Contents
    <3>4. CASE NeedsSnapshot(cat[p])
      <4>1. cat'[p] = FromSnapshot(head)
        BY <1>3, <2>2, <3>4 DEF LoadSnapshot, Inv, TypeInv, ProcsOK
      <4>2. /\ cat'[p].initialized /\ cat'[p].last = head.last /\ cat'[p].packs = head.packs
            /\ cat'[p].snap = head
        BY <4>1 DEF FromSnapshot
      <4>3. MemoryAt(p)'
        BY <3>1, <3>2, <3>3, <4>2, Zenon DEF MemoryAt, Faithful, InJournal, Prefix
      <4>4. goal[p] \notin {"gc-plan", "gc-apply"}
        BY <3>2, <3>4 DEF NeedsSnapshot, Inv, Holds, HoldsAt, InJournal
      <4>5. HoldsAt(p)'
        BY <3>1, <3>2, <4>2, <4>4 DEF Holds, HoldsAt, Adding, Added, UpToDate,
           Locked, Maintenance
      <4> QED
        BY <4>3, <4>5
    <3>5. CASE ~NeedsSnapshot(cat[p])
      <4>1. cat' = cat /\ cat[p].initialized /\ ~(Len(head.last) > Len(cat[p].last))
        BY <1>3, <2>2, <3>5 DEF LoadSnapshot, NeedsSnapshot
      <4>2. MemoryAt(p)'
        BY <1>3, <3>1, <3>3, <4>1, SameMemory, Zenon DEF LoadSnapshot, Quiet
      <4>3. Len(cat[p].last) \in Nat
        BY DEF Inv, TypeInv, ProcsOK, CatalogStates, Journals
      <4>4. HoldsAt(p)'
        BY <3>1, <3>2, <4>1, <4>3 DEF Inv, Holds, HoldsAt, Adding, Added,
           UpToDate, Locked, Maintenance
      <4> QED
        BY <4>2, <4>4
    <3> QED
      BY <3>4, <3>5
  <2> QED
    BY <2>1, <2>2, Zenon
<1>4. CASE ReplayRecord(p)
  <2>1. PICK r \in Unseen(cat[p]) :
          /\ \A t \in Unseen(cat[p]) : Len(r) <= Len(t)
          /\ IF Continues(r, cat[p])
               THEN /\ cat' = [cat EXCEPT ![p] = AppliedTo(cat[p], r[Len(r)])]
                    /\ UNCHANGED <<batch, lease, pc, local, outcome>>
               ELSE Fail(p, "corrupt")
    BY <1>4 DEF ReplayRecord
  <2>2. /\ Continues(r, cat[p]) /\ r[Len(r)] \in Operations /\ Append(cat[p].last, r[Len(r)]) = r
        /\ InJournal(r) /\ Apply(cat[p].packs, r[Len(r)]) = after[Len(r) + 1]
    BY <1>4, <2>1, ReplayFacts DEF ReplayRecord
  <2>3. /\ pc[p] = "replay" /\ UNCHANGED <<head, data, journal, after, pc, goal, ret, work, dead, junk, acked>>
    BY <1>4, <2>1, <2>2 DEF ReplayRecord, disk, local, history
  <2>4. /\ cat'[p].last = r /\ cat'[p].packs = after[Len(r) + 1]
        /\ cat'[p].initialized = cat[p].initialized /\ cat'[p].snap = cat[p].snap
    <3>1. cat'[p] = AppliedTo(cat[p], r[Len(r)]) /\ cat[p] \in CatalogStates
      BY <2>1, <2>2 DEF Inv, TypeInv, ProcsOK
    <3> QED
      BY <2>2, <3>1, AppliedFields, Zenon
  <2>5. MemoryAt(p) /\ cat[p].initialized /\ head # None
    BY <2>3 DEF Inv, Memories, TypeInv, Ready, ReadyAt
  <2>6. MemoryAt(p)'
    BY <2>2, <2>3, <2>4, <2>5 DEF MemoryAt, Faithful, InJournal, Prefix,
       Contents
  <2>7. /\ Len(r) \in Nat /\ Len(cat[p].last) \in Nat /\ Len(head.last) \in Nat /\ Len(journal) \in Nat
        /\ Len(r) = Len(cat[p].last) + 1 /\ Len(r) <= Len(journal)
    BY <2>2, <2>5
       DEF Continues, InJournal, Inv, TypeInv, FilesOK, ProcsOK, CatalogStates,
           Journals, Unseen, Snapshots
  <2>8. goal[p] \notin {"gc-plan", "gc-apply"}
    BY <2>7 DEF Inv, Holds, HoldsAt
  <2>9. Len(head.last) <= Len(cat[p].last)
    BY <2>3 DEF Inv, Holds, HoldsAt
  <2>10. HoldsAt(p)'
    BY <2>3, <2>4, <2>7, <2>8, <2>9 DEF Holds, HoldsAt, Adding, Added,
       UpToDate, Locked, Maintenance
  <2> QED
    BY <2>6, <2>10
<1>5. CASE LoadDeferred(p)
  <2>1. /\ pc[p] = "replay" /\ Unseen(cat[p]) = {} /\ Quiet /\ UNCHANGED <<data, journal>>
        /\ cat[p].initialized
    BY <1>5 DEF LoadDeferred, Quiet, disk, history, Inv, TypeInv, Ready,
       ReadyAt
  <2>2. cat[p].last = journal /\ cat[p].packs = Contents /\ cat[p].packs \subseteq data
    BY <2>1, ReplayFacts DEF Inv, Disk
  <2>3. CASE Fail(p, "corrupt")
    BY <2>1, <2>2, <2>3, FailOwn
  <2>4. CASE ~Fail(p, "corrupt")
    <3>1. cat' = [cat EXCEPT ![p].deferred = ~MarkerObsolete] /\ pc'[p] = "prune" /\ UNCHANGED local
      BY <1>5, <2>4 DEF LoadDeferred, Goto, Inv, TypeInv, ProcsOK
    <3>2. /\ cat'[p].initialized = cat[p].initialized /\ cat'[p].last = cat[p].last
          /\ cat'[p].packs = cat[p].packs /\ cat'[p].snap = cat[p].snap
      BY <3>1 DEF Inv, TypeInv, ProcsOK, CatalogStates
    <3>3. MemoryAt(p)'
      BY <2>1, <2>2, <3>1, <3>2, SameMemory, PromisesKept DEF local
    <3>4. HoldsAt(p)'
      BY <2>1, <2>2, <3>1, <3>2 DEF Inv, local, Holds, HoldsAt, Adding, Added,
         UpToDate, Locked, Maintenance
    <3> QED
      BY <3>3, <3>4
  <2> QED
    BY <2>3, <2>4
<1>6. CASE PruneFile(p)
  <2>1. /\ Writes(p) /\ UNCHANGED <<cat, acked, journal>> /\ data \subseteq data'
        /\ pc[p] # "replay"
        /\ pc[p] \in {"prune", "clean"} /\ UNCHANGED <<pc, goal, ret, work, dead, junk>>
        /\ cat[p].initialized
    BY <1>6 DEF PruneFile, Writes, local, history, Goto, Inv, TypeInv, ProcsOK,
       Ready, ReadyAt
  <2>2. HoldsAt(p)'
    BY <2>1, Zenon DEF Inv, Holds, HoldsAt, Adding, Added, UpToDate, Locked,
       Maintenance
  <2> QED
    BY <2>1, <2>2, MemoryKept
<1>7. CASE SyncedForPut(p) \/ BeginCollect(p)
  <2>1. /\ Quiet /\ UNCHANGED <<cat, acked, data, journal>> /\ pc[p] # "replay"
        /\ pc[p] = "prune" /\ pc'[p] \in {"put", "collect"} /\ cat[p].initialized
        /\ UNCHANGED <<goal, dead, junk>>
    BY <1>7, Zenon DEF SyncedForPut, BeginCollect, Quiet, disk, local, history, Goto,
       Inv, TypeInv, ProcsOK, Ready, ReadyAt
  <2>2. HoldsAt(p)'
    BY <2>1, Zenon DEF Inv, Holds, HoldsAt, Adding, Added, UpToDate, Locked,
       Maintenance
  <2> QED
    BY <2>1, <2>2, MemoryKept
<1>8. CASE SkipSnapshot(p)
  <2>1. /\ Quiet /\ UNCHANGED <<cat, acked, data, journal>> /\ pc[p] # "replay"
        /\ pc[p] = "maybe" /\ pc'[p] = ret[p] /\ ret[p] \in {"capacity", "tidy", "gc-done"}
        /\ cat[p].initialized /\ UNCHANGED <<goal, ret, work, dead, junk>>
    BY <1>8 DEF SkipSnapshot, Quiet, disk, local, history, Goto, Inv, TypeInv,
       ProcsOK, Ready, ReadyAt
  <2>2. HoldsAt(p)'
    BY <2>1, Zenon DEF Inv, Holds, HoldsAt, Adding, Added, UpToDate, Locked,
       Maintenance
  <2> QED
    BY <2>1, <2>2, MemoryKept
<1>9. CASE DeferSnapshot(p)
  <2>1. /\ cat'[p].initialized = cat[p].initialized /\ cat'[p].last = cat[p].last
        /\ cat'[p].packs = cat[p].packs /\ cat'[p].snap = cat[p].snap
    BY <1>9 DEF DeferSnapshot, Inv, TypeInv, ProcsOK, CatalogStates
  <2>2. /\ Writes(p) /\ pc[p] = "maybe" /\ pc'[p] = ret[p]
        /\ UNCHANGED <<data, journal, goal, ret, work, dead, junk, acked>>
    BY <1>9 DEF Writes, DeferSnapshot, Goto, local, history, Inv, TypeInv,
       ProcsOK
  <2>3. MemoryAt(p)'
    BY <2>1, <2>2, SameMemory, PromisesKept
  <2>4. cat[p].initialized /\ ret[p] \in {"capacity", "tidy", "gc-done"}
    BY <2>2 DEF Inv, TypeInv, ProcsOK, Ready, ReadyAt
  <2>5. HoldsAt(p)'
    BY <2>1, <2>2, <2>4, Zenon DEF Inv, Holds, HoldsAt, Adding, Added, UpToDate,
       Locked, Maintenance
  <2> QED
    BY <2>3, <2>5
<1>10. CASE BeginSnapshot(p)
  <2>1. /\ Quiet /\ UNCHANGED <<cat, acked, data, journal>> /\ pc[p] # "replay"
        /\ pc[p] = "maybe" /\ pc'[p] = "snapshot" /\ cat[p].initialized
        /\ UNCHANGED <<goal, ret, work, dead, junk>>
    BY <1>10 DEF BeginSnapshot, Quiet, disk, local, history, Goto, Inv,
       TypeInv, ProcsOK, Ready, ReadyAt
  <2>2. HoldsAt(p)'
    BY <2>1, Zenon DEF Inv, Holds, HoldsAt, Adding, Added, UpToDate, Locked,
       Maintenance
  <2> QED
    BY <2>1, <2>2, MemoryKept, Zenon
<1>11. CASE CreateSnapshot(p)
  <2>1. /\ Writes(p) /\ UNCHANGED <<cat, acked, journal>> /\ data \subseteq data'
        /\ pc[p] # "replay"
        /\ pc[p] = "snapshot" /\ pc'[p] = "head" /\ snapshots' = snapshots \cup {Pending(p)}
        /\ UNCHANGED <<head, index, goal, ret, work, dead, junk>>
    BY <1>11 DEF CreateSnapshot, Writes, local, history, Goto, Inv, TypeInv,
       ProcsOK
  <2>2. HoldsAt(p)'
    BY <2>1, Zenon DEF Inv, Holds, HoldsAt, Adding, Added, UpToDate, Locked,
       Maintenance, Pending
  <2> QED
    BY <2>1, <2>2, MemoryKept
<1>12. CASE WriteHead(p)
  <2>1. /\ NewHead(p) /\ Writes(p) /\ pc[p] = "head" /\ pc'[p] = "clean"
        /\ cat'[p] = FromSnapshot(Pending(p)) /\ head' = Pending(p)
        /\ UNCHANGED <<data, journal, after, goal, ret, work, dead, junk, acked>>
    BY <1>12 DEF WriteHead, NewHead, Writes, Goto, local, history, Inv,
       TypeInv, ProcsOK
  <2>2. Pending(p) # None /\ Pending(p).last = journal /\ Pending(p).packs = Contents
    BY <2>1, PendingFacts, Zenon
  <2>3. /\ cat'[p].initialized /\ cat'[p].last = journal' /\ cat'[p].packs = Contents'
        /\ cat'[p].snap.last = journal' /\ cat'[p].snap.packs = Contents'
    BY <2>1, <2>2 DEF FromSnapshot, Contents
  <2>4. Faithful(cat[p])'
    BY <2>1, <2>3, CurrentMemory, FilesStep, TypeStep DEF Inv, Next
  <2>5. Faithful(cat[p].snap)'
    BY <2>3, <2>4, Zenon DEF Faithful
  <2>6. MemoryAt(p)'
    BY <2>1, <2>2, <2>3, <2>4, <2>5, PromisesKept DEF MemoryAt, Inv, Disk,
       Contents
  <2>7. cat[p].initialized => cat[p].packs = Contents
    BY <2>1, Agreement DEF UpToDate, Locked
  <2>8. Contents' = Contents
    BY <2>1, Zenon DEF Contents
  <2>9. (ret[p] \in {"capacity", "tidy"} \/ goal[p] \in {"gc-plan", "gc-apply"}) => cat[p].initialized
    BY <2>1 DEF Inv, TypeInv, Ready, ReadyAt, Holds, HoldsAt
  <2>10. HoldsAt(p)'
    BY <2>1, <2>3, <2>7, <2>8, <2>9, Zenon DEF Inv, Holds, HoldsAt, Adding, Added,
       UpToDate, Locked, Maintenance
  <2> QED
    BY <2>6, <2>10
<1>13. CASE RemoveMarker(p)
  <2>1. /\ Writes(p) /\ UNCHANGED <<cat, acked, journal>> /\ data \subseteq data'
        /\ pc[p] # "replay"
        /\ pc[p] = "clean" /\ pc'[p] = ret[p] /\ cat[p].initialized
        /\ ret[p] \in {"load", "capacity", "tidy", "gc-done"} /\ UNCHANGED <<goal, ret, work, dead, junk>>
    BY <1>13 DEF RemoveMarker, Writes, local, history, Goto, Inv, TypeInv,
       ProcsOK, Ready, ReadyAt
  <2>2. HoldsAt(p)'
    BY <2>1, Zenon DEF Inv, Holds, HoldsAt, Adding, Added, UpToDate, Locked,
       Maintenance
  <2> QED
    BY <2>1, <2>2, MemoryKept
<1>14. CASE PutPresent(p)
  <2>1. goal[p] = "put" /\ pc[p] = "put" /\ Quiet /\ UNCHANGED <<cat, after>>
    BY <1>14 DEF PutPresent, Quiet, history, Inv, TypeInv, Ready, ReadyAt
  <2>2. work[p] \in Contents /\ Contents' = Contents
    BY <1>14, <2>1, WriterFacts, Zenon DEF PutPresent, Contents
  <2>3. acked'[p] \subseteq Contents'
    BY <1>14, <2>1, <2>2, PromisesKept DEF PutPresent, Inv, TypeInv, ProcsOK
  <2> QED
    BY <1>14, <2>1, <2>3, EndPutOwn, Zenon DEF PutPresent
<1>15. CASE CheckCapacity(p)
  <2>1. /\ Quiet /\ UNCHANGED <<cat, acked, data, journal>> /\ pc[p] # "replay"
        /\ pc[p] = "put" /\ work[p] \notin cat[p].packs /\ cat[p].initialized
        /\ pc'[p] = "place" \/ (pc'[p] = "maybe" /\ ret'[p] = "capacity")
        /\ UNCHANGED <<goal, work, dead, junk>>
    BY <1>15 DEF CheckCapacity, Quiet, disk, local, history, Goto, Inv,
       TypeInv, ProcsOK, Ready, ReadyAt
  <2>2. HoldsAt(p)'
    BY <2>1, Zenon DEF Inv, Holds, HoldsAt, Adding, Added, UpToDate, Locked,
       Maintenance
  <2> QED
    BY <2>1, <2>2, MemoryKept, Zenon
<1>16. CASE RecheckCapacity(p)
  <2>1. goal[p] = "put" /\ pc[p] = "capacity" /\ Quiet /\ UNCHANGED <<cat, acked>>
    BY <1>16, Zenon DEF RecheckCapacity, Quiet, local, Inv, TypeInv, Ready, ReadyAt
  <2>2. CASE RoomInTail(cat[p])
    <3>1. MemoryAt(p)'
      BY <2>1, SameMemory, PromisesKept DEF Quiet, disk
    <3>2. pc'[p] = "place" /\ UNCHANGED <<journal, goal, work, dead, junk>>
      BY <1>16, <2>2 DEF RecheckCapacity, Goto, local, history, Inv, TypeInv,
         ProcsOK
    <3>3. cat[p].initialized
      BY <2>1 DEF Inv, TypeInv, Ready, ReadyAt
    <3>4. HoldsAt(p)'
      BY <2>1, <3>2, <3>3, Zenon DEF Inv, Holds, HoldsAt, Adding, Added, UpToDate,
         Locked, Maintenance
    <3> QED
      BY <3>1, <3>4, Zenon
  <2>3. CASE ~RoomInTail(cat[p])
    BY <1>16, <2>1, <2>3, PromisesKept, EndPutOwn, Zenon DEF RecheckCapacity
  <2> QED
    BY <2>2, <2>3, Zenon
<1>17. CASE PutOverflow(p)
  <2>1. goal[p] = "put" /\ pc[p] = "put" /\ Quiet /\ UNCHANGED <<cat, acked>>
    BY <1>17 DEF PutOverflow, Quiet, Inv, TypeInv, Ready, ReadyAt
  <2> QED
    BY <1>17, <2>1, PromisesKept, EndPutOwn DEF PutOverflow
<1>18. CASE PlaceData(p) \/ PlaceIndex(p)
  <2>1. /\ Writes(p) /\ UNCHANGED <<cat, acked, journal>> /\ data \subseteq data'
        /\ pc[p] # "replay"
        /\ pc[p] = "place" /\ cat[p].initialized /\ UNCHANGED <<pc, goal, work, dead, junk>>
    BY <1>18 DEF PlaceData, PlaceIndex, Writes, local, history, Goto, Inv,
       TypeInv, ProcsOK, Ready, ReadyAt
  <2>2. HoldsAt(p)'
    BY <2>1, Zenon DEF Inv, Holds, HoldsAt, Adding, Added, UpToDate, Locked,
       Maintenance
  <2> QED
    BY <2>1, <2>2, MemoryKept, Zenon
<1>19. CASE VerifyPair(p)
  <2>1. /\ Quiet /\ UNCHANGED <<cat, acked, data, journal>> /\ pc[p] # "replay"
        /\ pc[p] = "place" /\ pc'[p] = "append" /\ work[p] \in data /\ cat[p].initialized
        /\ UNCHANGED <<goal, work, dead, junk>>
    BY <1>19 DEF VerifyPair, Quiet, disk, local, history, Goto, Inv, TypeInv,
       ProcsOK, Ready, ReadyAt
  <2>2. HoldsAt(p)'
    BY <2>1, Zenon DEF Inv, Holds, HoldsAt, Adding, Added, UpToDate, Locked,
       Maintenance
  <2> QED
    BY <2>1, <2>2, MemoryKept, Zenon
<1>20. CASE AppendAdd(p)
  <2> DEFINE o == [op |-> "ADD", pack |-> work[p]]
  <2>1. /\ LinksAdd(p) /\ Writes(p) /\ pc'[p] = "maybe" /\ ret'[p] = "tidy" /\ goal[p] = "put"
        /\ cat'[p] = AppliedTo(cat[p], o)
        /\ UNCHANGED <<head, data, goal, work, dead, junk, acked>>
    BY <1>20, Zenon DEF AppendAdd, LinksAdd, Writes, Goto, Inv, TypeInv, ProcsOK,
       Ready, ReadyAt
  <2>2. /\ o \in Operations /\ Applicable(Contents, o) /\ Apply(Contents, o) = Contents \cup {work[p]}
        /\ work[p] \in data /\ cat[p].last = journal
    BY <2>1, AddFacts, Zenon
  <2>3. LinkRecord(p, o)
    BY <2>1, Zenon DEF LinksAdd
  <2>4. /\ cat[p].packs = Contents /\ cat[p].initialized /\ head # None
    BY <2>1, WriterFacts, Zenon DEF LinksAdd
  <2> HIDE DEF o
  <2>5. journal' = Append(journal, o) /\ Contents' = Apply(Contents, o)
    BY <2>2, <2>3, LinkFacts, Zenon
  <2>6. /\ cat'[p].initialized /\ cat'[p].last = journal' /\ cat'[p].packs = Contents'
        /\ cat'[p].snap = cat[p].snap
    <3>1. /\ cat'[p].last = Append(cat[p].last, o) /\ cat'[p].packs = Apply(cat[p].packs, o)
          /\ cat'[p].initialized = cat[p].initialized /\ cat'[p].snap = cat[p].snap
      BY <2>1, <2>2, AppliedFields, Zenon
    <3> QED
      BY <2>2, <2>4, <2>5, <3>1, Zenon
  <2>7. Faithful(cat[p])'
    BY <2>1, <2>6, CurrentMemory, FilesStep, TypeStep, Zenon DEF Inv, Next
  <2>8. Faithful(cat[p].snap)'
    <3>1. \A t : t = cat[p].snap => Faithful(t)'
      BY <2>1, <2>4, KeepsFaithful
    <3> QED
      BY <2>6, <3>1
  <2>9. Contents' \subseteq data'
    BY <2>1, FilesStep, Zenon DEF Disk
  <2>10. MemoryAt(p)'
    BY <2>1, <2>4, <2>6, <2>7, <2>8, <2>9, PromisesKept DEF MemoryAt
  <2>11. HoldsAt(p)'
    BY <2>1, <2>2, <2>5, <2>6, Zenon DEF Holds, HoldsAt, Adding, Added, UpToDate,
       Locked, Maintenance
  <2> QED
    BY <2>10, <2>11
<1>21. CASE FinishPut(p)
  <2>1. goal[p] = "put" /\ pc[p] = "tidy" /\ Writes(p) /\ UNCHANGED <<cat, after>>
    BY <1>21, Zenon DEF FinishPut, Writes, history, Inv, TypeInv, Ready, ReadyAt
  <2>2. work[p] \in Contents /\ Contents' = Contents
    BY <2>1, WriterFacts, Zenon DEF Contents, Inv, Holds, HoldsAt, Added
  <2>3. acked'[p] \subseteq Contents'
    BY <1>21, <2>1, <2>2, PromisesKept, Zenon DEF FinishPut, Inv, TypeInv, ProcsOK
  <2> QED
    BY <1>21, <2>1, <2>3, EndPutOwn, Zenon DEF FinishPut
<1>22. CASE CollectorOpened(p)
  <2>1. /\ Quiet /\ UNCHANGED <<cat, acked, data, journal>> /\ pc[p] # "replay"
        /\ pc[p] = "prune" /\ pc'[p] = "wait" /\ goal'[p] = "gc-plan" /\ cat[p].initialized
    BY <1>22, Zenon DEF CollectorOpened, Quiet, disk, local, history, Goto, Inv,
       TypeInv, ProcsOK, Ready, ReadyAt
  <2>2. HoldsAt(p)'
    BY <2>1 DEF Inv, Holds, HoldsAt, Adding, Added, UpToDate, Locked,
       Maintenance
  <2> QED
    BY <2>1, <2>2, MemoryKept, Zenon
<1>23. CASE DrawPlan(p)
  <2>1. /\ Quiet /\ UNCHANGED <<cat, acked, data, journal>> /\ pc[p] # "replay"
        /\ pc[p] = "prune" /\ pc'[p] = "wait" /\ goal'[p] = "gc-apply" /\ cat[p].initialized
        /\ dead'[p] \subseteq cat[p].packs /\ junk'[p] \cap cat[p].packs = {}
    BY <1>23, Zenon DEF DrawPlan, Quiet, disk, local, history, Goto, Inv, TypeInv,
       ProcsOK, Ready, ReadyAt
  <2>2. HoldsAt(p)'
    BY <2>1 DEF Inv, Holds, HoldsAt, Adding, Added, UpToDate, Locked,
       Maintenance
  <2> QED
    BY <2>1, <2>2, MemoryKept
<1>24. CASE AppendRemove(p)
  <2> PICK k \in dead[p] :
        /\ LinkRecord(p, [op |-> "REMOVE", pack |-> k])
        /\ cat' = [cat EXCEPT ![p] = AppliedTo(cat[p], [op |-> "REMOVE", pack |-> k])]
        /\ dead' = [dead EXCEPT ![p] = @ \ {k}]
        /\ work' = [work EXCEPT ![p] = k]
    BY <1>24, Zenon DEF AppendRemove
  <2> DEFINE o == [op |-> "REMOVE", pack |-> k]
  <2>1. /\ LinksRemove(p) /\ Writes(p) /\ pc[p] = "collect" /\ pc'[p] = "delete"
        /\ cat'[p] = AppliedTo(cat[p], o) /\ dead'[p] = dead[p] \ {k} /\ work'[p] = k
        /\ UNCHANGED <<head, data, goal, junk, acked>>
    BY <1>24 DEF AppendRemove, LinksRemove, Writes, Goto, Inv, TypeInv, ProcsOK
  <2>2. /\ o \in Operations /\ Applicable(Contents, o) /\ Apply(Contents, o) = Contents \ {k}
        /\ cat[p].last = journal /\ cat[p].packs = Contents /\ goal[p] = "gc-apply"
    BY <2>1, RemoveFacts, Zenon
  <2>3. LinkRecord(p, o)
    OBVIOUS
  <2>4. cat[p].initialized /\ head # None
    BY <2>1, WriterFacts, Zenon
  <2>5. dead[p] \subseteq Contents /\ junk[p] \cap Contents = {}
    BY <2>2, Zenon DEF Inv, Holds, HoldsAt
  <2> HIDE DEF o
  <2>6. journal' = Append(journal, o) /\ Contents' = Apply(Contents, o)
    BY <2>2, <2>3, LinkFacts, Zenon
  <2>7. /\ cat'[p].initialized /\ cat'[p].last = journal' /\ cat'[p].packs = Contents'
        /\ cat'[p].snap = cat[p].snap
    <3>1. /\ cat'[p].last = Append(cat[p].last, o) /\ cat'[p].packs = Apply(cat[p].packs, o)
          /\ cat'[p].initialized = cat[p].initialized /\ cat'[p].snap = cat[p].snap
      BY <2>1, <2>2, AppliedFields, Zenon
    <3> QED
      BY <2>2, <2>4, <2>6, <3>1, Zenon
  <2>8. Faithful(cat[p])'
    BY <2>1, <2>7, CurrentMemory, FilesStep, TypeStep, Zenon DEF Inv, Next
  <2>9. Faithful(cat[p].snap)'
    <3>1. \A t : t = cat[p].snap => Faithful(t)'
      BY <2>1, <2>4, KeepsFaithful, Zenon
    <3> QED
      BY <2>7, <3>1
  <2>10. Contents' \subseteq data'
    BY <2>1, FilesStep, Zenon DEF Disk
  <2>11. MemoryAt(p)'
    BY <2>1, <2>4, <2>7, <2>8, <2>9, <2>10, PromisesKept DEF MemoryAt
  <2>12. /\ goal'[p] = "gc-apply" /\ dead'[p] \subseteq Contents' /\ junk'[p] \cap Contents' = {}
         /\ work'[p] \notin Contents'
    BY <2>1, <2>2, <2>5, <2>6, Zenon
  <2>13. HoldsAt(p)'
    BY <2>1, <2>7, <2>12, Zenon DEF Holds, HoldsAt, Adding, Added, UpToDate, Locked,
       Maintenance
  <2> QED
    BY <2>11, <2>13
<1>25. CASE DeleteData(p) \/ DeleteOrphan(p)
  <2>1. /\ Writes(p) /\ UNCHANGED <<cat, acked, journal, pc, goal, work, dead>> /\ junk'[p] \subseteq junk[p]
        /\ pc[p] \in {"collect", "delete"} /\ goal[p] = "gc-apply" /\ cat[p].initialized
    BY <1>25 DEF DeleteData, DeleteOrphan, Writes, local, history, Inv,
       TypeInv, ProcsOK, Ready, ReadyAt
  <2>2. cat[p].packs \subseteq data'
    BY <1>25, <2>1, Zenon DEF DeleteData, DeleteOrphan, Inv, Memories, MemoryAt,
       Holds, HoldsAt
  <2>3. head' # None /\ Faithful(cat[p])' /\ Faithful(cat[p].snap)'
    BY <2>1, KeepsFaithful, Zenon
  <2>4. MemoryAt(p)'
    BY <2>1, <2>2, <2>3, PromisesKept, Zenon DEF MemoryAt
  <2>5. HoldsAt(p)'
    BY <2>1, Zenon DEF Inv, Holds, HoldsAt, Adding, Added, UpToDate, Locked,
       Maintenance
  <2> QED
    BY <2>4, <2>5, Zenon
<1>26. CASE DeleteIndex(p)
  <2>1. /\ Writes(p) /\ UNCHANGED <<cat, acked, journal>> /\ data \subseteq data'
        /\ pc[p] # "replay"
        /\ pc[p] = "delete" /\ pc'[p] = "collect" /\ cat[p].initialized
        /\ UNCHANGED <<goal, dead, junk>>
    BY <1>26 DEF DeleteIndex, Writes, local, history, Goto, Inv, TypeInv,
       ProcsOK, Ready, ReadyAt
  <2>2. HoldsAt(p)'
    BY <2>1, Zenon DEF Inv, Holds, HoldsAt, Adding, Added, UpToDate, Locked,
       Maintenance
  <2> QED
    BY <2>1, <2>2, MemoryKept, Zenon
<1>27. CASE CompactAfterCollect(p)
  <2>1. /\ Quiet /\ UNCHANGED <<cat, acked, data, journal>> /\ pc[p] # "replay"
        /\ pc[p] = "collect" /\ pc'[p] = "maybe" /\ ret'[p] = "gc-done" /\ cat[p].initialized
        /\ UNCHANGED <<goal, dead, junk>>
    BY <1>27 DEF CompactAfterCollect, Quiet, disk, local, history, Goto, Inv,
       TypeInv, ProcsOK, Ready, ReadyAt
  <2>2. HoldsAt(p)'
    BY <2>1, Zenon DEF Inv, Holds, HoldsAt, Adding, Added, UpToDate, Locked,
       Maintenance
  <2> QED
    BY <2>1, <2>2, MemoryKept, Zenon
<1>28. CASE Open(p) \/ OpenCollector(p) \/ (\E k \in Packs : PutBatch(p, k))
  <2>1. /\ Quiet /\ UNCHANGED <<cat, acked, data, journal>> /\ pc[p] # "replay"
        /\ pc'[p] = "wait" /\ goal'[p] \notin {"gc-plan", "gc-apply"}
    BY <1>28 DEF Open, OpenCollector, PutBatch, Quiet, disk, local, history,
       Goto, Inv, TypeInv, ProcsOK, Locks, LocksAt, Collection
  <2>2. HoldsAt(p)'
    BY <2>1, Zenon DEF Inv, Holds, HoldsAt, Adding, Added, UpToDate, Locked,
       Maintenance
  <2> QED
    BY <2>1, <2>2, MemoryKept, Zenon
<1>29. CASE EndCollect(p) \/ Crash(p) \/ Close(p)
  BY <1>29, VanishOwn DEF EndCollect, Crash, Close
<1>30. CASE IoError(p) \/ IoErrorAfterRecord(p) \/ IoErrorAfterHead(p)
  BY <1>30, FailOwn, Zenon DEF IoError, IoErrorAfterRecord, IoErrorAfterHead,
     WritePcs, Quiet, Writes, LinksAdd, NewHead
<1> QED
  BY <1>1, <1>2, <1>3, <1>4, <1>5, <1>6, <1>7, <1>8, <1>9, <1>10, <1>11, <1>12,
     <1>13, <1>14, <1>15, <1>16, <1>17, <1>18, <1>19, <1>20, <1>21, <1>22,
     <1>23, <1>24, <1>25, <1>26, <1>27, <1>28, <1>29, <1>30, Zenon DEF Work, Sync,
     Maintain, Put, Collect, Call, Fault

-----------------------------------------------------------------------------
(* The theorems.                                                           *)

\* A store that no process has opened yet.
LEMMA InitInv == Init => Inv
<1> SUFFICES ASSUME Init PROVE Inv
  OBVIOUS
<1>1. TypeInv
  BY TypeInit
<1>2. Len(journal) = 0 /\ Len(after) = 1 /\ Contents = index
  BY DEF Init, Contents
<1>3. History
  BY <1>2 DEF History
<1>4. Disk
  BY <1>2, Zenon DEF Init, Disk, Recoverable
<1>5. Locks
  BY CatalogAssumption, Zenon DEF Init, Locks, LocksAt, Locked, Collection
<1>6. Memories /\ Holds
  BY Zenon DEF Init, Memories, MemoryAt, Holds, HoldsAt, Adding, Added, Uninitialized,
     UpToDate, Locked, Maintenance
<1>7. Verdicts
  BY DEF Init, Verdicts
<1> QED
  BY <1>1, <1>3, <1>4, <1>5, <1>6, <1>7 DEF Inv

\* A step of one process keeps all of it.
LEMMA ProcessStep ==
  ASSUME Inv, NEW p \in Procs, Work(p) \/ Call(p) \/ Fault(p)
  PROVE  Inv'
<1>1. TypeInv'
  BY TypeStep DEF Inv, Next
<1>2. Quiet \/ Writes(p)
  BY FilesChange
<1>3. History' /\ Disk'
  BY <1>2, FilesStep
<1>4. ASSUME NEW q \in Procs PROVE MemoryAt(q)' /\ HoldsAt(q)'
  <2>1. CASE q = p
    BY <2>1, OwnStep
  <2>2. CASE q # p
    BY <1>2, <2>2, OthersSame, OthersKeep DEF Inv
  <2> QED
    BY <2>1, <2>2
<1> QED
  BY <1>1, <1>3, <1>4, LocksStep, VerdictsStep DEF Inv, Memories, Holds

\* Nothing changes when no process takes a step.
LEMMA StutterStep == ASSUME Inv, UNCHANGED vars PROVE Inv'
<1>1. TypeInv'
  BY TypeStep DEF Inv
<1>2. UNCHANGED <<disk, batch, lease, cat, pc, local, outcome, history>>
  BY Zenon DEF vars
<1>3. Locks' /\ History' /\ Disk'
  BY <1>2 DEF disk, local, history, Inv, Locks, LocksAt, History, Disk, Recoverable,
     InJournal, Prefix, Contents
<1>4. Memories'
  BY <1>2, Zenon DEF disk, local, history, Inv, Memories, MemoryAt, Faithful, InJournal,
     Prefix, Contents
<1>5. Holds'
  BY <1>2, Zenon DEF disk, local, history, Inv, Holds, HoldsAt, Adding, Added, Pending
<1>6. Verdicts'
  BY <1>2 DEF disk, local, history, Inv, Verdicts, Orphaned, Refused,
     DeferralMarkerAccepted, MarkerObsolete
<1> QED
  BY <1>1, <1>3, <1>4, <1>5, <1>6 DEF Inv

\* The invariant holds in every state that processes, crashes, I/O errors and
\* collectors can reach.
THEOREM Invariance == Spec => []Inv
<1>1. Inv /\ [Next]_vars => Inv'
  BY ProcessStep, StutterStep DEF Next
<1> QED
  BY <1>1, InitInv, PTL DEF Spec

\* The in-memory catalog of an open store is the state of the journal at its
\* sequence number, whoever links records, collects or crashes meanwhile
\* (cas.rs, load_snapshot, replay_records and append_record).
THEOREM MemoryCorrect == Spec => []MemoryIsAJournalState
<1>1. Inv => MemoryIsAJournalState
  BY DEF Inv, Memories, MemoryAt, Faithful, MemoryIsAJournalState
<1> QED
  BY <1>1, Invariance, PTL

\* Head, snapshot and record files always suffice to rebuild the catalog: no
\* crash, pruning or failed publication of a snapshot loses a record.
THEOREM RecoveryComplete == Spec => []Recoverable
<1>1. Inv => Recoverable
  BY DEF Inv, Disk
<1> QED
  BY <1>1, Invariance, PTL

\* Every pack an open store would read from has its data file, also while a
\* collector runs in another process.
THEOREM LocationsReadable == Spec => []KnownLocationsReadable
<1>1. Inv => KnownLocationsReadable
  BY DEF Inv, Memories, MemoryAt, KnownLocationsReadable
<1> QED
  BY <1>1, Invariance, PTL

\* A pack whose put_batch returned successfully stays in the catalog, with its
\* data file, for as long as the store that was told so is open.
THEOREM AcknowledgedKept == Spec => []AckedPacksKept
<1>1. Inv => AckedPacksKept
  BY DEF Inv, Memories, MemoryAt, Disk, AckedPacksKept
<1> QED
  BY <1>1, Invariance, PTL

\* A synchronisation reports corruption for one of two reasons only: snapshot
\* files without a head, or a deferral marker that fits no head.
THEOREM CorruptionOnlyExplained == Spec => []CorruptionExplained
<1>1. Inv => CorruptionExplained
  BY DEF Inv, Verdicts, Orphaned, Refused, CorruptionExplained
<1> QED
  BY <1>1, Invariance, PTL

\* A new head covers at least the records of the old one, and the journal
\* grows at its end only.
THEOREM RecoveryAdvances == Spec => HeadAdvances
<1> DEFINE Advances ==
      /\ head # None => Len(head'.last) >= Len(head.last)
      /\ journal' # journal => SubSeq(journal', 1, Len(journal)) = journal
<1>1. ASSUME Inv, NEW p \in Procs, Quiet \/ Writes(p) PROVE Advances
  <2>1. /\ head # None => InJournal(head.last) /\ Len(head.last) \in Nat
        /\ journal \in Journals /\ Len(journal) \in Nat
    BY <1>1 DEF Inv, TypeInv, FilesOK, Snapshots, Journals, Disk, Recoverable
  <2>2. CASE UNCHANGED <<head, journal>>
    BY <2>1, <2>2
  <2>3. CASE NewHead(p)
    <3>1. head'.last = journal /\ UNCHANGED journal
      BY <1>1, <2>3, PendingFacts DEF NewHead, history
    <3> QED
      BY <2>1, <3>1 DEF InJournal
  <2>4. CASE LinksAdd(p) \/ LinksRemove(p)
    <3>1. PICK o \in Operations : cat[p].last = journal /\ LinkRecord(p, o)
      <4>1. CASE LinksAdd(p)
        BY <1>1, <4>1, AddFacts DEF LinksAdd
      <4>2. CASE LinksRemove(p)
        BY <1>1, <4>2, RemoveFacts DEF LinksRemove
      <4> QED
        BY <2>4, <4>1, <4>2
    <3>2. SubSeq(journal', 1, Len(journal)) = SubSeq(journal, 1, Len(journal)) /\ UNCHANGED head
      BY <2>1, <2>4, <3>1, PrefixGrows DEF LinkRecord, LinksAdd, LinksRemove
    <3> QED
      BY <2>1, <3>2, WholePrefix
  <2> QED
    BY <1>1, <2>2, <2>3, <2>4
       DEF Quiet, disk, history, Writes, PruneFile, DeferSnapshot, CreateSnapshot,
           RemoveMarker,
           PlaceData, PlaceIndex, FinishPut, DeleteData, DeleteIndex, DeleteOrphan
<1>2. Inv /\ [Next]_vars => [Advances]_vars
  BY <1>1, FilesChange, Zenon DEF Next
<1> QED
  BY <1>2, Invariance, PTL DEF Spec, HeadAdvances

-----------------------------------------------------------------------------
(* The catalog implements PackStore.                                       *)

\* The packs and the promises stay; a store is closed; a pack is promised.
Unaffected == UNCHANGED <<after, acked>>
Closed(p) == acked' = [acked EXCEPT ![p] = {}] /\ UNCHANGED after
Promised(p) ==
  \E k \in Packs : k \in Contents /\ acked' = [acked EXCEPT ![p] = @ \cup {k}] /\ UNCHANGED after

\* No other step links a record, and only the ends of calls and of processes
\* touch promises.
LEMMA EffectCases ==
  ASSUME Inv, NEW p \in Procs, Work(p) \/ Call(p) \/ Fault(p)
  PROVE  \/ Unaffected \/ Closed(p) \/ Promised(p)
         \/ (LinksAdd(p) \/ LinksRemove(p)) /\ UNCHANGED acked
<1>1. CASE LockBatch(p) \/ SyncWithHead(p) \/ PruneFile(p) \/
          SyncedForOpen(p) \/ SyncedForPut(p) \/ SkipSnapshot(p) \/
          DeferSnapshot(p) \/ BeginSnapshot(p) \/ CreateSnapshot(p) \/
          WriteHead(p) \/ RemoveMarker(p)
  BY <1>1 DEF LockBatch, SyncWithHead, PruneFile, SyncedForOpen, SyncedForPut,
     SkipSnapshot, DeferSnapshot, BeginSnapshot, CreateSnapshot, WriteHead,
     RemoveMarker, Unaffected, local, history
<1>2. CASE CheckCapacity(p) \/ RecheckCapacity(p) \/ PutOverflow(p) \/
          PlaceData(p) \/ PlaceIndex(p) \/ VerifyPair(p) \/
          CollectorOpened(p) \/ DrawPlan(p) \/ BeginCollect(p)
  BY <1>2, Zenon DEF CheckCapacity, RecheckCapacity, PutOverflow, PlaceData,
     PlaceIndex, VerifyPair, CollectorOpened, DrawPlan, BeginCollect,
     Unaffected, local, history
<1>3. CASE DeleteData(p) \/ DeleteIndex(p) \/ DeleteOrphan(p) \/
          CompactAfterCollect(p) \/ Open(p) \/ OpenCollector(p) \/
          (\E k \in Packs : PutBatch(p, k))
  BY <1>3, Zenon DEF DeleteData, DeleteIndex, DeleteOrphan, CompactAfterCollect, Open,
     OpenCollector, PutBatch, Unaffected, local, history
<1>4. CASE EndCollect(p) \/ Crash(p) \/ Close(p)
  BY <1>4 DEF EndCollect, Crash, Close, Vanish, Closed, history
<1>5. CASE SyncWithoutHead(p) \/ LoadSnapshot(p) \/ ReplayRecord(p) \/
          LoadDeferred(p) \/ IoError(p) \/ IoErrorAfterHead(p)
  BY <1>5 DEF SyncWithoutHead, LoadSnapshot, ReplayRecord, LoadDeferred,
     IoError, IoErrorAfterHead, Fail, Vanish, Closed, Unaffected, local,
     history
<1>6. CASE IoErrorAfterRecord(p)
  <2>1. goal[p] = "put"
    BY <1>6, Zenon DEF IoErrorAfterRecord, Inv, TypeInv, Ready, ReadyAt
  <2> QED
    BY <1>6, <2>1, Zenon DEF IoErrorAfterRecord, Fail, LinksAdd
<1>7. CASE AppendAdd(p)
  BY <1>7, Zenon DEF AppendAdd, LinksAdd
<1>8. CASE AppendRemove(p)
  BY <1>8 DEF AppendRemove, LinksRemove
<1>9. CASE PutPresent(p)
  <2>1. work[p] \in Contents /\ work[p] \in Packs
    BY <1>9, WriterFacts, Zenon DEF PutPresent, Inv, TypeInv, Ready, ReadyAt
  <2> QED
    BY <1>9, <2>1, Zenon DEF PutPresent, Promised, Unaffected, history
<1>10. CASE FinishPut(p)
  <2>1. work[p] \in Contents /\ work[p] \in Packs
    BY <1>10, WriterFacts, Zenon DEF FinishPut, Inv, TypeInv, Ready, ReadyAt, Holds,
       HoldsAt, Added
  <2> QED
    BY <1>10, <2>1, Zenon DEF FinishPut, Promised, history
<1> QED
  BY <1>1, <1>2, <1>3, <1>4, <1>5, <1>6, <1>7, <1>8, <1>9, <1>10, Zenon DEF Work,
     Sync, Maintain, Put, Collect, Call, Fault

\* What a step does to the pack set and to the promises is a step of PackStore, or nothing.
LEMMA RefinementStep ==
  ASSUME Inv, NEW p \in Procs, Work(p) \/ Call(p) \/ Fault(p)
  PROVE  Abstract!Next \/ UNCHANGED <<Contents, acked>>
<1>1. CASE Unaffected \/ Closed(p) \/ Promised(p)
  <2>1. CASE Unaffected
    BY <2>1 DEF Unaffected, Contents
  <2>2. CASE Closed(p)
    BY <2>2, Zenon DEF Closed, Contents, Abstract!Next, Abstract!Close
  <2>3. CASE Promised(p)
    BY <2>3, Zenon DEF Promised, Contents, Abstract!Next, Abstract!Acknowledge
  <2> QED
    BY <1>1, <2>1, <2>2, <2>3
<1>2. CASE LinksAdd(p) /\ UNCHANGED acked
  <2>1. Contents' = Contents \cup {work[p]} /\ work[p] \in Packs
    BY <1>2, AddFacts, LinkFacts, Zenon DEF LinksAdd
  <2> QED
    BY <1>2, <2>1 DEF Abstract!Next, Abstract!Add
<1>3. CASE LinksRemove(p) /\ UNCHANGED acked
  <2>1. PICK k \in dead[p] : LinkRecord(p, [op |-> "REMOVE", pack |-> k])
    BY <1>3, Zenon DEF LinksRemove
  <2>2. Contents' = Contents \ {k} /\ k \in Packs /\ goal[p] = "gc-apply"
    BY <1>3, <2>1, RemoveFacts, LinkFacts DEF LinksRemove
  <2>3. \A q \in Procs : acked[q] = {}
    <3>1. acked[p] = {}
      BY <2>2 DEF Inv, Locks, LocksAt, Collection
    <3> QED
      BY <2>2, <3>1, CollectorAlone DEF Inv, Collection
  <2> QED
    BY <1>3, <2>2, <2>3, Zenon DEF Abstract!Next, Abstract!Remove
<1> QED
  BY <1>1, <1>2, <1>3, EffectCases

\* The catalog implements a plain durable set of packs: a pack appears or
\* disappears when its record file is linked and at no other step, and none
\* disappears while it is promised.
THEOREM Refinement == Spec => ImplementsPackStore
<1>1. Init => Abstract!Init
  BY DEF Init, Contents, Abstract!Init
<1>2. ASSUME Inv, [Next]_vars PROVE [Abstract!Next]_<<Contents, acked>>
  BY <1>2, RefinementStep DEF Next, vars, local, history, Contents
<1> QED
  BY <1>1, <1>2, Invariance, PTL DEF Spec, ImplementsPackStore, Abstract!Spec

=============================================================================
