------------------------- MODULE CasCatalogRecovery -------------------------
(***************************************************************************)
(* What holds of the pack catalog across processes, crashes and            *)
(* collections: the inductive invariant and why every step keeps what it   *)
(* says of the files, of the other processes and of reported corruption.   *)
(***************************************************************************)
EXTENDS CasCatalogProofs

-----------------------------------------------------------------------------
(* The inductive invariant.                                                *)

\* The history relates each record to the pack sets before and after it.
History ==
  /\ Len(after) = Len(journal) + 1
  /\ \A n \in 1 .. Len(journal) :
       /\ after[n + 1] = Apply(after[n], journal[n])
       /\ Applicable(after[n], journal[n])

\* A catalogued pack has its data file; before the first head there is no
\* record and the indexes of the earlier layout are the catalog.
Disk ==
  /\ Recoverable
  /\ Contents \subseteq data
  /\ head = None => journal = <<>> /\ records = {} /\ index = Contents

\* s is what the journal stood for at the sequence number of s.
Faithful(s) == InJournal(s.last) /\ s.packs = after[Len(s.last) + 1]

\* What process p remembers, and was told.
MemoryAt(p) ==
  /\ cat[p].initialized => head # None /\ Faithful(cat[p]) /\ Faithful(cat[p].snap)
  /\ pc[p] # "replay" => cat[p].packs \subseteq data
  /\ acked[p] \subseteq Contents

\* put_batch before and after it has linked its record, snapshot maintenance
\* on the way included.
Adding(p) ==
  \/ pc[p] \in {"capacity", "place", "append"}
  \/ pc[p] \in Maintenance /\ ret[p] = "capacity"
Added(p) ==
  \/ pc[p] = "tidy"
  \/ pc[p] \in Maintenance /\ ret[p] = "tidy"

\* Under the batch lock, and for the whole collection, memory and disk agree.
HoldsAt(p) ==
  /\ pc[p] = "replay" => Len(head.last) <= Len(cat[p].last)
  /\ pc[p] \in UpToDate /\ cat[p].initialized => cat[p].last = journal
  /\ pc[p] \in UpToDate /\ ~cat[p].initialized => head = None /\ pc[p] \in {"snapshot", "head"}
  /\ pc[p] = "head" => Pending(p) \in snapshots
  /\ Adding(p) => work[p] \notin cat[p].packs
  /\ pc[p] = "append" => work[p] \in data
  /\ Added(p) => work[p] \in cat[p].packs
  /\ goal[p] \in {"gc-plan", "gc-apply"} => cat[p].initialized /\ cat[p].last = journal
  /\ goal[p] = "gc-apply" => dead[p] \subseteq cat[p].packs /\ junk[p] \cap cat[p].packs = {}
  /\ pc[p] = "delete" => work[p] \notin cat[p].packs

Memories == \A p \in Procs : MemoryAt(p)
Holds == \A p \in Procs : HoldsAt(p)

\* A catalog that a synchronisation has found corrupt: the first head was never
\* written, or the marker fits no head; nobody gets past the synchronisation again.
Orphaned ==
  /\ head = None /\ snapshots # {}
  /\ \A p \in Procs : pc[p] \notin UpToDate
Refused ==
  /\ head # None /\ ~DeferralMarkerAccepted
  /\ \A p \in Procs : pc[p] \notin UpToDate

Verdicts == (\E p \in Procs : outcome[p] = "corrupt") => Orphaned \/ Refused

Inv == TypeInv /\ Locks /\ History /\ Disk /\ Memories /\ Holds /\ Verdicts

-----------------------------------------------------------------------------
(* Journals.                                                               *)

\* A journal that has grown has the same prefixes, and itself as one more.
LEMMA PrefixGrows ==
  ASSUME NEW J \in Journals, NEW o \in Operations
  PROVE  /\ Append(J, o) \in Journals /\ Len(Append(J, o)) = Len(J) + 1
         /\ SubSeq(Append(J, o), 1, Len(J) + 1) = Append(J, o)
         /\ \A n \in 0 .. Len(J) : SubSeq(Append(J, o), 1, n) = SubSeq(J, 1, n)
BY DEF Journals

\* A prefix of full length is the journal.
LEMMA WholePrefix ==
  ASSUME NEW J \in Journals
  PROVE  SubSeq(J, 1, Len(J)) = J
BY DEF Journals

\* The next longer prefix is the prefix with the next operation.
LEMMA NextPrefix ==
  ASSUME NEW J \in Journals, NEW n \in 0 .. Len(J) - 1
  PROVE  /\ SubSeq(J, 1, n) \in Journals /\ Len(SubSeq(J, 1, n)) = n
         /\ J[n + 1] \in Operations
         /\ SubSeq(J, 1, n + 1)[n + 1] = J[n + 1]
         /\ SubSeq(SubSeq(J, 1, n + 1), 1, n) = SubSeq(J, 1, n)
         /\ Append(SubSeq(J, 1, n), J[n + 1]) = SubSeq(J, 1, n + 1)
BY DEF Journals

-----------------------------------------------------------------------------
(* The files.                                                              *)

\* Files are written under the batch lock only, after the replay.
LEMMA WritersUpToDate ==
  ASSUME NEW p \in Procs, Writes(p)
  PROVE  pc[p] \in UpToDate /\ pc[p] \in Locked
BY DEF Writes, PruneFile, DeferSnapshot, CreateSnapshot, NewHead, RemoveMarker,
   PlaceData, PlaceIndex,
       LinksAdd, FinishPut, LinksRemove, DeleteData, DeleteIndex, DeleteOrphan,
       UpToDate, Locked

\* The pack set in force is the last one of the history.
LEMMA ContentsLast ==
  ASSUME TypeInv, History
  PROVE  /\ Contents = after[Len(journal) + 1] /\ Contents \in SUBSET Packs
         /\ Len(journal) \in Nat /\ Len(after) = Len(journal) + 1
BY DEF TypeInv, FilesOK, History, Contents, Journals

\* Under the batch lock, after the replay, memory and disk agree.
LEMMA Agreement ==
  ASSUME Inv, NEW p \in Procs, pc[p] \in UpToDate, cat[p].initialized
  PROVE  cat[p].last = journal /\ cat[p].packs = Contents /\ head # None
<1>1. cat[p].last = journal /\ head # None /\ cat[p].packs = after[Len(journal) + 1]
  BY DEF Inv, Holds, HoldsAt, Memories, MemoryAt, Faithful
<1> QED
  BY <1>1, ContentsLast DEF Inv

\* A linked record extends the history and takes nothing back: what was faithful is.
LEMMA LinkFacts ==
  ASSUME Inv, NEW p \in Procs, NEW o \in Operations, cat[p].last = journal,
         Applicable(Contents, o), LinkRecord(p, o)
  PROVE  /\ History'
         /\ journal' = Append(journal, o) /\ Contents' = Apply(Contents, o)
         /\ records' = records \cup {journal'}
         /\ InJournal(journal)' /\ Contents' = after'[Len(journal') + 1]
         /\ \A s \in Journals : InJournal(s) =>
              InJournal(s)' /\ after'[Len(s) + 1] = after[Len(s) + 1]
         /\ \A n \in 0 .. Len(journal) : Prefix(n)' = Prefix(n)
         /\ SubSeq(journal', 1, Len(journal')) = journal'
<1>1. /\ journal \in Journals /\ Len(journal) \in Nat /\ after \in Seq(SUBSET Packs)
      /\ Len(after) = Len(journal) + 1
      /\ Contents = after[Len(journal) + 1] /\ Contents \in SUBSET Packs
  BY ContentsLast DEF Inv, TypeInv, FilesOK
<1>2. /\ journal' = Append(journal, o) /\ after' = Append(after, Apply(Contents, o))
      /\ records' = records \cup {journal'}
  BY DEF LinkRecord
<1>3. /\ journal' \in Journals /\ Len(journal') = Len(journal) + 1
      /\ SubSeq(journal', 1, Len(journal')) = journal'
      /\ \A n \in 0 .. Len(journal) : SubSeq(journal', 1, n) = SubSeq(journal, 1, n)
  BY <1>1, <1>2, PrefixGrows
<1>4. Apply(Contents, o) \in SUBSET Packs
  BY <1>1, StateTypes
<1>5. /\ Len(after') = Len(after) + 1 /\ after'[Len(after) + 1] = Apply(Contents, o)
      /\ \A n \in 1 .. Len(after) : after'[n] = after[n]
  BY <1>1, <1>2, <1>4
<1>6. journal'[Len(journal) + 1] = o /\ \A n \in 1 .. Len(journal) : journal'[n] = journal[n]
  BY <1>1, <1>2 DEF Journals
<1>7. History'
  <2>1. Len(after') = Len(journal') + 1
    BY <1>1, <1>3, <1>5
  <2>2. ASSUME NEW n \in 1 .. Len(journal')
        PROVE  after'[n + 1] = Apply(after'[n], journal'[n]) /\ Applicable(after'[n], journal'[n])
    <3>1. CASE n = Len(journal) + 1
      BY <1>1, <1>3, <1>5, <1>6, <3>1
    <3>2. CASE n # Len(journal) + 1
      <4>1. n \in 1 .. Len(journal) /\ n \in 1 .. Len(after) /\ n + 1 \in 1 .. Len(after)
        BY <1>1, <1>3, <3>2
      <4> QED
        BY <1>5, <1>6, <4>1 DEF Inv, History
    <3> QED
      BY <3>1, <3>2
  <2> QED
    BY <2>1, <2>2 DEF History
<1>8. Contents' = Apply(Contents, o) /\ Contents' = after'[Len(journal') + 1]
  BY <1>1, <1>3, <1>5 DEF Contents
<1>9. \A s \in Journals : InJournal(s) => InJournal(s)' /\ after'[Len(s) + 1] = after[Len(s) + 1]
  <2> SUFFICES ASSUME NEW s \in Journals, InJournal(s)
               PROVE  InJournal(s)' /\ after'[Len(s) + 1] = after[Len(s) + 1]
    OBVIOUS
  <2>1. Len(s) \in 0 .. Len(journal)
    BY <1>1 DEF InJournal, Journals
  <2> QED
    BY <1>1, <1>3, <1>5, <2>1 DEF InJournal, Prefix
<1> QED
  BY <1>1, <1>2, <1>3, <1>7, <1>8, <1>9 DEF InJournal, Prefix

\* A linked record is there for the recovery.
LEMMA LinkRecoverable ==
  ASSUME Inv, NEW p \in Procs, NEW o \in Operations, cat[p].last = journal,
         Applicable(Contents, o), LinkRecord(p, o), UNCHANGED <<snapshots, head>>
  PROVE  Recoverable'
<1> SUFFICES ASSUME head # None PROVE Recoverable'
  BY DEF Recoverable
<1>1. /\ head \in snapshots /\ InJournal(head.last) /\ head.packs = after[Len(head.last) + 1]
      /\ \A n \in Len(head.last) + 1 .. Len(journal) : Prefix(n) \in records
      /\ \A r \in records : InJournal(r)
  BY DEF Inv, Disk, Recoverable
<1>2. head.last \in Journals /\ records \subseteq Journals /\ Len(head.last) \in Nat
  BY DEF Inv, TypeInv, FilesOK, Snapshots, Journals
<1>3. InJournal(head.last)' /\ head.packs = after'[Len(head.last) + 1]
  BY <1>1, <1>2, LinkFacts
<1>4. ASSUME NEW r \in records' PROVE InJournal(r)'
  <2>1. CASE r \in records
    BY <1>1, <1>2, <2>1, LinkFacts
  <2>2. CASE r = journal'
    BY <2>2, LinkFacts DEF InJournal
  <2> QED
    BY <2>1, <2>2, LinkFacts
<1>5. ASSUME NEW n \in Len(head.last) + 1 .. Len(journal') PROVE Prefix(n)' \in records'
  <2>1. journal \in Journals /\ Len(journal) \in Nat /\ Len(journal') = Len(journal) + 1
    BY LinkFacts, PrefixGrows DEF Inv, TypeInv, FilesOK, Journals
  <2>2. CASE n = Len(journal')
    BY <2>2, LinkFacts, Zenon DEF Prefix
  <2>3. CASE n # Len(journal')
    <3>1. n \in Len(head.last) + 1 .. Len(journal) /\ n \in 0 .. Len(journal)
      BY <1>2, <2>1, <2>3
    <3> QED
      BY <1>1, <3>1, LinkFacts
  <2> QED
    BY <2>2, <2>3
<1> QED
  BY <1>1, <1>3, <1>4, <1>5 DEF Recoverable

\* The snapshot under publication is the pack set in force.
LEMMA PendingFacts ==
  ASSUME Inv, NEW p \in Procs, pc[p] \in {"snapshot", "head"}
  PROVE  /\ Pending(p) \in Snapshots /\ Pending(p) # None
         /\ Pending(p).last = journal /\ Pending(p).packs = Contents
<1>1. Pending(p) \in Snapshots /\ Pending(p) # None
  BY PendingType, CatalogAssumption DEF Inv
<1>2. pc[p] \in UpToDate
  BY DEF UpToDate, Locked
<1>3. CASE cat[p].initialized
  BY <1>1, <1>2, <1>3, Agreement DEF Pending, SnapshotOf
<1>4. CASE ~cat[p].initialized
  <2>1. head = None /\ journal = <<>> /\ index = Contents
    BY <1>2, <1>4 DEF Inv, Holds, HoldsAt, Disk
  <2> QED
    BY <1>1, <1>4, <2>1 DEF Pending
<1> QED
  BY <1>3, <1>4

\* Whoever adds or removes has loaded its memory, and it is right.
LEMMA WriterFacts ==
  ASSUME Inv, NEW p \in Procs,
         pc[p] \in {"prune", "clean", "maybe", "put", "capacity", "place", "append", "tidy",
                    "collect", "delete"}
  PROVE  /\ cat[p].initialized /\ cat[p].last = journal /\ cat[p].packs = Contents
         /\ head # None /\ head \in Snapshots
<1>1. pc[p] \in UpToDate
  BY DEF UpToDate, Locked
<1>2. cat[p].initialized
  BY DEF Inv, TypeInv, Ready, ReadyAt
<1>3. cat[p].last = journal /\ cat[p].packs = Contents /\ head # None
  BY <1>1, <1>2, Agreement
<1> QED
  BY <1>2, <1>3 DEF Inv, TypeInv, FilesOK

\* The operation put_batch links adds a pack that is not in the catalog ...
LEMMA AddFacts ==
  ASSUME Inv, NEW p \in Procs, LinksAdd(p)
  PROVE  /\ [op |-> "ADD", pack |-> work[p]] \in Operations
         /\ Applicable(Contents, [op |-> "ADD", pack |-> work[p]])
         /\ Apply(Contents, [op |-> "ADD", pack |-> work[p]]) = Contents \cup {work[p]}
         /\ work[p] \in data /\ work[p] \in Packs /\ cat[p].last = journal
<1>1. cat[p].last = journal /\ cat[p].packs = Contents
  BY WriterFacts DEF LinksAdd
<1>2. work[p] \in Packs /\ work[p] \in data /\ work[p] \notin cat[p].packs
  BY DEF LinksAdd, Inv, TypeInv, Ready, ReadyAt, Holds, HoldsAt, Adding
<1> QED
  BY <1>1, <1>2 DEF Operations, Applicable, Apply

\* ... and those the collector links remove one that is.
LEMMA RemoveFacts ==
  ASSUME Inv, NEW p \in Procs, pc[p] = "collect", NEW k \in dead[p]
  PROVE  /\ [op |-> "REMOVE", pack |-> k] \in Operations
         /\ Applicable(Contents, [op |-> "REMOVE", pack |-> k])
         /\ Apply(Contents, [op |-> "REMOVE", pack |-> k]) = Contents \ {k}
         /\ k \in Packs /\ cat[p].last = journal /\ cat[p].packs = Contents /\ goal[p] = "gc-apply"
<1>1. cat[p].last = journal /\ cat[p].packs = Contents
  BY WriterFacts
<1>2. goal[p] = "gc-apply"
  BY DEF Inv, TypeInv, Ready, ReadyAt
<1>3. k \in cat[p].packs /\ k \in Packs
  BY <1>2 DEF Inv, TypeInv, ProcsOK, Holds, HoldsAt
<1> QED
  BY <1>1, <1>2, <1>3 DEF Operations, Applicable, Apply

\* Every step keeps the history and the files in order.
LEMMA FilesStep ==
  ASSUME Inv, NEW p \in Procs, Quiet \/ Writes(p)
  PROVE  History' /\ Disk'
<1> USE DEF history
<1>1. CASE Quiet
  BY <1>1 DEF Quiet, disk, Inv, History, Disk, Recoverable, InJournal, Prefix, Contents
<1>2. CASE PruneFile(p)
  <2>1. head # None /\ head \in Snapshots /\ UNCHANGED <<head, data, history>>
    BY <1>2, WriterFacts DEF PruneFile
  <2>2. /\ snapshots' \subseteq snapshots /\ (head \in snapshots => head \in snapshots')
        /\ records' \subseteq records
        /\ \A r \in records : Len(r) > Len(head.last) => r \in records'
    <3>1. \A r \in records : Len(r) \in Nat
      BY DEF Inv, TypeInv, FilesOK, Journals
    <3>2. Len(head.last) \in Nat
      BY <2>1 DEF Snapshots, Journals
    <3> QED
      BY <1>2, <3>1, <3>2 DEF PruneFile, StaleSnapshots, StaleRecords
  <2>3. ASSUME NEW n \in Len(head.last) + 1 .. Len(journal) PROVE Prefix(n) \in records'
    <3>1. n \in 0 .. Len(journal) /\ Len(Prefix(n)) = n /\ Len(head.last) \in Nat
      BY <2>1, <2>3 DEF Prefix, Inv, TypeInv, FilesOK, Snapshots, Journals
    <3>2. Prefix(n) \in records
      BY <2>1 DEF Inv, Disk, Recoverable
    <3> QED
      BY <2>2, <3>1, <3>2
  <2>4. Recoverable'
    BY <2>1, <2>2, <2>3 DEF Inv, Disk, Recoverable, InJournal, Prefix
  <2> QED
    BY <2>1, <2>4 DEF Inv, History, Disk, Contents
<1>3. CASE DeferSnapshot(p) \/ RemoveMarker(p)
  BY <1>3, Zenon DEF DeferSnapshot, RemoveMarker, Inv, History, Disk, Recoverable,
     InJournal, Prefix, Contents
<1>4. CASE CreateSnapshot(p)
  BY <1>4 DEF CreateSnapshot, Inv, History, Disk, Recoverable, InJournal, Prefix,
     Contents
<1>5. CASE NewHead(p)
  <2>1. /\ Pending(p) \in Snapshots /\ Pending(p) # None
        /\ Pending(p).last = journal /\ Pending(p).packs = Contents
    BY <1>5, PendingFacts DEF NewHead
  <2>2. head' = Pending(p) /\ head' \in snapshots
        /\ UNCHANGED <<snapshots, records, data, index, history>>
    BY <1>5 DEF NewHead, Inv, Holds, HoldsAt
  <2>3. Contents = after[Len(journal) + 1] /\ Len(journal) \in Nat /\ journal \in Journals
    BY ContentsLast DEF Inv, TypeInv, FilesOK
  <2>4. SubSeq(journal, 1, Len(journal)) = journal
    BY <2>3, WholePrefix
  <2>5. \A r \in records : InJournal(r)
    BY DEF Inv, Disk, Recoverable
  <2>6. Recoverable'
    BY <2>1, <2>2, <2>3, <2>4, <2>5 DEF Recoverable, InJournal, Prefix
  <2> QED
    BY <2>1, <2>2, <2>6 DEF Inv, History, Disk, Contents
<1>6. CASE PlaceData(p)
  BY <1>6, Zenon DEF PlaceData, Inv, History, Disk, Recoverable, InJournal, Prefix,
     Contents
<1>7. CASE PlaceIndex(p) \/ FinishPut(p) \/ DeleteIndex(p)
  <2>1. head # None /\ UNCHANGED <<snapshots, head, records, data, history>>
    BY <1>7, WriterFacts DEF PlaceIndex, FinishPut, DeleteIndex
  <2> QED
    BY <2>1 DEF Inv, History, Disk, Recoverable, InJournal, Prefix, Contents
<1>8. CASE LinksAdd(p)
  <2> DEFINE o == [op |-> "ADD", pack |-> work[p]]
  <2>1. /\ o \in Operations /\ Applicable(Contents, o) /\ Apply(Contents, o) = Contents \cup {work[p]}
        /\ work[p] \in data /\ cat[p].last = journal
    BY <1>8, AddFacts
  <2>2. LinkRecord(p, o) /\ UNCHANGED <<snapshots, head, data>> /\ head # None
    BY <1>8, WriterFacts DEF LinksAdd
  <2> HIDE DEF o
  <2>3. History' /\ Contents' = Contents \cup {work[p]}
    BY <2>1, <2>2, LinkFacts
  <2>4. Recoverable'
    BY <2>1, <2>2, LinkRecoverable
  <2> QED
    BY <2>1, <2>2, <2>3, <2>4 DEF Inv, Disk
<1>9. CASE LinksRemove(p)
  <2> PICK k \in dead[p] : LinkRecord(p, [op |-> "REMOVE", pack |-> k])
    BY <1>9 DEF LinksRemove
  <2> DEFINE o == [op |-> "REMOVE", pack |-> k]
  <2>1. /\ o \in Operations /\ Applicable(Contents, o) /\ Apply(Contents, o) = Contents \ {k}
        /\ cat[p].last = journal
    BY <1>9, RemoveFacts DEF LinksRemove
  <2>2. LinkRecord(p, o) /\ UNCHANGED <<snapshots, head, data>> /\ head # None
    BY <1>9, WriterFacts DEF LinksRemove
  <2> HIDE DEF o
  <2>3. History' /\ Contents' = Contents \ {k}
    BY <2>1, <2>2, LinkFacts
  <2>4. Recoverable'
    BY <2>1, <2>2, LinkRecoverable
  <2> QED
    BY <2>1, <2>2, <2>3, <2>4 DEF Inv, Disk
<1>10. CASE DeleteData(p) \/ DeleteOrphan(p)
  <2>1. head # None /\ UNCHANGED <<snapshots, head, records, history>> /\ cat[p].packs = Contents
    BY <1>10, WriterFacts DEF DeleteData, DeleteOrphan
  <2>2. goal[p] = "gc-apply"
    BY <1>10, Zenon DEF DeleteData, DeleteOrphan, Inv, TypeInv, Ready, ReadyAt
  <2>3. Contents \subseteq data'
    BY <1>10, <2>1, <2>2 DEF DeleteData, DeleteOrphan, Inv, Holds, HoldsAt, Disk
  <2> QED
    BY <2>1, <2>3 DEF Inv, History, Disk, Recoverable, InJournal, Prefix, Contents
<1> QED
  BY <1>1, <1>2, <1>3, <1>4, <1>5, <1>6, <1>7, <1>8, <1>9, <1>10 DEF Writes

-----------------------------------------------------------------------------
(* Memories.                                                               *)

\* A step keeps a faithful pack set faithful.
LEMMA FaithfulStep ==
  ASSUME Inv, NEW p \in Procs, Quiet \/ Writes(p), NEW j \in Journals, InJournal(j)
  PROVE  InJournal(j)' /\ after'[Len(j) + 1] = after[Len(j) + 1]
<1>1. CASE UNCHANGED history
  BY <1>1, Zenon DEF history, InJournal, Prefix
<1>2. CASE LinksAdd(p)
  BY <1>2, AddFacts, LinkFacts DEF LinksAdd
<1>3. CASE LinksRemove(p)
  <2> PICK k \in dead[p] : LinkRecord(p, [op |-> "REMOVE", pack |-> k])
    BY <1>3 DEF LinksRemove
  <2> QED
    BY <1>3, RemoveFacts, LinkFacts DEF LinksRemove
<1> QED
  BY <1>1, <1>2, <1>3
     DEF Quiet, Writes, PruneFile, DeferSnapshot, CreateSnapshot, NewHead, RemoveMarker,
         PlaceData,
         PlaceIndex, FinishPut, DeleteData, DeleteIndex, DeleteOrphan

\* A head is never lost.
LEMMA HeadStays ==
  ASSUME Inv, NEW p \in Procs, Quiet \/ Writes(p), head # None
  PROVE  head' # None
BY PendingFacts
   DEF Quiet, disk, Writes, PruneFile, DeferSnapshot, CreateSnapshot, NewHead,
       RemoveMarker, PlaceData,
       PlaceIndex, FinishPut, LinksAdd, LinksRemove, DeleteData, DeleteIndex,
       DeleteOrphan

\* Data files and catalogued packs go away in a collection only.
LEMMA OnlyCollectionsRemove ==
  ASSUME Inv, NEW p \in Procs, Quiet \/ Writes(p), goal[p] \notin Collection
  PROVE  data \subseteq data' /\ Contents \subseteq Contents'
<1>1. CASE LinksAdd(p)
  <2>1. Contents' = Contents \cup {work[p]}
    BY <1>1, AddFacts, LinkFacts DEF LinksAdd
  <2> QED
    BY <1>1, <2>1 DEF LinksAdd
<1>2. pc[p] \notin {"collect", "delete"}
  BY DEF Inv, TypeInv, Ready, ReadyAt, Collection
<1> QED
  BY <1>1, <1>2
     DEF Quiet, disk, history, Writes, PruneFile, DeferSnapshot, CreateSnapshot,
         NewHead, RemoveMarker,
         PlaceData, PlaceIndex, FinishPut, LinksRemove, DeleteData, DeleteIndex,
         DeleteOrphan, Contents

\* The journal state that memory and snapshot of a process stand for does not change
\* under it, whoever takes a step.
LEMMA KeepsFaithful ==
  ASSUME Inv, NEW p \in Procs, Quiet \/ Writes(p), NEW q \in Procs, cat[q].initialized
  PROVE  /\ head' # None
         /\ \A c : c.last = cat[q].last /\ c.packs = cat[q].packs /\ c.snap = cat[q].snap
              => Faithful(c)' /\ Faithful(c.snap)'
         /\ \A s : s = cat[q].snap => Faithful(s)'
<1>1. /\ head # None /\ InJournal(cat[q].last) /\ cat[q].packs = after[Len(cat[q].last) + 1]
      /\ InJournal(cat[q].snap.last) /\ cat[q].snap.packs = after[Len(cat[q].snap.last) + 1]
  BY DEF Inv, Memories, MemoryAt, Faithful
<1>2. cat[q].last \in Journals /\ cat[q].snap.last \in Journals
  BY DEF Inv, TypeInv, ProcsOK, CatalogStates, Ready, ReadyAt, Snapshots
<1>3. \A j \in Journals : InJournal(j) => InJournal(j)' /\ after'[Len(j) + 1] = after[Len(j) + 1]
  BY FaithfulStep
<1> QED
  BY <1>1, <1>2, <1>3, HeadStays DEF Faithful

\* The other processes keep memory, promises and place.
LEMMA OthersKeep ==
  ASSUME Inv, NEW p \in Procs, Quiet \/ Writes(p), NEW q \in Procs, q # p, Same(q)
  PROVE  MemoryAt(q)' /\ HoldsAt(q)'
<1>1. MemoryAt(q) /\ HoldsAt(q)
  BY DEF Inv, Memories, Holds
<1>2. cat'[q].initialized => head' # None /\ Faithful(cat[q])' /\ Faithful(cat[q].snap)'
  BY KeepsFaithful DEF Same
<1>3. (pc'[q] # "replay" => cat'[q].packs \subseteq data') /\ acked'[q] \subseteq Contents'
  <2>1. CASE goal[p] \in Collection
    BY <2>1, CollectorAlone DEF Inv, Same, Uninitialized
  <2>2. CASE goal[p] \notin Collection
    BY <1>1, <2>2, OnlyCollectionsRemove DEF MemoryAt, Same
  <2> QED
    BY <2>1, <2>2
<1>4. HoldsAt(q)'
  <2>1. CASE Quiet
    BY <1>1, <2>1, Zenon DEF Quiet, disk, history, Same, HoldsAt, Adding, Added, Pending
  <2>2. CASE Writes(p)
    <3>1. pc[q] \notin Locked
      BY <2>2, WritersUpToDate, OneHolder DEF Inv
    <3>2. goal[q] \notin Collection
      BY <2>2, WritersUpToDate, CollectorAlone DEF Inv, Locked
    <3> QED
      BY <3>1, <3>2, Zenon DEF Same, HoldsAt, Adding, Added, Locked, UpToDate,
         Maintenance, Collection
  <2> QED
    BY <2>1, <2>2, Zenon
<1> QED
  BY <1>2, <1>3, <1>4 DEF MemoryAt

\* A process that holds the batch lock at the replay and has seen all record files has
\* caught up with the journal; otherwise the next record file continues its memory.
LEMMA ReplayFacts ==
  ASSUME Inv, NEW p \in Procs, pc[p] = "replay"
  PROVE  /\ Unseen(cat[p]) = {} => cat[p].last = journal /\ cat[p].packs = Contents
         /\ \A r \in Unseen(cat[p]) :
              (\A s \in Unseen(cat[p]) : Len(r) <= Len(s)) =>
                /\ Continues(r, cat[p]) /\ r[Len(r)] \in Operations
                /\ Append(cat[p].last, r[Len(r)]) = r
                /\ InJournal(r) /\ Apply(cat[p].packs, r[Len(r)]) = after[Len(r) + 1]
<1> DEFINE c == cat[p]
           n == Len(c.last)
<1>1. /\ c.initialized /\ c.last \in Journals /\ n \in Nat /\ head # None /\ Len(head.last) \in Nat
      /\ journal \in Journals /\ Len(journal) \in Nat /\ records \subseteq Journals
  BY DEF Inv, TypeInv, FilesOK, ProcsOK, CatalogStates, Ready, ReadyAt, Journals,
     Snapshots
<1>2. /\ n <= Len(journal) /\ c.last = Prefix(n) /\ c.packs = after[n + 1]
      /\ Len(head.last) <= n
  BY <1>1, Zenon DEF Inv, Memories, MemoryAt, Faithful, InJournal, Holds, HoldsAt
<1>3. /\ \A m \in Len(head.last) + 1 .. Len(journal) : Prefix(m) \in records
      /\ \A r \in records : InJournal(r)
  BY <1>1 DEF Inv, Disk, Recoverable
<1>4. ASSUME n < Len(journal)
      PROVE  /\ Prefix(n + 1) \in Unseen(c) /\ Len(Prefix(n + 1)) = n + 1
             /\ journal[n + 1] \in Operations /\ Prefix(n + 1)[n + 1] = journal[n + 1]
             /\ SubSeq(Prefix(n + 1), 1, n) = c.last
             /\ Append(c.last, journal[n + 1]) = Prefix(n + 1)
  <2>1. n \in 0 .. Len(journal) - 1 /\ n + 1 \in Len(head.last) + 1 .. Len(journal)
    BY <1>1, <1>2, <1>4
  <2>2. Prefix(n + 1) \in records /\ Len(Prefix(n + 1)) = n + 1
    BY <1>1, <1>3, <2>1 DEF Prefix, Journals
  <2>3. Prefix(n + 1) \in Unseen(c)
    BY <1>1, <2>2 DEF Unseen
  <2>4. /\ journal[n + 1] \in Operations
        /\ SubSeq(journal, 1, n + 1)[n + 1] = journal[n + 1]
        /\ SubSeq(SubSeq(journal, 1, n + 1), 1, n) = SubSeq(journal, 1, n)
        /\ Append(SubSeq(journal, 1, n), journal[n + 1]) = SubSeq(journal, 1, n + 1)
    BY <1>1, <2>1, NextPrefix
  <2> QED
    BY <1>2, <2>2, <2>3, <2>4 DEF Prefix
<1>5. ASSUME Unseen(c) = {} PROVE c.last = journal /\ c.packs = Contents
  <2>1. n = Len(journal)
    BY <1>1, <1>2, <1>4, <1>5
  <2>2. c.last = journal
    BY <1>1, <1>2, <2>1, WholePrefix, Zenon DEF Prefix
  <2> QED
    BY <1>2, <2>1, <2>2, ContentsLast DEF Inv
<1>6. ASSUME NEW r \in Unseen(c), \A s \in Unseen(c) : Len(r) <= Len(s)
      PROVE  /\ Continues(r, c) /\ r[Len(r)] \in Operations /\ Append(c.last, r[Len(r)]) = r
             /\ InJournal(r) /\ Apply(c.packs, r[Len(r)]) = after[Len(r) + 1]
  <2>1. r \in Journals /\ Len(r) \in Nat /\ Len(r) > n /\ InJournal(r)
    BY <1>1, <1>3 DEF Unseen, Journals
  <2>2. n < Len(journal)
    BY <1>1, <2>1 DEF InJournal
  <2>3. Len(r) <= n + 1
    BY <1>4, <1>6, <2>2
  <2>4. Len(r) = n + 1 /\ r = Prefix(n + 1)
    BY <1>1, <2>1, <2>3 DEF InJournal
  <2>5. /\ r[n + 1] = journal[n + 1] /\ SubSeq(r, 1, n) = c.last
        /\ Append(c.last, r[n + 1]) = r /\ r[n + 1] \in Operations
    BY <1>4, <2>2, <2>4
  <2>6. Applicable(c.packs, r[n + 1]) /\ Apply(c.packs, r[n + 1]) = after[n + 1 + 1]
    <3>1. n + 1 \in 1 .. Len(journal)
      BY <1>1, <2>2
    <3> QED
      BY <1>2, <2>5, <3>1 DEF Inv, History
  <2> QED
    BY <2>1, <2>4, <2>5, <2>6 DEF Continues
<1> QED
  BY <1>5, <1>6

-----------------------------------------------------------------------------
(* Corruption.                                                             *)

\* A head that the memory knows has not changed.
LEMMA HeadKnown ==
  ASSUME Inv, NEW p \in Procs, head # None
  PROVE  ~HeadChanged(cat[p]) /\ head \in snapshots
<1>1. head \in snapshots /\ InJournal(head.last) /\ head.packs = after[Len(head.last) + 1]
  BY DEF Inv, Disk, Recoverable
<1>2. ASSUME cat[p].initialized, Len(head.last) = Len(cat[p].snap.last) PROVE cat[p].snap = head
  <2>1. InJournal(cat[p].snap.last) /\ cat[p].snap.packs = after[Len(cat[p].snap.last) + 1]
    BY <1>2 DEF Inv, Memories, MemoryAt, Faithful
  <2>2. cat[p].snap.last = head.last /\ cat[p].snap.packs = head.packs
    BY <1>1, <1>2, <2>1 DEF InJournal
  <2>3. cat[p].snap \in Snapshots /\ head \in Snapshots
    BY <1>2 DEF Inv, TypeInv, FilesOK, ProcsOK, CatalogStates, Ready, ReadyAt
  <2> QED
    BY <2>2, <2>3 DEF Snapshots
<1> QED
  BY <1>1, <1>2 DEF HeadChanged

\* How a process gets past the synchronisation ...
Admitted(p) ==
  \/ pc[p] = "sync" /\ head = None /\ snapshots = {}
  \/ pc[p] = "replay" /\ cat[p].last = journal /\ (MarkerObsolete \/ MarkerFits(cat[p]))

\* ... and how it is told that the catalog is corrupt.
Rejected(p) ==
  /\ Quiet /\ pc'[p] \notin UpToDate
  /\ \/ pc[p] = "sync" /\ head = None /\ snapshots # {}
     \/ /\ pc[p] = "replay" /\ head # None /\ cat[p].last = journal
        /\ ~MarkerObsolete /\ ~MarkerFits(cat[p])

\* Where a failure leads, and what it reports.
LEMMA FailVerdict ==
  ASSUME Inv, NEW p \in Procs, NEW o, Fail(p, o)
  PROVE  pc'[p] \notin UpToDate /\ outcome'[p] = o
BY DEF Fail, EndPut, Vanish, Goto, Return, Inv, TypeInv, ProcsOK, UpToDate, Locked

\* Nobody gets past the synchronisation, or is told of corruption, in any
\* other way.
LEMMA VerdictCases ==
  ASSUME Inv, NEW p \in Procs, Work(p) \/ Call(p) \/ Fault(p)
  PROVE  /\ pc'[p] \in UpToDate => pc[p] \in UpToDate \/ Admitted(p)
         /\ outcome'[p] = "corrupt" => outcome[p] = "corrupt" \/ Rejected(p)
<1>1. CASE LockBatch(p) \/ SyncWithHead(p) \/ SyncedForOpen(p) \/
          SyncedForPut(p) \/ Open(p) \/ OpenCollector(p) \/
          (\E k \in Packs : PutBatch(p, k))
  BY <1>1 DEF LockBatch, SyncWithHead, SyncedForOpen, SyncedForPut, Open,
     OpenCollector, PutBatch, Goto, Return, local, Inv, TypeInv, ProcsOK,
     UpToDate, Locked
<1>2. CASE SyncWithoutHead(p)
  <2>1. CASE Fail(p, "corrupt")
    <3>1. records = {} /\ index \subseteq data
      BY <1>2 DEF SyncWithoutHead, Inv, Disk
    <3>2. CASE snapshots = {}
      BY <1>2, <3>1, <3>2 DEF SyncWithoutHead, Admitted
    <3>3. CASE snapshots # {}
      BY <1>2, <2>1, <3>3, FailVerdict DEF SyncWithoutHead, Rejected, Quiet
    <3> QED
      BY <3>2, <3>3
  <2>2. CASE ~Fail(p, "corrupt")
    BY <1>2, <2>2 DEF SyncWithoutHead, Admitted
  <2> QED
    BY <2>1, <2>2, Zenon
<1>3. CASE LoadSnapshot(p)
  <2>1. head # None
    BY <1>3 DEF LoadSnapshot, Inv, TypeInv, Ready, ReadyAt
  <2> QED
    BY <1>3, <2>1, HeadKnown, Zenon DEF LoadSnapshot, Goto, Return, local, Inv,
       TypeInv, ProcsOK, UpToDate, Locked
<1>4. CASE ReplayRecord(p)
  <2>1. UNCHANGED <<pc, outcome>>
    BY <1>4, ReplayFacts, Zenon DEF ReplayRecord
  <2> QED
    BY <2>1
<1>5. CASE LoadDeferred(p)
  <2>1. pc[p] = "replay" /\ head # None /\ cat[p].last = journal /\ Quiet
    BY <1>5, ReplayFacts DEF LoadDeferred, Quiet, Inv, TypeInv, Ready, ReadyAt
  <2>2. CASE MarkerObsolete \/ MarkerFits(cat[p])
    BY <1>5, <2>1, <2>2 DEF LoadDeferred, Admitted
  <2>3. CASE ~(MarkerObsolete \/ MarkerFits(cat[p]))
    BY <1>5, <2>1, <2>3, FailVerdict DEF LoadDeferred, Rejected
  <2> QED
    BY <2>2, <2>3
<1>6. CASE PruneFile(p) \/ SkipSnapshot(p) \/ DeferSnapshot(p) \/
          BeginSnapshot(p) \/ CreateSnapshot(p) \/ WriteHead(p) \/
          RemoveMarker(p)
  <2>1. pc[p] \in UpToDate /\ UNCHANGED outcome
    BY <1>6 DEF PruneFile, SkipSnapshot, DeferSnapshot, BeginSnapshot,
       CreateSnapshot, WriteHead, RemoveMarker, UpToDate, Locked
  <2> QED
    BY <2>1
<1>7. CASE CheckCapacity(p) \/ PlaceData(p) \/ PlaceIndex(p) \/ VerifyPair(p)
          \/ AppendAdd(p) \/ BeginCollect(p) \/ AppendRemove(p) \/
          DeleteData(p) \/ DeleteIndex(p) \/ DeleteOrphan(p) \/
          CompactAfterCollect(p)
  <2>1. pc[p] \in UpToDate /\ UNCHANGED outcome
    BY <1>7, Zenon DEF CheckCapacity, PlaceData, PlaceIndex, VerifyPair, AppendAdd,
       BeginCollect, AppendRemove, DeleteData, DeleteIndex, DeleteOrphan,
       CompactAfterCollect, UpToDate, Locked
  <2> QED
    BY <2>1
<1>8. CASE PutPresent(p)
  <2>1. work[p] \in data
    BY <1>8, WriterFacts, Zenon DEF PutPresent, Inv, Disk
  <2> QED
    BY <1>8, <2>1, Zenon DEF PutPresent, EndPut, Goto, Return, local, Inv, TypeInv,
       ProcsOK, UpToDate, Locked
<1>9. CASE RecheckCapacity(p) \/ PutOverflow(p) \/ FinishPut(p)
  BY <1>9, Zenon DEF RecheckCapacity, PutOverflow, FinishPut, EndPut, Goto, Return,
     local, Inv, TypeInv, ProcsOK, UpToDate, Locked
<1>10. CASE CollectorOpened(p) \/ DrawPlan(p)
  <2>1. pc' = [pc EXCEPT ![p] = "wait"] /\ UNCHANGED outcome
    BY <1>10, Zenon DEF CollectorOpened, DrawPlan, Goto
  <2> QED
    BY <2>1 DEF Inv, TypeInv, ProcsOK, UpToDate, Locked
<1>11. CASE EndCollect(p) \/ Crash(p) \/ Close(p)
  BY <1>11 DEF EndCollect, Crash, Close, Vanish, Goto, Return, local, Inv,
     TypeInv, ProcsOK, UpToDate, Locked
<1>12. CASE IoError(p) \/ IoErrorAfterRecord(p) \/ IoErrorAfterHead(p)
  <2>1. Fail(p, "io")
    BY <1>12, Zenon DEF IoError, IoErrorAfterRecord, IoErrorAfterHead
  <2>2. pc'[p] \notin UpToDate /\ outcome'[p] = "io"
    BY <2>1, FailVerdict, Zenon
  <2> QED
    BY <2>2, Zenon
<1> QED
  BY <1>1, <1>2, <1>3, <1>4, <1>5, <1>6, <1>7, <1>8, <1>9, <1>10, <1>11, <1>12, Zenon
     DEF Work, Sync, Maintain, Put, Collect, Call, Fault

\* A catalog found corrupt stays refused, and is refused for one of the two reasons.
LEMMA VerdictsStep ==
  ASSUME Inv, NEW p \in Procs, Work(p) \/ Call(p) \/ Fault(p)
  PROVE  Verdicts'
<1>1. /\ pc'[p] \in UpToDate => pc[p] \in UpToDate \/ Admitted(p)
      /\ outcome'[p] = "corrupt" => outcome[p] = "corrupt" \/ Rejected(p)
  BY VerdictCases, Zenon
<1>2. \A q \in Procs : q # p => pc'[q] = pc[q] /\ outcome'[q] = outcome[q]
  BY OthersSame, Zenon DEF Inv, Same
<1>3. CASE Rejected(p)
  <2>1. pc[p] \in Locked
    BY <1>3 DEF Rejected, Locked
  <2>2. \A q \in Procs : pc'[q] \notin UpToDate
    BY <1>2, <1>3, <2>1, OneHolder DEF Rejected, Inv, UpToDate
  <2>3. CASE head = None
    BY <1>3, <2>2, <2>3 DEF Rejected, Quiet, disk, Verdicts, Orphaned
  <2>4. CASE head # None
    <3>1. ~DeferralMarkerAccepted
      BY <1>3, <2>4 DEF Rejected, DeferralMarkerAccepted, MarkerObsolete, MarkerFits
    <3>2. ~DeferralMarkerAccepted'
      BY <1>3, <3>1 DEF Rejected, Quiet, disk, history, DeferralMarkerAccepted,
         MarkerObsolete
    <3> QED
      BY <1>3, <2>2, <2>4, <3>2 DEF Rejected, Quiet, disk, Verdicts, Refused
  <2> QED
    BY <2>3, <2>4, Zenon
<1>4. CASE ~Rejected(p)
  <2> SUFFICES ASSUME NEW q \in Procs, outcome'[q] = "corrupt" PROVE Orphaned' \/ Refused'
    BY DEF Verdicts
  <2>1. outcome[q] = "corrupt"
    BY <1>1, <1>2, <1>4
  <2>2. Orphaned \/ Refused
    BY <2>1 DEF Inv, Verdicts
  <2>3. \A r \in Procs : pc[r] \notin UpToDate
    BY <2>2 DEF Orphaned, Refused
  <2>4. Quiet
    BY <2>3, FilesChange, WritersUpToDate, Zenon
  <2>5. ~Admitted(p)
    BY <2>2 DEF Admitted, Orphaned, Refused, DeferralMarkerAccepted, MarkerObsolete,
       MarkerFits, Inv, TypeInv, Ready, ReadyAt
  <2>6. \A r \in Procs : pc'[r] \notin UpToDate
    BY <1>1, <1>2, <2>3, <2>5
  <2>7. DeferralMarkerAccepted' = DeferralMarkerAccepted
    BY <2>4 DEF Quiet, disk, history, DeferralMarkerAccepted, MarkerObsolete
  <2> QED
    BY <2>2, <2>4, <2>6, <2>7 DEF Quiet, disk, Orphaned, Refused
<1> QED
  BY <1>3, <1>4

=============================================================================
