----------------------------- MODULE CasObjects -----------------------------
(***************************************************************************)
(* One object of the content-addressed store (crates/clew/src/cas.rs) and  *)
(* the processes that publish and read it.                                 *)
(*                                                                         *)
(* The object may lie in a loose file named after its digest, in a         *)
(* catalogued pack, in both or in neither.  put and read lock the digest,  *)
(* exclusively and shared; put_batch holds only the batch lock.  A read    *)
(* that finds neither copy takes the digest lock again, exclusively, moves *)
(* the loose file to quarantine, catches up with the catalog and looks     *)
(* once more.  Digests do not interfere, so one is enough.                 *)
(***************************************************************************)
EXTENDS Naturals

CONSTANTS Procs, None

ASSUME ObjectsAssumption == None \notin Procs

VARIABLES
  file,        \* loose file: "absent", "good" or "bad" (bytes do not hash to the digest)
  packed,      \* a pack of the durable catalog holds the object
  shared,      \* processes holding the digest lock shared
  exclusive,   \* process holding it exclusively
  batch,       \* process holding the batch lock
  known,       \* processes whose in-memory catalog has the location
  pc,
  result,      \* result of the last call
  wasPacked    \* history: packed when the current or last call began

locks == <<shared, exclusive, batch>>
vars == <<file, packed, locks, known, pc, result, wasPacked>>

Goto(p, l) == pc' = [pc EXCEPT ![p] = l]
Return(p, r) == Goto(p, "idle") /\ result' = [result EXCEPT ![p] = r]

Init ==
  /\ file \in {"absent", "good", "bad"}
  /\ packed \in BOOLEAN
  /\ shared = {} /\ exclusive = None /\ batch = None
  /\ known \in SUBSET Procs /\ (known # {} => packed)
  /\ pc = [p \in Procs |-> "idle"]
  /\ result = [p \in Procs |-> "none"]
  /\ wasPacked = [p \in Procs |-> packed]

\* A call starts; the shared lock of a lease returned earlier has been dropped.
Begin(p, l) ==
  /\ pc[p] = "idle"
  /\ shared' = shared \ {p}
  /\ Goto(p, l)
  /\ wasPacked' = [wasPacked EXCEPT ![p] = packed]
  /\ UNCHANGED <<file, packed, exclusive, batch, known, result>>

LockExclusive(p, from, to) ==
  /\ pc[p] = from
  /\ exclusive = None /\ shared = {}
  /\ exclusive' = p
  /\ Goto(p, to)
  /\ UNCHANGED <<file, packed, shared, batch, known, result, wasPacked>>

-----------------------------------------------------------------------------
(* put: publish as a loose file.                                           *)

\* An intact file is kept; anything else in its place is quarantined first.
PutExisting(p) ==
  /\ pc[p] = "put-check" /\ file = "good"
  /\ exclusive' = None
  /\ Return(p, "stored")
  /\ UNCHANGED <<file, packed, shared, batch, known, wasPacked>>

PutOver(p) ==
  /\ pc[p] = "put-check" /\ file # "good"
  /\ file' = "absent"
  /\ Goto(p, "put-write")
  /\ UNCHANGED <<packed, locks, known, result, wasPacked>>

PutWrite(p) ==
  /\ pc[p] = "put-write"
  /\ file' = "good"
  /\ Goto(p, "put-verify")
  /\ UNCHANGED <<packed, locks, known, result, wasPacked>>

PutVerify(p) ==
  /\ pc[p] = "put-verify"
  /\ exclusive' = None
  /\ Return(p, IF file = "good" THEN "stored" ELSE "failed")
  /\ UNCHANGED <<file, packed, shared, batch, known, wasPacked>>

-----------------------------------------------------------------------------
(* put_batch: publish in a pack, whether or not a loose file exists.       *)

\* Mutant: put_batch also takes the digest lock, after the batch lock.
BatchLockThenDigest(p) ==
  /\ pc[p] = "batch-wait"
  /\ batch = None \/ batch = p
  /\ IF batch = None
       THEN batch' = p /\ UNCHANGED <<exclusive, pc>>
       ELSE exclusive = None /\ shared = {} /\ exclusive' = p /\ Goto(p, "batch") /\ UNCHANGED batch
  /\ UNCHANGED <<file, packed, shared, known, result, wasPacked>>

BatchLock(p) ==
  /\ pc[p] = "batch-wait" /\ batch = None
  /\ batch' = p
  /\ Goto(p, "batch")
  /\ UNCHANGED <<file, packed, shared, exclusive, known, result, wasPacked>>

BatchStore(p) ==
  /\ pc[p] = "batch"
  /\ packed' = TRUE
  /\ known' = known \cup {p}
  /\ batch' = None
  /\ Return(p, "stored")
  /\ UNCHANGED <<file, shared, exclusive, wasPacked>>

-----------------------------------------------------------------------------
(* read.                                                                   *)

ReadLock(p) ==
  /\ pc[p] = "read-wait" /\ exclusive = None
  /\ shared' = shared \cup {p}
  /\ Goto(p, "read")
  /\ UNCHANGED <<file, packed, exclusive, batch, known, result, wasPacked>>

\* Found: the lease that is returned keeps the shared lock.
ReadFound(p) ==
  /\ pc[p] = "read" /\ (p \in known \/ file = "good")
  /\ Return(p, "bytes")
  /\ UNCHANGED <<file, packed, locks, known, wasPacked>>

\* Not found, or not what the digest says: give up the shared lock.
ReadMiss(p) ==
  /\ pc[p] = "read" /\ p \notin known /\ file # "good"
  /\ shared' = shared \ {p}
  /\ Goto(p, "read-upgrade")
  /\ UNCHANGED <<file, packed, exclusive, batch, known, result, wasPacked>>

\* Under the exclusive lock, whatever file is there now goes to quarantine.
ReadQuarantine(p) ==
  /\ pc[p] = "read-again"
  /\ file' = "absent"
  /\ Goto(p, "read-sync")
  /\ UNCHANGED <<packed, locks, known, result, wasPacked>>

ReadSyncLock(p) ==
  /\ pc[p] = "read-sync" /\ batch = None
  /\ batch' = p
  /\ Goto(p, "read-synced")
  /\ UNCHANGED <<file, packed, shared, exclusive, known, result, wasPacked>>

\* Mutant: the catalog is not consulted a second time.
ReadLastWithoutSync(p) ==
  /\ pc[p] = "read-synced"
  /\ batch' = None /\ exclusive' = None
  /\ Return(p, "missing")
  /\ UNCHANGED <<file, packed, shared, known, wasPacked>>

ReadLast(p) ==
  /\ pc[p] = "read-synced"
  /\ batch' = None /\ exclusive' = None
  /\ known' = IF packed THEN known \cup {p} ELSE known
  /\ IF packed
       THEN Goto(p, "read-relock") /\ UNCHANGED result
       ELSE Return(p, "missing")
  /\ UNCHANGED <<file, packed, shared, wasPacked>>

ReadRelock(p) ==
  /\ pc[p] = "read-relock" /\ exclusive = None
  /\ shared' = shared \cup {p}
  /\ Return(p, "bytes")
  /\ UNCHANGED <<file, packed, exclusive, batch, known, wasPacked>>

-----------------------------------------------------------------------------

\* Storage decay: the loose file no longer holds what was written.
Decay ==
  /\ file = "good"
  /\ file' = "bad"
  /\ UNCHANGED <<packed, locks, known, pc, result, wasPacked>>

\* A process stops and a new one, which has read the catalog, takes its place.
Restart(p) ==
  /\ pc[p] # "idle" \/ p \in shared
  /\ shared' = shared \ {p}
  /\ exclusive' = IF exclusive = p THEN None ELSE exclusive
  /\ batch' = IF batch = p THEN None ELSE batch
  /\ known' = IF packed THEN known \cup {p} ELSE known \ {p}
  /\ Return(p, "none")
  /\ UNCHANGED <<file, packed, wasPacked>>

Put(p) ==
  \/ LockExclusive(p, "put-wait", "put-check")
  \/ PutExisting(p) \/ PutOver(p) \/ PutWrite(p) \/ PutVerify(p)

PutBatch(p) == BatchLock(p) \/ BatchStore(p)

Read(p) ==
  \/ ReadLock(p) \/ ReadFound(p) \/ ReadMiss(p)
  \/ LockExclusive(p, "read-upgrade", "read-again")
  \/ ReadQuarantine(p) \/ ReadSyncLock(p) \/ ReadLast(p) \/ ReadRelock(p)

Work(p) == Put(p) \/ PutBatch(p) \/ Read(p)

Call(p) == \E l \in {"put-wait", "batch-wait", "read-wait"} : Begin(p, l)

\* The caller drops the lease it was given.
DropLease(p) ==
  /\ pc[p] = "idle" /\ p \in shared
  /\ shared' = shared \ {p}
  /\ UNCHANGED <<file, packed, exclusive, batch, known, pc, result, wasPacked>>

Next ==
  \/ Decay
  \/ \E p \in Procs : Work(p) \/ Call(p) \/ DropLease(p) \/ Restart(p)

Spec == Init /\ [][Next]_vars

-----------------------------------------------------------------------------

\* Type invariant: files, locks, memories and results of cas.rs take no other
\* values, and a digest lock is exclusive or shared, not both.
TypeOK ==
  /\ file \in {"absent", "good", "bad"} /\ packed \in BOOLEAN
  /\ shared \subseteq Procs /\ exclusive \in Procs \cup {None}
  /\ batch \in Procs \cup {None} /\ known \subseteq Procs
  /\ pc \in [Procs -> {"idle", "put-wait", "put-check", "put-write", "put-verify",
                       "batch-wait", "batch", "read-wait", "read", "read-upgrade",
                       "read-again", "read-sync", "read-synced", "read-relock"}]
  /\ result \in [Procs -> {"none", "stored", "bytes", "missing", "failed"}]
  /\ wasPacked \in [Procs -> BOOLEAN]
  /\ exclusive # None => shared = {}

\* An object that was packed before a read began is found by that read, even
\* by a process that has never heard of the pack and even while the loose copy
\* is damaged, quarantined or rewritten by others: the miss path of read
\* synchronises and looks again.
PackedObjectIsFound ==
  \A p \in Procs : (pc[p] = "idle" /\ result[p] = "missing") => ~wasPacked[p]

\* Lock order: whoever waits waits for somebody who can move.  read waits for
\* the batch lock while it holds a digest; put_batch never waits for a digest.
NobodyWaitsForEver ==
  (\E p \in Procs : pc[p] # "idle") =>
    \E p \in Procs : ENABLED Work(p) \/ (pc[p] = "idle" /\ p \in shared)

\* What docs/cold-start-v2.md says: corrupt objects are quarantined.  A read
\* takes nothing but corrupt bytes out of the store.
OnlyCorruptIsQuarantined ==
  [][(\E p \in Procs : ReadQuarantine(p)) => file # "good"]_vars
=============================================================================
