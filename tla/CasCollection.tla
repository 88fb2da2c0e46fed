---------------------------- MODULE CasCollection ----------------------------
(***************************************************************************)
(* Publication against garbage collection (crates/clew/src/cas.rs, with the*)
(* roots that session.rs, generation_service.rs, task_run_v2.rs and main.rs*)
(* keep).                                                                  *)
(*                                                                         *)
(* Managed state files name objects, and objects name objects.  What no    *)
(* file of a retained owner (a session or one of its runs) reaches is      *)
(* garbage.  A publisher stores the objects of a tree under the shared     *)
(* world lease and writes the file that names the root of the tree; the    *)
(* collector works under the exclusive lease.  The catalog below the pack  *)
(* set is the subject of CasCatalog.                                       *)
(***************************************************************************)
EXTENDS FiniteSets

CONSTANTS
  Procs,
  Objects,      \* digests
  Refs,         \* the objects each object names
  Owners,       \* sessions and runs
  LateOwners,   \* runs: prepare_task_run writes prepared-v2.json after the
                \* store, and with it the lease, has been dropped
  Target,       \* the tree each owner publishes, by its root object
  None

ASSUME CollectionAssumption ==
  /\ Refs \in [Objects -> SUBSET Objects]
  /\ LateOwners \subseteq Owners
  /\ Target \in [Owners -> Objects]
  /\ None \notin Procs \cup Owners

VARIABLES
  loose,      \* objects with a loose file
  packs,      \* catalogued packs; a pack is the set of its members
  roots,      \* objects the state files of each owner name
  status,     \* of each owner: "idle", "active" or "collected"
  lease,      \* world lease of each process
  pc, owner,  \* step and owner of each process
  todo,       \* objects a publisher still has to store
  released,   \* owners each collector may disregard
  pending, reach, dangling,       \* the collector's search
  deadPacks, deadLoose            \* the collector's plan

store == <<loose, packs>>
search == <<released, pending, reach, dangling, deadPacks, deadLoose>>
vars == <<store, roots, status, lease, pc, owner, todo, search>>

Packed == UNION packs
Stored == loose \cup Packed

\* Everything that can be reached from S.
Closure(S) ==
  CHOOSE T \in SUBSET Objects :
    LET Closed(U) == S \subseteq U /\ \A x \in U : Refs[x] \subseteq U
    IN  Closed(T) /\ \A U \in SUBSET Objects : Closed(U) => T \subseteq U

Goto(p, l) == pc' = [pc EXCEPT ![p] = l]
Hold(p, l) == lease' = [lease EXCEPT ![p] = l]

Init ==
  /\ loose = {} /\ packs = {}
  /\ roots = [o \in Owners |-> {}]
  /\ status = [o \in Owners |-> "idle"]
  /\ lease = [p \in Procs |-> "none"]
  /\ pc = [p \in Procs |-> "idle"]
  /\ owner = [p \in Procs |-> None]
  /\ todo = [p \in Procs |-> {}]
  /\ released = [p \in Procs |-> {}]
  /\ pending = {} /\ reach = {} /\ dangling = {}
  /\ deadPacks = {} /\ deadLoose = {}

-----------------------------------------------------------------------------
(* A publisher.                                                            *)

Begin(p, o) ==
  /\ pc[p] = "idle" /\ status[o] = "idle"
  /\ \A q \in Procs : lease[q] # "exclusive"
  /\ Hold(p, "shared")
  /\ status' = [status EXCEPT ![o] = "active"]
  /\ owner' = [owner EXCEPT ![p] = o]
  /\ todo' = [todo EXCEPT ![p] = Closure({Target[o]})]
  /\ Goto(p, "store")
  /\ UNCHANGED <<store, roots, search>>

\* CasStore::put
StoreLoose(p) ==
  /\ pc[p] = "store"
  /\ \E x \in todo[p] :
       /\ loose' = loose \cup {x}
       /\ todo' = [todo EXCEPT ![p] = @ \ {x}]
  /\ UNCHANGED <<packs, roots, status, lease, pc, owner, search>>

\* CasStore::put_batch: what no pack holds yet becomes one more pack.
StorePack(p) ==
  /\ pc[p] = "store"
  /\ \E S \in SUBSET todo[p] \ {{}} :
       /\ packs' = packs \cup ({S \ Packed} \ {{}})
       /\ todo' = [todo EXCEPT ![p] = @ \ S]
  /\ UNCHANGED <<loose, roots, status, lease, pc, owner, search>>

\* The tree is complete.  A session's generation is bound to it by a state
\* file first; a run's preparation gives up the store and the lease first.
WriteRoot(p, from, to) ==
  /\ pc[p] = from /\ todo[p] = {}
  /\ roots' = [roots EXCEPT ![owner[p]] = @ \cup {Target[owner[p]]}]
  /\ Goto(p, to)
  /\ UNCHANGED <<store, status, lease, owner, todo, search>>

CloseStore(p, from, to) ==
  /\ pc[p] = from /\ todo[p] = {}
  /\ Hold(p, "none")
  /\ Goto(p, to)
  /\ UNCHANGED <<store, roots, status, owner, todo, search>>

Finish(p) ==
  /\ pc[p] = "finish"
  /\ status' = [status EXCEPT ![owner[p]] = "idle"]
  /\ owner' = [owner EXCEPT ![p] = None]
  /\ Goto(p, "idle")
  /\ UNCHANGED <<store, roots, lease, todo, search>>

\* Mutant: every owner's file is written after the lease is gone.
PublishLate(p) ==
  \/ StoreLoose(p) \/ StorePack(p)
  \/ CloseStore(p, "store", "root")
  \/ WriteRoot(p, "root", "finish")
  \/ Finish(p)

Publish(p) ==
  \/ StoreLoose(p) \/ StorePack(p)
  \/ /\ owner[p] \notin LateOwners
     /\ WriteRoot(p, "store", "close") \/ CloseStore(p, "close", "finish")
  \/ /\ owner[p] \in LateOwners
     /\ CloseStore(p, "store", "root") \/ WriteRoot(p, "root", "finish")
  \/ Finish(p)

-----------------------------------------------------------------------------
(* Owners.                                                                 *)

Abandoned(o) == \A p \in Procs : owner[p] # o

\* Work whose process is gone is cancelled; a session is collected once
\* nothing in it is active, and never comes back.
Cancel(o) ==
  /\ status[o] = "active" /\ Abandoned(o)
  /\ status' = [status EXCEPT ![o] = "idle"]
  /\ UNCHANGED <<store, roots, lease, pc, owner, todo, search>>

ReleaseOwner(o) ==
  /\ status[o] = "idle"
  /\ status' = [status EXCEPT ![o] = "collected"]
  /\ UNCHANGED <<store, roots, lease, pc, owner, todo, search>>

-----------------------------------------------------------------------------
(* garbage_collect_storage.                                                *)

\* released_session_cas_roots is evaluated before the lease is taken.
ReadReleased(p) ==
  /\ pc[p] = "idle"
  /\ released' = [released EXCEPT ![p] = {o \in Owners : status[o] = "collected"}]
  /\ Goto(p, "lease")
  /\ UNCHANGED <<store, roots, status, lease, owner, todo, pending, reach, dangling, deadPacks, deadLoose>>

TakeLease(p) ==
  /\ pc[p] = "lease"
  /\ \A q \in Procs : lease[q] = "none"
  /\ Hold(p, "exclusive")
  /\ Goto(p, "scan")
  /\ UNCHANGED <<store, roots, status, owner, todo, search>>

\* scan_managed_roots
Scan(p) ==
  /\ pc[p] = "scan"
  /\ pending' = UNION {roots[o] : o \in Owners \ released[p]}
  /\ reach' = {} /\ dangling' = {}
  /\ Goto(p, "trace")
  /\ UNCHANGED <<store, roots, status, lease, owner, todo, released, deadPacks, deadLoose>>

\* One object of the search: what is stored is read for more references.
Trace(p) ==
  /\ pc[p] = "trace"
  /\ \E x \in pending :
       /\ reach' = reach \cup {x}
       /\ IF x \in Stored
            THEN /\ pending' = (pending \cup Refs[x]) \ reach'
                 /\ UNCHANGED dangling
            ELSE /\ pending' = pending \ {x}
                 /\ dangling' = dangling \cup {x}
  /\ UNCHANGED <<store, roots, status, lease, pc, owner, todo, released, deadPacks, deadLoose>>

\* The end of a process, or of its call: leases and memory go with it.
Vanish(p) ==
  /\ Hold(p, "none")
  /\ owner' = [owner EXCEPT ![p] = None]
  /\ todo' = [todo EXCEPT ![p] = {}]
  /\ Goto(p, "idle")
  /\ released' = [released EXCEPT ![p] = {}]
  /\ IF lease[p] = "exclusive"
       THEN /\ pending' = {} /\ reach' = {} /\ dangling' = {}
            /\ deadPacks' = {} /\ deadLoose' = {}
       ELSE UNCHANGED <<pending, reach, dangling, deadPacks, deadLoose>>

\* Mutant: the collection that is refused keeps its lease.
BlockedLeased(p) ==
  /\ pc[p] = "trace" /\ pending = {} /\ dangling # {}
  /\ Goto(p, "idle")
  /\ UNCHANGED <<store, roots, status, lease, owner, todo, search>>

\* A retained reference to a missing object blocks the whole collection.
Blocked(p) ==
  /\ pc[p] = "trace" /\ pending = {} /\ dangling # {}
  /\ Vanish(p)
  /\ UNCHANGED <<store, roots, status>>

\* Mutant: a pack goes as soon as one of its members is garbage.
DrawPlanMixed(p) ==
  /\ pc[p] = "trace" /\ pending = {} /\ dangling = {}
  /\ deadPacks' = {k \in packs : ~(k \subseteq reach)}
  /\ deadLoose' = {x \in loose : x \notin reach \/ x \in Packed}
  /\ Goto(p, "packs")
  /\ UNCHANGED <<store, roots, status, lease, owner, todo, released, pending, reach, dangling>>

\* A pack is dead when no member is reachable; a loose file when the object
\* is unreachable or packed as well.
DrawPlan(p) ==
  /\ pc[p] = "trace" /\ pending = {} /\ dangling = {}
  /\ deadPacks' = {k \in packs : k \cap reach = {}}
  /\ deadLoose' = {x \in loose : x \notin reach \/ x \in Packed}
  /\ Goto(p, "packs")
  /\ UNCHANGED <<store, roots, status, lease, owner, todo, released, pending, reach, dangling>>

RemovePack(p) ==
  /\ pc[p] = "packs"
  /\ \E k \in deadPacks : packs' = packs \ {k} /\ deadPacks' = deadPacks \ {k}
  /\ UNCHANGED <<loose, roots, status, lease, pc, owner, todo, released, pending, reach, dangling, deadLoose>>

RemoveLoose(p) ==
  /\ pc[p] = "packs" /\ deadPacks = {}
  /\ \E x \in deadLoose : loose' = loose \ {x} /\ deadLoose' = deadLoose \ {x}
  /\ UNCHANGED <<packs, roots, status, lease, pc, owner, todo, released, pending, reach, dangling, deadPacks>>

EndCollect(p) ==
  /\ pc[p] = "packs" /\ deadPacks = {} /\ deadLoose = {}
  /\ Vanish(p)
  /\ UNCHANGED <<store, roots, status>>

Collect(p) ==
  \/ ReadReleased(p) \/ TakeLease(p) \/ Scan(p) \/ Trace(p) \/ Blocked(p)
  \/ DrawPlan(p) \/ RemovePack(p) \/ RemoveLoose(p) \/ EndCollect(p)

-----------------------------------------------------------------------------

Crash(p) ==
  /\ pc[p] # "idle"
  /\ Vanish(p)
  /\ UNCHANGED <<store, roots, status>>

Next ==
  \/ \E p \in Procs :
       \/ \E o \in Owners : Begin(p, o)
       \/ Publish(p) \/ Collect(p) \/ Crash(p)
  \/ \E o \in Owners : Cancel(o) \/ ReleaseOwner(o)

Spec == Init /\ [][Next]_vars
FairSpec == Spec /\ \A p \in Procs : WF_vars(lease[p] = "exclusive" /\ Collect(p))

-----------------------------------------------------------------------------

\* Type invariant: leases, plans and owners of cas.rs and session.rs take no
\* other values, and an exclusive world lease is held alone.
TypeOK ==
  /\ loose \subseteq Objects /\ packs \subseteq SUBSET Objects \ {{}}
  /\ roots \in [Owners -> SUBSET Objects]
  /\ status \in [Owners -> {"idle", "active", "collected"}]
  /\ lease \in [Procs -> {"none", "shared", "exclusive"}]
  /\ pc \in [Procs -> {"idle", "store", "root", "close", "finish",
                       "lease", "scan", "trace", "packs"}]
  /\ owner \in [Procs -> Owners \cup {None}]
  /\ todo \in [Procs -> SUBSET Objects]
  /\ released \in [Procs -> SUBSET Owners] /\ deadPacks \subseteq SUBSET Objects
  /\ pending \cup reach \cup dangling \cup deadLoose \subseteq Objects
  /\ \A p, q \in Procs : lease[p] = "exclusive" /\ p # q => lease[q] = "none"

Retained(O) == Closure(UNION {roots[o] : o \in {q \in O : status[q] # "collected"}})

\* Whatever a retained session names, directly or through other objects, is
\* in the store, at every instant of every collection, whether it was
\* published loose, in packs or both, and whichever crash interrupted whom.
RetainedTreesComplete == Retained(Owners \ LateOwners) \subseteq Stored

\* README-0.13.25.md, storage section: "In-progress CAS work holds the shared
\* world lease, so an exclusive collector cannot race an unpublished attempt."
\* The same for every owner, prepared runs included.
PreparedTreesComplete == Retained(Owners) \subseteq Stored

\* No step takes the last copy of an object that a retained session still
\* reaches, or that a publisher holding the lease has already stored.
OnlyGarbageDisappears ==
  [][\A x \in Stored \ Stored' :
       /\ x \notin Retained(Owners \ LateOwners)
       /\ \A p \in Procs : lease[p] = "shared" => x \notin Closure({Target[owner[p]]})]_vars

\* A collection that has the exclusive lease, for which every other command waits,
\* gives it back: when it has removed what it planned to, and also when a missing
\* object made it give up.
CollectionEnds == \A p \in Procs : (lease[p] = "exclusive") ~> (lease[p] # "exclusive")
=============================================================================
