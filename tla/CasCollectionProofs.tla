------------------------ MODULE CasCollectionProofs ------------------------
(* Theorems about CasCollection, for every object graph, every set of owners *)
(* and every number of processes.                                            *)
EXTENDS CasCollection, TLAPS

-----------------------------------------------------------------------------
(* The inductive invariant.                                                *)

\* Owners whose state file is written under the lease; where a command publishes, and
\* where the collector searches and removes.
Sessions == Owners \ LateOwners
Publishing == {"store", "root", "close", "finish"}
Collecting == {"scan", "trace", "packs"}

\* The lease each step of a command holds.
LeaseAt(l) ==
  IF l \in {"store", "close"} THEN "shared"
  ELSE IF l \in Collecting THEN "exclusive" ELSE "none"

\* A command that stores and writes a state file is under the shared lease, and the
\* collector under the exclusive one from its scan to its last removal.
LeaseOfStep == \A p \in Procs : lease[p] = LeaseAt(pc[p])

\* The work of an owner is active for as long as a process does it, and one
\* process does it; nobody disregards an owner that may still publish.
OwnersInOrder ==
  /\ \A p \in Procs : (pc[p] \in Publishing) = (owner[p] \in Owners)
  /\ \A p \in Procs : owner[p] \in Owners => status[owner[p]] = "active"
  /\ \A p, q \in Procs : owner[p] = owner[q] /\ owner[p] \in Owners => p = q
  /\ \A p \in Procs : \A o \in released[p] : status[o] = "collected"

\* What a publisher has crossed off its list is stored.
TreeStored(p) == Closure({Target[owner[p]]}) \ todo[p] \subseteq Stored
PublishersStore == \A p \in Procs : pc[p] = "store" => TreeStored(p)

\* Objects the state files of the retained sessions name.
Named == UNION {roots[o] : o \in {q \in Sessions : status[q] # "collected"}}

\* The search has seen, or still has to look at, what the sessions name and what the
\* stored objects it has seen name.
Tracing ==
  /\ Named \subseteq reach \cup pending
  /\ \A x \in reach \ dangling : Refs[x] \subseteq reach \cup pending

\* The plan leaves a copy of everything the search has seen.
Planned ==
  /\ Named \subseteq reach
  /\ \A x \in reach : Refs[x] \subseteq reach
  /\ \A k \in deadPacks : k \cap reach = {}
  /\ \A x \in deadLoose : x \notin reach \/ x \in Packed

\* The search and the plan of whoever holds the exclusive lease are right.
SearchRight ==
  \A p \in Procs : (pc[p] = "trace" => Tracing) /\ (pc[p] = "packs" => Planned)

\* RetainedTreesComplete alone is not inductive: a removal is harmless because the plan is
\* right, the plan because the search was, the search because nobody publishes under the
\* exclusive lease, and a new root is complete because its publisher stored it.
Inv ==
  /\ TypeOK /\ LeaseOfStep /\ OwnersInOrder /\ PublishersStore /\ SearchRight
  /\ RetainedTreesComplete

\* A process ends, by itself or not.
Ends(p) == Vanish(p) /\ UNCHANGED <<store, roots, status>>

-----------------------------------------------------------------------------
(* What can be reached.                                                    *)

\* Closure(S) is the least set that holds S and whatever its members name: there is one
\* for every set of objects, the graph may have cycles.
LEMMA ClosureFacts ==
  ASSUME NEW S \in SUBSET Objects
  PROVE  /\ Closure(S) \in SUBSET Objects
         /\ S \subseteq Closure(S)
         /\ \A x \in Closure(S) : Refs[x] \subseteq Closure(S)
         /\ \A U \in SUBSET Objects :
              S \subseteq U /\ (\A x \in U : Refs[x] \subseteq U) => Closure(S) \subseteq U
<1> DEFINE Closed(U) == S \subseteq U /\ \A x \in U : Refs[x] \subseteq U
           T == {x \in Objects : \A U \in SUBSET Objects : Closed(U) => x \in U}
           Least(V) == Closed(V) /\ \A U \in SUBSET Objects : Closed(U) => V \subseteq U
<1>1. T \in SUBSET Objects /\ \A U \in SUBSET Objects : Closed(U) => T \subseteq U
  OBVIOUS
<1>2. S \subseteq T
  OBVIOUS
<1>3. ASSUME NEW x \in T, NEW y \in Refs[x] PROVE y \in T
  <2>1. y \in Objects
    BY <1>3, CollectionAssumption
  <2>2. ASSUME NEW U \in SUBSET Objects, Closed(U) PROVE y \in U
    BY <1>3, <2>2
  <2> QED
    BY <2>1, <2>2
<1>4. Least(T)
  BY <1>1, <1>2, <1>3
<1>5. Closure(S) = CHOOSE V \in SUBSET Objects : Least(V)
  BY DEF Closure
<1> HIDE DEF Least, T
<1>6. Closure(S) \in SUBSET Objects /\ Least(Closure(S))
  BY <1>1, <1>4, <1>5
<1> QED
  BY <1>6 DEF Least

\* More to start from, more to reach.
LEMMA ClosureMonotone ==
  ASSUME NEW R \in SUBSET Objects, NEW S \in SUBSET R
  PROVE  Closure(S) \subseteq Closure(R)
<1>1. S \in SUBSET Objects
  OBVIOUS
<1>2. /\ Closure(R) \in SUBSET Objects /\ R \subseteq Closure(R)
      /\ \A x \in Closure(R) : Refs[x] \subseteq Closure(R)
  BY ClosureFacts
<1> QED
  BY <1>1, <1>2, ClosureFacts

\* From two sets together one reaches what one reaches from either.
LEMMA ClosureUnion ==
  ASSUME NEW R \in SUBSET Objects, NEW S \in SUBSET Objects
  PROVE  Closure(R \cup S) \subseteq Closure(R) \cup Closure(S)
<1> DEFINE U == Closure(R) \cup Closure(S)
<1>1. /\ Closure(R) \in SUBSET Objects /\ R \subseteq Closure(R)
      /\ \A x \in Closure(R) : Refs[x] \subseteq Closure(R)
  BY ClosureFacts
<1>2. /\ Closure(S) \in SUBSET Objects /\ S \subseteq Closure(S)
      /\ \A x \in Closure(S) : Refs[x] \subseteq Closure(S)
  BY ClosureFacts
<1>3. U \in SUBSET Objects /\ R \cup S \subseteq U /\ \A x \in U : Refs[x] \subseteq U
  BY <1>1, <1>2
<1>4. R \cup S \in SUBSET Objects
  OBVIOUS
<1> HIDE DEF U
<1>5. Closure(R \cup S) \subseteq U
  BY <1>3, <1>4, ClosureFacts
<1> QED
  BY <1>5 DEF U

-----------------------------------------------------------------------------
(* The conjuncts, step by step.                                            *)

\* Types.
LEMMA TypeStep ==
  ASSUME Inv, [Next]_vars
  PROVE  TypeOK'
<1>1. ASSUME NEW p \in Procs, NEW o \in Owners, Begin(p, o) PROVE TypeOK'
  <2>1. Closure({Target[o]}) \in SUBSET Objects
    BY ClosureFacts, CollectionAssumption
  <2> QED
    BY <1>1, <2>1, Zenon DEF Begin, Hold, Goto, store, search, Inv, TypeOK
<1>2. ASSUME NEW p \in Procs, StoreLoose(p) PROVE TypeOK'
  BY <1>2 DEF StoreLoose, search, Inv, TypeOK
<1>3. ASSUME NEW p \in Procs, StorePack(p) PROVE TypeOK'
  BY <1>3 DEF StorePack, search, Inv, TypeOK
<1>4. ASSUME NEW p \in Procs, owner[p] \notin LateOwners, WriteRoot(p, "store", "close")
      PROVE  TypeOK'
  <2>1. owner[p] \in Owners /\ Target[owner[p]] \in Objects
    BY <1>4, CollectionAssumption DEF WriteRoot, Inv, OwnersInOrder, Publishing
  <2>2. roots' \in [Owners -> SUBSET Objects]
    BY <1>4, <2>1 DEF WriteRoot, Inv, TypeOK
  <2> QED
    BY <1>4, <2>2 DEF WriteRoot, Goto, store, search, Inv, TypeOK
<1>5. ASSUME NEW p \in Procs, CloseStore(p, "close", "finish") PROVE TypeOK'
  BY <1>5 DEF CloseStore, Hold, Goto, store, search, Inv, TypeOK
<1>6. ASSUME NEW p \in Procs, CloseStore(p, "store", "root") PROVE TypeOK'
  BY <1>6 DEF CloseStore, Hold, Goto, store, search, Inv, TypeOK
<1>7. ASSUME NEW p \in Procs, owner[p] \in LateOwners, WriteRoot(p, "root", "finish")
      PROVE  TypeOK'
  <2>1. owner[p] \in Owners /\ Target[owner[p]] \in Objects
    BY <1>7, CollectionAssumption DEF WriteRoot, Inv, OwnersInOrder, Publishing
  <2>2. roots' \in [Owners -> SUBSET Objects]
    BY <1>7, <2>1 DEF WriteRoot, Inv, TypeOK
  <2> QED
    BY <1>7, <2>2 DEF WriteRoot, Goto, store, search, Inv, TypeOK
<1>8. ASSUME NEW p \in Procs, Finish(p) PROVE TypeOK'
  BY <1>8, Zenon DEF Finish, Goto, store, search, Inv, TypeOK
<1>9. ASSUME NEW p \in Procs, ReadReleased(p) PROVE TypeOK'
  BY <1>9 DEF ReadReleased, Goto, store, Inv, TypeOK
<1>10. ASSUME NEW p \in Procs, TakeLease(p) PROVE TypeOK'
  BY <1>10 DEF TakeLease, Hold, Goto, store, search, Inv, TypeOK
<1>11. ASSUME NEW p \in Procs, Scan(p) PROVE TypeOK'
  BY <1>11 DEF Scan, Goto, store, Inv, TypeOK
<1>12. ASSUME NEW p \in Procs, Trace(p) PROVE TypeOK'
  BY <1>12, CollectionAssumption DEF Trace, store, Inv, TypeOK
<1>13. ASSUME NEW p \in Procs, DrawPlan(p) PROVE TypeOK'
  BY <1>13 DEF DrawPlan, Goto, store, Inv, TypeOK
<1>14. ASSUME NEW p \in Procs, RemovePack(p) PROVE TypeOK'
  BY <1>14 DEF RemovePack, Inv, TypeOK
<1>15. ASSUME NEW p \in Procs, RemoveLoose(p) PROVE TypeOK'
  BY <1>15 DEF RemoveLoose, Inv, TypeOK
<1>16. ASSUME NEW p \in Procs, Ends(p) PROVE TypeOK'
  BY <1>16 DEF Ends, Vanish, Hold, Goto, store, Inv, TypeOK
<1>17. ASSUME NEW o \in Owners, Cancel(o) PROVE TypeOK'
  BY <1>17 DEF Cancel, Abandoned, store, search, Inv, TypeOK
<1>18. ASSUME NEW o \in Owners, ReleaseOwner(o) PROVE TypeOK'
  BY <1>18 DEF ReleaseOwner, store, search, Inv, TypeOK
<1>19. ASSUME UNCHANGED vars PROVE TypeOK'
  BY <1>19 DEF vars, store, search, Inv, TypeOK
<1> QED
  BY <1>1, <1>2, <1>3, <1>4, <1>5, <1>6, <1>7, <1>8, <1>9, <1>10, <1>11, <1>12, <1>13,
     <1>14, <1>15, <1>16, <1>17, <1>18, <1>19
     DEF Next, Publish, Collect, Ends, Blocked, EndCollect, Crash

\* Every step leaves each process with the lease its next step needs.
LEMMA LeaseStep ==
  ASSUME Inv, [Next]_vars
  PROVE  LeaseOfStep'
<1>1. ASSUME NEW p \in Procs, NEW o \in Owners, Begin(p, o) PROVE LeaseOfStep'
  BY <1>1 DEF Begin, Hold, Goto, store, search, Inv, TypeOK, LeaseOfStep, LeaseAt,
     Collecting
<1>2. ASSUME NEW p \in Procs, StoreLoose(p) PROVE LeaseOfStep'
  BY <1>2 DEF StoreLoose, search, Inv, TypeOK, LeaseOfStep, LeaseAt, Collecting
<1>3. ASSUME NEW p \in Procs, StorePack(p) PROVE LeaseOfStep'
  BY <1>3 DEF StorePack, search, Inv, TypeOK, LeaseOfStep, LeaseAt, Collecting
<1>4. ASSUME NEW p \in Procs, owner[p] \notin LateOwners, WriteRoot(p, "store", "close")
      PROVE  LeaseOfStep'
  BY <1>4 DEF WriteRoot, Goto, store, search, Inv, TypeOK, LeaseOfStep, LeaseAt,
     Collecting
<1>5. ASSUME NEW p \in Procs, CloseStore(p, "close", "finish") PROVE LeaseOfStep'
  BY <1>5 DEF CloseStore, Hold, Goto, store, search, Inv, TypeOK, LeaseOfStep, LeaseAt,
     Collecting
<1>6. ASSUME NEW p \in Procs, CloseStore(p, "store", "root") PROVE LeaseOfStep'
  BY <1>6 DEF CloseStore, Hold, Goto, store, search, Inv, TypeOK, LeaseOfStep, LeaseAt,
     Collecting
<1>7. ASSUME NEW p \in Procs, owner[p] \in LateOwners, WriteRoot(p, "root", "finish")
      PROVE  LeaseOfStep'
  BY <1>7 DEF WriteRoot, Goto, store, search, Inv, TypeOK, LeaseOfStep, LeaseAt,
     Collecting
<1>8. ASSUME NEW p \in Procs, Finish(p) PROVE LeaseOfStep'
  BY <1>8 DEF Finish, Goto, store, search, Inv, TypeOK, LeaseOfStep, LeaseAt, Collecting
<1>9. ASSUME NEW p \in Procs, ReadReleased(p) PROVE LeaseOfStep'
  BY <1>9 DEF ReadReleased, Goto, store, Inv, TypeOK, LeaseOfStep, LeaseAt, Collecting
<1>10. ASSUME NEW p \in Procs, TakeLease(p) PROVE LeaseOfStep'
  BY <1>10 DEF TakeLease, Hold, Goto, store, search, Inv, TypeOK, LeaseOfStep, LeaseAt,
     Collecting
<1>11. ASSUME NEW p \in Procs, Scan(p) PROVE LeaseOfStep'
  BY <1>11 DEF Scan, Goto, store, Inv, TypeOK, LeaseOfStep, LeaseAt, Collecting
<1>12. ASSUME NEW p \in Procs, Trace(p) PROVE LeaseOfStep'
  BY <1>12 DEF Trace, store, Inv, TypeOK, LeaseOfStep, LeaseAt, Collecting
<1>13. ASSUME NEW p \in Procs, DrawPlan(p) PROVE LeaseOfStep'
  BY <1>13 DEF DrawPlan, Goto, store, Inv, TypeOK, LeaseOfStep, LeaseAt, Collecting
<1>14. ASSUME NEW p \in Procs, RemovePack(p) PROVE LeaseOfStep'
  BY <1>14 DEF RemovePack, Inv, TypeOK, LeaseOfStep, LeaseAt, Collecting
<1>15. ASSUME NEW p \in Procs, RemoveLoose(p) PROVE LeaseOfStep'
  BY <1>15 DEF RemoveLoose, Inv, TypeOK, LeaseOfStep, LeaseAt, Collecting
<1>16. ASSUME NEW p \in Procs, Ends(p) PROVE LeaseOfStep'
  BY <1>16 DEF Ends, Vanish, Hold, Goto, store, Inv, TypeOK, LeaseOfStep, LeaseAt,
     Collecting
<1>17. ASSUME NEW o \in Owners, Cancel(o) PROVE LeaseOfStep'
  BY <1>17 DEF Cancel, Abandoned, store, search, Inv, TypeOK, LeaseOfStep, LeaseAt,
     Collecting
<1>18. ASSUME NEW o \in Owners, ReleaseOwner(o) PROVE LeaseOfStep'
  BY <1>18 DEF ReleaseOwner, store, search, Inv, TypeOK, LeaseOfStep, LeaseAt,
     Collecting
<1>19. ASSUME UNCHANGED vars PROVE LeaseOfStep'
  BY <1>19 DEF vars, store, search, Inv, TypeOK, LeaseOfStep, LeaseAt, Collecting
<1> QED
  BY <1>1, <1>2, <1>3, <1>4, <1>5, <1>6, <1>7, <1>8, <1>9, <1>10, <1>11, <1>12, <1>13,
     <1>14, <1>15, <1>16, <1>17, <1>18, <1>19
     DEF Next, Publish, Collect, Ends, Blocked, EndCollect, Crash

\* An owner has one process and no owner comes back after it was collected: Begin takes
\* an idle one, and Cancel one that no process works for.
LEMMA OwnersStep ==
  ASSUME Inv, [Next]_vars
  PROVE  OwnersInOrder'
<1>1. ASSUME NEW p \in Procs, NEW o \in Owners, Begin(p, o) PROVE OwnersInOrder'
  BY CollectionAssumption, <1>1 DEF Begin, Hold, Goto, store, search, Inv, TypeOK,
     OwnersInOrder, Publishing
<1>2. ASSUME NEW p \in Procs, StoreLoose(p) PROVE OwnersInOrder'
  BY CollectionAssumption, <1>2 DEF StoreLoose, search, Inv, TypeOK, OwnersInOrder,
     Publishing
<1>3. ASSUME NEW p \in Procs, StorePack(p) PROVE OwnersInOrder'
  BY CollectionAssumption, <1>3 DEF StorePack, search, Inv, TypeOK, OwnersInOrder,
     Publishing
<1>4. ASSUME NEW p \in Procs, owner[p] \notin LateOwners, WriteRoot(p, "store", "close")
      PROVE  OwnersInOrder'
  BY CollectionAssumption, <1>4 DEF WriteRoot, Goto, store, search, Inv, TypeOK,
     OwnersInOrder, Publishing
<1>5. ASSUME NEW p \in Procs, CloseStore(p, "close", "finish") PROVE OwnersInOrder'
  BY CollectionAssumption, <1>5 DEF CloseStore, Hold, Goto, store, search, Inv, TypeOK,
     OwnersInOrder, Publishing
<1>6. ASSUME NEW p \in Procs, CloseStore(p, "store", "root") PROVE OwnersInOrder'
  BY CollectionAssumption, <1>6 DEF CloseStore, Hold, Goto, store, search, Inv, TypeOK,
     OwnersInOrder, Publishing
<1>7. ASSUME NEW p \in Procs, owner[p] \in LateOwners, WriteRoot(p, "root", "finish")
      PROVE  OwnersInOrder'
  BY CollectionAssumption, <1>7 DEF WriteRoot, Goto, store, search, Inv, TypeOK,
     OwnersInOrder, Publishing
<1>8. ASSUME NEW p \in Procs, Finish(p) PROVE OwnersInOrder'
  BY CollectionAssumption, <1>8 DEF Finish, Goto, store, search, Inv, TypeOK,
     OwnersInOrder, Publishing
<1>9. ASSUME NEW p \in Procs, ReadReleased(p) PROVE OwnersInOrder'
  BY CollectionAssumption, <1>9 DEF ReadReleased, Goto, store, Inv, TypeOK,
     OwnersInOrder, Publishing
<1>10. ASSUME NEW p \in Procs, TakeLease(p) PROVE OwnersInOrder'
  BY CollectionAssumption, <1>10 DEF TakeLease, Hold, Goto, store, search, Inv, TypeOK,
     OwnersInOrder, Publishing
<1>11. ASSUME NEW p \in Procs, Scan(p) PROVE OwnersInOrder'
  BY CollectionAssumption, <1>11 DEF Scan, Goto, store, Inv, TypeOK, OwnersInOrder,
     Publishing
<1>12. ASSUME NEW p \in Procs, Trace(p) PROVE OwnersInOrder'
  BY CollectionAssumption, <1>12 DEF Trace, store, Inv, TypeOK, OwnersInOrder,
     Publishing
<1>13. ASSUME NEW p \in Procs, DrawPlan(p) PROVE OwnersInOrder'
  BY CollectionAssumption, <1>13 DEF DrawPlan, Goto, store, Inv, TypeOK, OwnersInOrder,
     Publishing
<1>14. ASSUME NEW p \in Procs, RemovePack(p) PROVE OwnersInOrder'
  BY CollectionAssumption, <1>14 DEF RemovePack, Inv, TypeOK, OwnersInOrder, Publishing
<1>15. ASSUME NEW p \in Procs, RemoveLoose(p) PROVE OwnersInOrder'
  BY CollectionAssumption, <1>15 DEF RemoveLoose, Inv, TypeOK, OwnersInOrder, Publishing
<1>16. ASSUME NEW p \in Procs, Ends(p) PROVE OwnersInOrder'
  BY CollectionAssumption, <1>16 DEF Ends, Vanish, Hold, Goto, store, Inv, TypeOK,
     OwnersInOrder, Publishing
<1>17. ASSUME NEW o \in Owners, Cancel(o) PROVE OwnersInOrder'
  BY CollectionAssumption, <1>17 DEF Cancel, Abandoned, store, search, Inv, TypeOK,
     OwnersInOrder, Publishing
<1>18. ASSUME NEW o \in Owners, ReleaseOwner(o) PROVE OwnersInOrder'
  BY CollectionAssumption, <1>18 DEF ReleaseOwner, store, search, Inv, TypeOK,
     OwnersInOrder, Publishing
<1>19. ASSUME UNCHANGED vars PROVE OwnersInOrder'
  BY CollectionAssumption, <1>19 DEF vars, store, search, Inv, TypeOK, OwnersInOrder,
     Publishing
<1> QED
  BY <1>1, <1>2, <1>3, <1>4, <1>5, <1>6, <1>7, <1>8, <1>9, <1>10, <1>11, <1>12, <1>13,
     <1>14, <1>15, <1>16, <1>17, <1>18, <1>19
     DEF Next, Publish, Collect, Ends, Blocked, EndCollect, Crash

\* Nothing is removed while a publisher holds its lease, and what it crosses off its list
\* it has stored, loose or in a pack, or found in a pack.
LEMMA PublishersStep ==
  ASSUME Inv, [Next]_vars
  PROVE  PublishersStore'
<1>1. ASSUME NEW p \in Procs, NEW o \in Owners, Begin(p, o) PROVE PublishersStore'
  <2>1. ASSUME NEW q \in Procs, pc'[q] = "store" PROVE TreeStored(q)'
    <3>1. CASE q = p
      BY <1>1, <3>1 DEF Begin, Inv, TypeOK, TreeStored
    <3>2. CASE q # p
      <4>1. pc[q] = "store" /\ owner'[q] = owner[q] /\ todo'[q] = todo[q] /\ Stored' = Stored
        BY <1>1, <2>1, <3>2 DEF Begin, Goto, store, Inv, TypeOK, Stored, Packed
      <4> QED
        BY <4>1 DEF Inv, PublishersStore, TreeStored
    <3> QED
      BY <3>1, <3>2
  <2> QED
    BY <2>1 DEF PublishersStore
<1>2. ASSUME NEW p \in Procs, StoreLoose(p) PROVE PublishersStore'
  BY <1>2 DEF StoreLoose, search, Inv, TypeOK, LeaseOfStep, LeaseAt, Collecting,
     PublishersStore, TreeStored, Stored, Packed
<1>3. ASSUME NEW p \in Procs, StorePack(p) PROVE PublishersStore'
  <2>1. PICK S \in SUBSET todo[p] :
          packs' = packs \cup ({S \ Packed} \ {{}}) /\ todo' = [todo EXCEPT ![p] = todo[p] \ S]
    BY <1>3, Zenon DEF StorePack
  <2>2. S \subseteq Packed'
    <3>1. ASSUME NEW x \in S, x \notin Packed PROVE x \in Packed'
      <4>1. S \ Packed \in packs'
        BY <2>1, <3>1
      <4> QED
        BY <3>1, <4>1 DEF Packed
    <3>2. Packed \subseteq Packed'
      BY <2>1 DEF Packed
    <3> QED
      BY <3>1, <3>2
  <2>3. Stored \cup S \subseteq Stored'
    BY <1>3, <2>1, <2>2 DEF StorePack, Stored, Packed
  <2>4. ASSUME NEW q \in Procs, pc[q] = "store" PROVE TreeStored(q)'
    <3>1. owner' = owner /\ (todo'[q] = todo[q] \/ todo'[q] = todo[q] \ S)
      BY <1>3, <2>1 DEF StorePack, Inv, TypeOK
    <3>2. TreeStored(q)
      BY <2>4 DEF Inv, PublishersStore
    <3> QED
      BY <2>3, <3>1, <3>2 DEF TreeStored
  <2> QED
    BY <1>3, <2>4 DEF StorePack, PublishersStore
<1>4. ASSUME NEW p \in Procs, owner[p] \notin LateOwners, WriteRoot(p, "store", "close")
      PROVE  PublishersStore'
  BY <1>4 DEF WriteRoot, Goto, store, search, Inv, TypeOK, LeaseOfStep, LeaseAt,
     Collecting, PublishersStore, TreeStored, Stored, Packed
<1>5. ASSUME NEW p \in Procs, CloseStore(p, "close", "finish") PROVE PublishersStore'
  BY <1>5 DEF CloseStore, Hold, Goto, store, search, Inv, TypeOK, LeaseOfStep, LeaseAt,
     Collecting, PublishersStore, TreeStored, Stored, Packed
<1>6. ASSUME NEW p \in Procs, CloseStore(p, "store", "root") PROVE PublishersStore'
  BY <1>6 DEF CloseStore, Hold, Goto, store, search, Inv, TypeOK, LeaseOfStep, LeaseAt,
     Collecting, PublishersStore, TreeStored, Stored, Packed
<1>7. ASSUME NEW p \in Procs, owner[p] \in LateOwners, WriteRoot(p, "root", "finish")
      PROVE  PublishersStore'
  BY <1>7 DEF WriteRoot, Goto, store, search, Inv, TypeOK, LeaseOfStep, LeaseAt,
     Collecting, PublishersStore, TreeStored, Stored, Packed
<1>8. ASSUME NEW p \in Procs, Finish(p) PROVE PublishersStore'
  BY <1>8 DEF Finish, Goto, store, search, Inv, TypeOK, LeaseOfStep, LeaseAt,
     Collecting, PublishersStore, TreeStored, Stored, Packed
<1>9. ASSUME NEW p \in Procs, ReadReleased(p) PROVE PublishersStore'
  BY <1>9 DEF ReadReleased, Goto, store, Inv, TypeOK, LeaseOfStep, LeaseAt, Collecting,
     PublishersStore, TreeStored, Stored, Packed
<1>10. ASSUME NEW p \in Procs, TakeLease(p) PROVE PublishersStore'
  BY <1>10 DEF TakeLease, Hold, Goto, store, search, Inv, TypeOK, LeaseOfStep, LeaseAt,
     Collecting, PublishersStore, TreeStored, Stored, Packed
<1>11. ASSUME NEW p \in Procs, Scan(p) PROVE PublishersStore'
  BY <1>11 DEF Scan, Goto, store, Inv, TypeOK, LeaseOfStep, LeaseAt, Collecting,
     PublishersStore, TreeStored, Stored, Packed
<1>12. ASSUME NEW p \in Procs, Trace(p) PROVE PublishersStore'
  BY <1>12 DEF Trace, store, Inv, TypeOK, LeaseOfStep, LeaseAt, Collecting,
     PublishersStore, TreeStored, Stored, Packed
<1>13. ASSUME NEW p \in Procs, DrawPlan(p) PROVE PublishersStore'
  BY <1>13 DEF DrawPlan, Goto, store, Inv, TypeOK, LeaseOfStep, LeaseAt, Collecting,
     PublishersStore, TreeStored, Stored, Packed
<1>14. ASSUME NEW p \in Procs, RemovePack(p) PROVE PublishersStore'
  BY <1>14 DEF RemovePack, Inv, TypeOK, LeaseOfStep, LeaseAt, Collecting,
     PublishersStore, TreeStored, Stored, Packed
<1>15. ASSUME NEW p \in Procs, RemoveLoose(p) PROVE PublishersStore'
  BY <1>15 DEF RemoveLoose, Inv, TypeOK, LeaseOfStep, LeaseAt, Collecting,
     PublishersStore, TreeStored, Stored, Packed
<1>16. ASSUME NEW p \in Procs, Ends(p) PROVE PublishersStore'
  BY <1>16 DEF Ends, Vanish, Hold, Goto, store, Inv, TypeOK, LeaseOfStep, LeaseAt,
     Collecting, PublishersStore, TreeStored, Stored, Packed
<1>17. ASSUME NEW o \in Owners, Cancel(o) PROVE PublishersStore'
  BY <1>17 DEF Cancel, Abandoned, store, search, Inv, TypeOK, LeaseOfStep, LeaseAt,
     Collecting, PublishersStore, TreeStored, Stored, Packed
<1>18. ASSUME NEW o \in Owners, ReleaseOwner(o) PROVE PublishersStore'
  BY <1>18 DEF ReleaseOwner, store, search, Inv, TypeOK, LeaseOfStep, LeaseAt,
     Collecting, PublishersStore, TreeStored, Stored, Packed
<1>19. ASSUME UNCHANGED vars PROVE PublishersStore'
  BY <1>19 DEF vars, store, search, Inv, TypeOK, LeaseOfStep, LeaseAt, Collecting,
     PublishersStore, TreeStored, Stored, Packed
<1> QED
  BY <1>1, <1>2, <1>3, <1>4, <1>5, <1>6, <1>7, <1>8, <1>9, <1>10, <1>11, <1>12, <1>13,
     <1>14, <1>15, <1>16, <1>17, <1>18, <1>19
     DEF Next, Publish, Collect, Ends, Blocked, EndCollect, Crash

\* The search is not overtaken: under the exclusive lease nobody writes the file of a
\* session, and the owners left out of the scan stay collected.
LEMMA SearchStep ==
  ASSUME Inv, [Next]_vars
  PROVE  SearchRight'
<1>1. ASSUME NEW p \in Procs, NEW o \in Owners, Begin(p, o) PROVE SearchRight'
  BY CollectionAssumption, <1>1 DEF Begin, Hold, Goto, store, search, Inv, TypeOK,
     OwnersInOrder, LeaseOfStep, LeaseAt, Collecting, SearchRight, Tracing, Planned,
     Named, Sessions, Stored, Packed
<1>2. ASSUME NEW p \in Procs, StoreLoose(p) PROVE SearchRight'
  BY CollectionAssumption, <1>2 DEF StoreLoose, search, Inv, TypeOK, OwnersInOrder,
     LeaseOfStep, LeaseAt, Collecting, SearchRight, Tracing, Planned, Named, Sessions,
     Stored, Packed
<1>3. ASSUME NEW p \in Procs, StorePack(p) PROVE SearchRight'
  BY CollectionAssumption, <1>3 DEF StorePack, search, Inv, TypeOK, OwnersInOrder,
     LeaseOfStep, LeaseAt, Collecting, SearchRight, Tracing, Planned, Named, Sessions,
     Stored, Packed
<1>4. ASSUME NEW p \in Procs, owner[p] \notin LateOwners, WriteRoot(p, "store", "close")
      PROVE  SearchRight'
  BY CollectionAssumption, <1>4 DEF WriteRoot, Goto, store, search, Inv, TypeOK,
     OwnersInOrder, LeaseOfStep, LeaseAt, Collecting, SearchRight, Tracing, Planned,
     Named, Sessions, Stored, Packed
<1>5. ASSUME NEW p \in Procs, CloseStore(p, "close", "finish") PROVE SearchRight'
  BY CollectionAssumption, <1>5 DEF CloseStore, Hold, Goto, store, search, Inv, TypeOK,
     OwnersInOrder, LeaseOfStep, LeaseAt, Collecting, SearchRight, Tracing, Planned,
     Named, Sessions, Stored, Packed
<1>6. ASSUME NEW p \in Procs, CloseStore(p, "store", "root") PROVE SearchRight'
  BY CollectionAssumption, <1>6 DEF CloseStore, Hold, Goto, store, search, Inv, TypeOK,
     OwnersInOrder, LeaseOfStep, LeaseAt, Collecting, SearchRight, Tracing, Planned,
     Named, Sessions, Stored, Packed
<1>7. ASSUME NEW p \in Procs, owner[p] \in LateOwners, WriteRoot(p, "root", "finish")
      PROVE  SearchRight'
  BY CollectionAssumption, <1>7 DEF WriteRoot, Goto, store, search, Inv, TypeOK,
     OwnersInOrder, LeaseOfStep, LeaseAt, Collecting, SearchRight, Tracing, Planned,
     Named, Sessions, Stored, Packed
<1>8. ASSUME NEW p \in Procs, Finish(p) PROVE SearchRight'
  BY CollectionAssumption, <1>8 DEF Finish, Goto, store, search, Inv, TypeOK,
     OwnersInOrder, LeaseOfStep, LeaseAt, Collecting, SearchRight, Tracing, Planned,
     Named, Sessions, Stored, Packed
<1>9. ASSUME NEW p \in Procs, ReadReleased(p) PROVE SearchRight'
  BY CollectionAssumption, <1>9 DEF ReadReleased, Goto, store, Inv, TypeOK,
     OwnersInOrder, LeaseOfStep, LeaseAt, Collecting, SearchRight, Tracing, Planned,
     Named, Sessions, Stored, Packed
<1>10. ASSUME NEW p \in Procs, TakeLease(p) PROVE SearchRight'
  BY CollectionAssumption, <1>10 DEF TakeLease, Hold, Goto, store, search, Inv, TypeOK,
     OwnersInOrder, LeaseOfStep, LeaseAt, Collecting, SearchRight, Tracing, Planned,
     Named, Sessions, Stored, Packed
<1>11. ASSUME NEW p \in Procs, Scan(p) PROVE SearchRight'
  BY CollectionAssumption, <1>11 DEF Scan, Goto, store, Inv, TypeOK, OwnersInOrder,
     LeaseOfStep, LeaseAt, Collecting, SearchRight, Tracing, Planned, Named, Sessions,
     Stored, Packed
<1>12. ASSUME NEW p \in Procs, Trace(p) PROVE SearchRight'
  BY CollectionAssumption, <1>12 DEF Trace, store, Inv, TypeOK, OwnersInOrder,
     LeaseOfStep, LeaseAt, Collecting, SearchRight, Tracing, Planned, Named, Sessions,
     Stored, Packed
<1>13. ASSUME NEW p \in Procs, DrawPlan(p) PROVE SearchRight'
  BY CollectionAssumption, <1>13 DEF DrawPlan, Goto, store, Inv, TypeOK, OwnersInOrder,
     LeaseOfStep, LeaseAt, Collecting, SearchRight, Tracing, Planned, Named, Sessions,
     Stored, Packed
<1>14. ASSUME NEW p \in Procs, RemovePack(p) PROVE SearchRight'
  BY CollectionAssumption, <1>14 DEF RemovePack, Inv, TypeOK, OwnersInOrder,
     LeaseOfStep, LeaseAt, Collecting, SearchRight, Tracing, Planned, Named, Sessions,
     Stored, Packed
<1>15. ASSUME NEW p \in Procs, RemoveLoose(p) PROVE SearchRight'
  BY CollectionAssumption, <1>15 DEF RemoveLoose, Inv, TypeOK, OwnersInOrder,
     LeaseOfStep, LeaseAt, Collecting, SearchRight, Tracing, Planned, Named, Sessions,
     Stored, Packed
<1>16. ASSUME NEW p \in Procs, Ends(p) PROVE SearchRight'
  BY CollectionAssumption, <1>16 DEF Ends, Vanish, Hold, Goto, store, Inv, TypeOK,
     OwnersInOrder, LeaseOfStep, LeaseAt, Collecting, SearchRight, Tracing, Planned,
     Named, Sessions, Stored, Packed
<1>17. ASSUME NEW o \in Owners, Cancel(o) PROVE SearchRight'
  BY CollectionAssumption, <1>17 DEF Cancel, Abandoned, store, search, Inv, TypeOK,
     OwnersInOrder, LeaseOfStep, LeaseAt, Collecting, SearchRight, Tracing, Planned,
     Named, Sessions, Stored, Packed
<1>18. ASSUME NEW o \in Owners, ReleaseOwner(o) PROVE SearchRight'
  BY CollectionAssumption, <1>18 DEF ReleaseOwner, store, search, Inv, TypeOK,
     OwnersInOrder, LeaseOfStep, LeaseAt, Collecting, SearchRight, Tracing, Planned,
     Named, Sessions, Stored, Packed
<1>19. ASSUME UNCHANGED vars PROVE SearchRight'
  BY CollectionAssumption, <1>19 DEF vars, store, search, Inv, TypeOK, OwnersInOrder,
     LeaseOfStep, LeaseAt, Collecting, SearchRight, Tracing, Planned, Named, Sessions,
     Stored, Packed
<1> QED
  BY <1>1, <1>2, <1>3, <1>4, <1>5, <1>6, <1>7, <1>8, <1>9, <1>10, <1>11, <1>12, <1>13,
     <1>14, <1>15, <1>16, <1>17, <1>18, <1>19
     DEF Next, Publish, Collect, Ends, Blocked, EndCollect, Crash

\* What a retained session reaches is what one reaches from the objects the files name.
LEMMA RetainedIsNamed == Retained(Sessions) = Closure(Named)
BY DEF Retained, Named

\* State files name objects.
LEMMA NamedType == ASSUME TypeOK PROVE Named \in SUBSET Objects
BY DEF TypeOK, Named, Sessions

\* The plan of a collection spares what the sessions reach.
LEMMA PlanSpares ==
  ASSUME TypeOK, Planned
  PROVE  Retained(Sessions) \subseteq reach
<1>1. reach \in SUBSET Objects /\ Named \in SUBSET Objects
  BY NamedType DEF TypeOK
<1>2. Closure(Named) \subseteq reach
  BY <1>1, ClosureFacts DEF Planned
<1> QED
  BY <1>2, RetainedIsNamed

\* Complete trees stay complete when less is named and more is stored.
LEMMA StaysComplete ==
  ASSUME TypeOK, RetainedTreesComplete, Named' \subseteq Named, Stored \subseteq Stored'
  PROVE  RetainedTreesComplete'
<1>1. Closure(Named') \subseteq Closure(Named)
  BY NamedType, ClosureMonotone
<1>2. Retained(Sessions)' = Closure(Named')
  BY RetainedIsNamed DEF Retained, Named
<1> QED
  BY <1>1, <1>2, RetainedIsNamed DEF RetainedTreesComplete, Sessions

\* A session's file is written when its tree is stored, and a collection removes nothing
\* that the search has seen.
LEMMA RetainedStep ==
  ASSUME Inv, [Next]_vars
  PROVE  RetainedTreesComplete'
<1>1. ASSUME NEW p \in Procs, NEW o \in Owners, Begin(p, o) PROVE RetainedTreesComplete'
  <2>1. Named' \subseteq Named /\ Stored \subseteq Stored'
    BY <1>1 DEF Begin, Hold, Goto, store, search, Inv, TypeOK, OwnersInOrder, Named,
       Sessions, Stored, Packed
  <2> QED
    BY <2>1, StaysComplete DEF Inv
<1>2. ASSUME NEW p \in Procs, StoreLoose(p) PROVE RetainedTreesComplete'
  <2>1. Named' \subseteq Named /\ Stored \subseteq Stored'
    BY <1>2 DEF StoreLoose, search, Inv, TypeOK, OwnersInOrder, Named, Sessions, Stored,
       Packed
  <2> QED
    BY <2>1, StaysComplete DEF Inv
<1>3. ASSUME NEW p \in Procs, StorePack(p) PROVE RetainedTreesComplete'
  <2>1. Named' \subseteq Named /\ Stored \subseteq Stored'
    BY <1>3 DEF StorePack, search, Inv, TypeOK, OwnersInOrder, Named, Sessions, Stored,
       Packed
  <2> QED
    BY <2>1, StaysComplete DEF Inv
<1>4. ASSUME NEW p \in Procs, owner[p] \notin LateOwners, WriteRoot(p, "store", "close")
      PROVE  RetainedTreesComplete'
  <2> DEFINE t == Target[owner[p]]
  <2>1. owner[p] \in Owners /\ t \in Objects
    BY <1>4, CollectionAssumption DEF WriteRoot, Inv, OwnersInOrder, Publishing
  <2>2. Closure({t}) \subseteq Stored
    BY <1>4 DEF WriteRoot, Inv, PublishersStore, TreeStored
  <2>3. Named' \subseteq Named \cup {t} /\ Stored' = Stored
    BY <1>4, <2>1 DEF WriteRoot, store, Inv, TypeOK, Named, Sessions, Stored, Packed
  <2>4. Closure(Named') \subseteq Closure(Named) \cup Closure({t})
    <3>1. Named \in SUBSET Objects /\ {t} \in SUBSET Objects
      BY <2>1, NamedType DEF Inv
    <3>2. Closure(Named') \subseteq Closure(Named \cup {t})
      BY <2>3, <3>1, ClosureMonotone
    <3> QED
      BY <3>1, <3>2, ClosureUnion
  <2>5. Retained(Sessions)' = Closure(Named')
    BY DEF Retained, Named
  <2> QED
    BY <2>2, <2>3, <2>4, <2>5, RetainedIsNamed DEF Inv, RetainedTreesComplete, Sessions
<1>5. ASSUME NEW p \in Procs, CloseStore(p, "close", "finish")
      PROVE  RetainedTreesComplete'
  <2>1. Named' \subseteq Named /\ Stored \subseteq Stored'
    BY <1>5 DEF CloseStore, Hold, Goto, store, search, Inv, TypeOK, OwnersInOrder,
       Named, Sessions, Stored, Packed
  <2> QED
    BY <2>1, StaysComplete DEF Inv
<1>6. ASSUME NEW p \in Procs, CloseStore(p, "store", "root")
      PROVE  RetainedTreesComplete'
  <2>1. Named' \subseteq Named /\ Stored \subseteq Stored'
    BY <1>6 DEF CloseStore, Hold, Goto, store, search, Inv, TypeOK, OwnersInOrder,
       Named, Sessions, Stored, Packed
  <2> QED
    BY <2>1, StaysComplete DEF Inv
<1>7. ASSUME NEW p \in Procs, owner[p] \in LateOwners, WriteRoot(p, "root", "finish")
      PROVE  RetainedTreesComplete'
  <2>1. Named' \subseteq Named /\ Stored \subseteq Stored'
    BY <1>7 DEF WriteRoot, Goto, store, search, Inv, TypeOK, OwnersInOrder, Named,
       Sessions, Stored, Packed
  <2> QED
    BY <2>1, StaysComplete DEF Inv
<1>8. ASSUME NEW p \in Procs, Finish(p) PROVE RetainedTreesComplete'
  <2>1. Named' \subseteq Named /\ Stored \subseteq Stored'
    BY <1>8 DEF Finish, Goto, store, search, Inv, TypeOK, OwnersInOrder, Named,
       Sessions, Stored, Packed
  <2> QED
    BY <2>1, StaysComplete DEF Inv
<1>9. ASSUME NEW p \in Procs, ReadReleased(p) PROVE RetainedTreesComplete'
  <2>1. Named' \subseteq Named /\ Stored \subseteq Stored'
    BY <1>9 DEF ReadReleased, Goto, store, Inv, TypeOK, OwnersInOrder, Named, Sessions,
       Stored, Packed
  <2> QED
    BY <2>1, StaysComplete DEF Inv
<1>10. ASSUME NEW p \in Procs, TakeLease(p) PROVE RetainedTreesComplete'
  <2>1. Named' \subseteq Named /\ Stored \subseteq Stored'
    BY <1>10 DEF TakeLease, Hold, Goto, store, search, Inv, TypeOK, OwnersInOrder,
       Named, Sessions, Stored, Packed
  <2> QED
    BY <2>1, StaysComplete DEF Inv
<1>11. ASSUME NEW p \in Procs, Scan(p) PROVE RetainedTreesComplete'
  <2>1. Named' \subseteq Named /\ Stored \subseteq Stored'
    BY <1>11 DEF Scan, Goto, store, Inv, TypeOK, OwnersInOrder, Named, Sessions, Stored,
       Packed
  <2> QED
    BY <2>1, StaysComplete DEF Inv
<1>12. ASSUME NEW p \in Procs, Trace(p) PROVE RetainedTreesComplete'
  <2>1. Named' \subseteq Named /\ Stored \subseteq Stored'
    BY <1>12 DEF Trace, store, Inv, TypeOK, OwnersInOrder, Named, Sessions, Stored,
       Packed
  <2> QED
    BY <2>1, StaysComplete DEF Inv
<1>13. ASSUME NEW p \in Procs, DrawPlan(p) PROVE RetainedTreesComplete'
  <2>1. Named' \subseteq Named /\ Stored \subseteq Stored'
    BY <1>13 DEF DrawPlan, Goto, store, Inv, TypeOK, OwnersInOrder, Named, Sessions,
       Stored, Packed
  <2> QED
    BY <2>1, StaysComplete DEF Inv
<1>14. ASSUME NEW p \in Procs, RemovePack(p) PROVE RetainedTreesComplete'
  <2>1. Planned
    BY <1>14 DEF RemovePack, Inv, SearchRight
  <2>2. Retained(Sessions)' = Retained(Sessions)
    BY <1>14 DEF RemovePack, Retained
  <2>3. Stored \cap reach \subseteq Stored'
    BY <1>14, <2>1 DEF RemovePack, Planned, Stored, Packed
  <2> QED
    BY <2>1, <2>2, <2>3, PlanSpares DEF Inv, RetainedTreesComplete, Sessions
<1>15. ASSUME NEW p \in Procs, RemoveLoose(p) PROVE RetainedTreesComplete'
  <2>1. Planned
    BY <1>15 DEF RemoveLoose, Inv, SearchRight
  <2>2. Retained(Sessions)' = Retained(Sessions)
    BY <1>15 DEF RemoveLoose, Retained
  <2>3. Stored \cap reach \subseteq Stored'
    BY <1>15, <2>1 DEF RemoveLoose, Planned, Stored, Packed
  <2> QED
    BY <2>1, <2>2, <2>3, PlanSpares DEF Inv, RetainedTreesComplete, Sessions
<1>16. ASSUME NEW p \in Procs, Ends(p) PROVE RetainedTreesComplete'
  <2>1. Named' \subseteq Named /\ Stored \subseteq Stored'
    BY <1>16 DEF Ends, Vanish, Hold, Goto, store, Inv, TypeOK, OwnersInOrder, Named,
       Sessions, Stored, Packed
  <2> QED
    BY <2>1, StaysComplete DEF Inv
<1>17. ASSUME NEW o \in Owners, Cancel(o) PROVE RetainedTreesComplete'
  <2>1. Named' \subseteq Named /\ Stored \subseteq Stored'
    BY <1>17 DEF Cancel, Abandoned, store, search, Inv, TypeOK, OwnersInOrder, Named,
       Sessions, Stored, Packed
  <2> QED
    BY <2>1, StaysComplete DEF Inv
<1>18. ASSUME NEW o \in Owners, ReleaseOwner(o) PROVE RetainedTreesComplete'
  <2>1. Named' \subseteq Named /\ Stored \subseteq Stored'
    BY <1>18 DEF ReleaseOwner, store, search, Inv, TypeOK, OwnersInOrder, Named,
       Sessions, Stored, Packed
  <2> QED
    BY <2>1, StaysComplete DEF Inv
<1>19. ASSUME UNCHANGED vars PROVE RetainedTreesComplete'
  <2>1. Named' \subseteq Named /\ Stored \subseteq Stored'
    BY <1>19 DEF vars, store, search, Inv, TypeOK, OwnersInOrder, Named, Sessions,
       Stored, Packed
  <2> QED
    BY <2>1, StaysComplete DEF Inv
<1> QED
  BY <1>1, <1>2, <1>3, <1>4, <1>5, <1>6, <1>7, <1>8, <1>9, <1>10, <1>11, <1>12, <1>13,
     <1>14, <1>15, <1>16, <1>17, <1>18, <1>19
     DEF Next, Publish, Collect, Ends, Blocked, EndCollect, Crash


-----------------------------------------------------------------------------
(* The theorems.                                                           *)

\* A new store: no object, no owner at work, no state file names anything.
LEMMA InitInv == ASSUME Init PROVE Inv
<1>1. TypeOK
  BY CollectionAssumption DEF Init, TypeOK
<1>2. LeaseOfStep /\ OwnersInOrder /\ PublishersStore /\ SearchRight
  BY CollectionAssumption
     DEF Init, LeaseOfStep, LeaseAt, Collecting, OwnersInOrder, Publishing,
         PublishersStore, SearchRight
<1>3. Named = {}
  BY DEF Init, Named, Sessions
<1>4. Closure({}) = {}
  BY ClosureFacts
<1> QED
  BY <1>1, <1>2, <1>3, <1>4, RetainedIsNamed DEF Inv, RetainedTreesComplete, Sessions

\* The invariant is inductive: no step of a publisher, a collector, a cancellation or a
\* crash leaves it.
LEMMA InvStep == ASSUME Inv, [Next]_vars PROVE Inv'
BY TypeStep, LeaseStep, OwnersStep, PublishersStep, SearchStep, RetainedStep DEF Inv

\* The inductive invariant holds throughout, whatever the object graph and the number of
\* processes that publish and collect.
THEOREM Invariance == Spec => []Inv
BY InitInv, InvStep, PTL DEF Spec

\* Every variable keeps its type: leases, lists of objects to store, packs and the
\* collector's sets never leave the objects and owners there are.
THEOREM TypeCorrect == Spec => []TypeOK
<1>1. Inv => TypeOK
  BY DEF Inv
<1> QED
  BY <1>1, Invariance, PTL

\* Whatever the state file of a retained session names can be read whole, with everything
\* it refers to: neither a concurrent collection nor a crash in the middle of one takes a
\* part of it (garbage_collect_storage).
THEOREM TreesComplete == Spec => []RetainedTreesComplete
<1>1. Inv => RetainedTreesComplete
  BY DEF Inv
<1> QED
  BY <1>1, Invariance, PTL

\* A step that removes a stored object removes one that no retained session reaches and
\* that no publisher under its shared lease is going to name.
THEOREM OnlyGarbage == Spec => OnlyGarbageDisappears
<1> DEFINE Spared ==
      \A x \in Stored \ Stored' :
        /\ x \notin Retained(Owners \ LateOwners)
        /\ \A p \in Procs : lease[p] = "shared" => x \notin Closure({Target[owner[p]]})
<1>1. ASSUME Inv, [Next]_vars PROVE Spared
  <2>1. ASSUME NEW p \in Procs, NEW o \in Owners, Begin(p, o) PROVE Spared
    BY <2>1 DEF Begin, Hold, Goto, store, search, Stored, Packed
  <2>2. ASSUME NEW p \in Procs, StoreLoose(p) PROVE Spared
    BY <2>2 DEF StoreLoose, search, Stored, Packed
  <2>3. ASSUME NEW p \in Procs, StorePack(p) PROVE Spared
    BY <2>3 DEF StorePack, search, Stored, Packed
  <2>4. ASSUME NEW p \in Procs, owner[p] \notin LateOwners, WriteRoot(p, "store", "close")
        PROVE  Spared
    BY <2>4 DEF WriteRoot, Goto, store, search, Stored, Packed
  <2>5. ASSUME NEW p \in Procs, CloseStore(p, "close", "finish") PROVE Spared
    BY <2>5 DEF CloseStore, Hold, Goto, store, search, Stored, Packed
  <2>6. ASSUME NEW p \in Procs, CloseStore(p, "store", "root") PROVE Spared
    BY <2>6 DEF CloseStore, Hold, Goto, store, search, Stored, Packed
  <2>7. ASSUME NEW p \in Procs, owner[p] \in LateOwners, WriteRoot(p, "root", "finish")
        PROVE  Spared
    BY <2>7 DEF WriteRoot, Goto, store, search, Stored, Packed
  <2>8. ASSUME NEW p \in Procs, Finish(p) PROVE Spared
    BY <2>8 DEF Finish, Goto, store, search, Stored, Packed
  <2>9. ASSUME NEW p \in Procs, ReadReleased(p) PROVE Spared
    BY <2>9 DEF ReadReleased, Goto, store, Stored, Packed
  <2>10. ASSUME NEW p \in Procs, TakeLease(p) PROVE Spared
    BY <2>10 DEF TakeLease, Hold, Goto, store, search, Stored, Packed
  <2>11. ASSUME NEW p \in Procs, Scan(p) PROVE Spared
    BY <2>11 DEF Scan, Goto, store, Stored, Packed
  <2>12. ASSUME NEW p \in Procs, Trace(p) PROVE Spared
    BY <2>12 DEF Trace, store, Stored, Packed
  <2>13. ASSUME NEW p \in Procs, DrawPlan(p) PROVE Spared
    BY <2>13 DEF DrawPlan, Goto, store, Stored, Packed
  <2>14. ASSUME NEW p \in Procs, RemovePack(p) PROVE Spared
    <3>1. Planned /\ TypeOK /\ pc[p] = "packs"
      BY <1>1, <2>14 DEF RemovePack, Inv, SearchRight
    <3>2. ASSUME NEW x \in Stored \ Stored' PROVE x \notin reach
      BY <2>14, <3>1, <3>2 DEF RemovePack, Planned, Stored, Packed
    <3>3. \A q \in Procs : lease[q] # "shared"
      BY <1>1, <2>14, <3>1 DEF Inv, TypeOK, LeaseOfStep, LeaseAt, Collecting
    <3> QED
      BY <3>1, <3>2, <3>3, PlanSpares DEF Sessions
  <2>15. ASSUME NEW p \in Procs, RemoveLoose(p) PROVE Spared
    <3>1. Planned /\ TypeOK /\ pc[p] = "packs"
      BY <1>1, <2>15 DEF RemoveLoose, Inv, SearchRight
    <3>2. ASSUME NEW x \in Stored \ Stored' PROVE x \notin reach
      BY <2>15, <3>1, <3>2 DEF RemoveLoose, Planned, Stored, Packed
    <3>3. \A q \in Procs : lease[q] # "shared"
      BY <1>1, <2>15, <3>1 DEF Inv, TypeOK, LeaseOfStep, LeaseAt, Collecting
    <3> QED
      BY <3>1, <3>2, <3>3, PlanSpares DEF Sessions
  <2>16. ASSUME NEW p \in Procs, Ends(p) PROVE Spared
    BY <2>16 DEF Ends, Vanish, Hold, Goto, store, Stored, Packed
  <2>17. ASSUME NEW o \in Owners, Cancel(o) PROVE Spared
    BY <2>17 DEF Cancel, Abandoned, store, search, Stored, Packed
  <2>18. ASSUME NEW o \in Owners, ReleaseOwner(o) PROVE Spared
    BY <2>18 DEF ReleaseOwner, store, search, Stored, Packed
  <2>19. ASSUME UNCHANGED vars PROVE Spared
    BY <2>19 DEF vars, store, search, Stored, Packed
  <2> QED
    BY <1>1, <2>1, <2>2, <2>3, <2>4, <2>5, <2>6, <2>7, <2>8, <2>9, <2>10, <2>11, <2>12,
       <2>13, <2>14, <2>15, <2>16, <2>17, <2>18, <2>19, Zenon
       DEF Next, Publish, Collect, Ends, Blocked, EndCollect, Crash
<1> QED
  BY <1>1, Invariance, PTL DEF Spec, OnlyGarbageDisappears
=============================================================================
