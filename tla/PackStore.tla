------------------------------ MODULE PackStore ------------------------------
(***************************************************************************)
(* What the pack catalog promises its callers: a set of packs that changes *)
(* one pack at a time, survives every crash, and keeps what it has         *)
(* reported stored to an open store until that store is closed.            *)
(***************************************************************************)
CONSTANTS Procs, Packs

VARIABLES
  store,  \* the packs of the store
  held    \* what each open store was told is stored

Init ==
  /\ store \in SUBSET Packs
  /\ held = [p \in Procs |-> {}]

Add(k) ==
  /\ store' = store \cup {k}
  /\ UNCHANGED held

\* Collection takes no pack that an open store relies on.
Remove(k) ==
  /\ \A p \in Procs : held[p] = {}
  /\ store' = store \ {k}
  /\ UNCHANGED held

Acknowledge(p, k) ==
  /\ k \in store
  /\ held' = [held EXCEPT ![p] = @ \cup {k}]
  /\ UNCHANGED store

Close(p) ==
  /\ held' = [held EXCEPT ![p] = {}]
  /\ UNCHANGED store

Next ==
  \/ \E k \in Packs : Add(k) \/ Remove(k)
  \/ \E p \in Procs : Close(p) \/ \E k \in Packs : Acknowledge(p, k)

Spec == Init /\ [][Next]_<<store, held>>
=============================================================================
