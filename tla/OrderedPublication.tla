------------------------- MODULE OrderedPublication -------------------------
(***************************************************************************)
(* What the publication of a workspace promises (README-0.13.25.md, and    *)
(* the head of crates/clew/src/workspace_publish.rs): the order of the     *)
(* members is sealed before the first branch moves, the branches move in   *)
(* that order, a member counts as published only after its branch moved,   *)
(* and nothing of it is ever taken back.                                   *)
(***************************************************************************)
EXTENDS Naturals

CONSTANT N          \* the members are 1..N, in the sealed order

VARIABLES
  sealed,           \* order and approvals are fixed
  moved,            \* members whose branch was moved to the candidate
  done              \* number of members recorded as published

vars == <<sealed, moved, done>>

Init == sealed = FALSE /\ moved = {} /\ done = 0

Seal == ~sealed /\ sealed' = TRUE /\ UNCHANGED <<moved, done>>

\* Only the first member that is not yet done is worked on.
Move ==
  /\ sealed /\ done < N
  /\ moved' = moved \cup {done + 1}
  /\ UNCHANGED <<sealed, done>>

Complete ==
  /\ sealed /\ done + 1 \in moved
  /\ done' = done + 1
  /\ UNCHANGED <<sealed, moved>>

Next == Seal \/ Move \/ Complete

Spec == Init /\ [][Next]_vars
=============================================================================
