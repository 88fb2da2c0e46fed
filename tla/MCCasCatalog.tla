---------------------------- MODULE MCCasCatalog ----------------------------
(* Small instances of CasCatalog for TLC. *)
EXTENDS CasCatalog, TLC

\* Processes and packs are interchangeable; used by the runs without liveness.
Symmetric == Permutations(Procs) \cup Permutations(Packs)
=============================================================================
