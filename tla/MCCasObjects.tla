----------------------------- MODULE MCCasObjects -----------------------------
(* Small instances of CasObjects for TLC. *)
EXTENDS CasObjects, TLC

\* Processes are interchangeable.
Symmetric == Permutations(Procs)
=============================================================================
