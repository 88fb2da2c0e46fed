------------------------------ MODULE MCTaskRun ------------------------------
(* Instances of TaskRun for TLC. *)
EXTENDS TaskRun, TLC

\* The whole life without cancel, the whole life without resume, and a race of the two.
Lives ==
  {{"start", "resume", "recover", "close", "gc"},
   {"start", "cancel", "recover", "close", "gc"},
   {"start", "resume", "cancel", "recover"}}

Preparation == {{"start", "resume"}}

Symmetric == Permutations(Commands) \cup Permutations(Executors)
=============================================================================
