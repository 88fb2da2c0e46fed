-------------------------- MODULE MCRunPublication --------------------------
(* Instances of RunPublication for TLC. *)
EXTENDS RunPublication

AllSettings == [conditional : BOOLEAN, checkedOut : BOOLEAN]

\* A candidate without conditions, for a branch that is checked out.
Plain == {[conditional |-> FALSE, checkedOut |-> TRUE]}
=============================================================================
