----------------------------- MODULE MCWorkspace -----------------------------
(* An instance of Workspace for TLC: two commands, two members. *)
EXTENDS Workspace

CONSTANTS a, b
=============================================================================
