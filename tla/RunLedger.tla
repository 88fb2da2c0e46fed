------------------------------ MODULE RunLedger ------------------------------
(***************************************************************************)
(* The record of a task run and its ledger (crates/clew/src/session.rs).   *)
(*                                                                         *)
(* A command loads the record at the head of the hash-chained ledger,      *)
(* changes its copy and saves it: under the ledger lock, and only if the   *)
(* ledger still ends where the copy was taken and the change of status is  *)
(* one the table allows.                                                   *)
(***************************************************************************)
EXTENDS Naturals

Statuses ==
  {"Created", "Preparing", "ReadyToPublish", "ReadyToPublishConditional",
   "ValidatedConditional", "Publishing", "Published", "PublishedConditional",
   "WorktreeRecoveryRequired", "Failed", "Cancelled"}

ReadyStatuses == {"ReadyToPublish", "ReadyToPublishConditional"}
PublishedStatuses == {"Published", "PublishedConditional"}

\* run_status_is_active
ActiveStatuses ==
  {"Created", "Preparing", "Publishing", "WorktreeRecoveryRequired"} \cup ReadyStatuses

\* cancellation_allowed
CancellableStatuses == {"Created", "Preparing"} \cup ReadyStatuses

\* run_transition_allowed
Successors(status) ==
  CASE status = "Created" -> {"Preparing", "Cancelled"}
    [] status = "Preparing" ->
         ReadyStatuses \cup {"ValidatedConditional", "Failed", "WorktreeRecoveryRequired", "Cancelled"}
    [] status \in {"Failed", "Cancelled"} -> {"Created", "WorktreeRecoveryRequired"}
    [] status \in ReadyStatuses -> {"Publishing", "Cancelled"}
    [] status = "Publishing" ->
         PublishedStatuses \cup ReadyStatuses \cup {"WorktreeRecoveryRequired"}
    [] status = "WorktreeRecoveryRequired" ->
         ReadyStatuses \cup PublishedStatuses \cup {"ValidatedConditional", "Failed"}
    [] OTHER -> {}

\* Mutant: the ledger is appended to, wherever it ends.
UpToDateAlways(ledger, copy) == TRUE

\* save_run_transition: the copy was taken at the present end of the ledger...
UpToDate(ledger, copy) == copy.seq = ledger.seq

\* ... and is a legal successor of it (require_same_run_identity included: an
\* authority once recorded is not taken back).
Legal(ledger, copy) ==
  /\ copy.status \in Successors(ledger.status) \cup {ledger.status}
  /\ ledger.commit => copy.commit

CanSave(ledger, copy) == UpToDate(ledger, copy) /\ Legal(ledger, copy)

\* append_run_entry
Appended(copy) == [copy EXCEPT !.seq = @ + 1]
=============================================================================
