--------------------------- MODULE RunPublication ---------------------------
(***************************************************************************)
(* Publication of a prepared run: crates/clew/src/main.rs                  *)
(* (publish_task_run, recover_task_run) and task_run_v2.rs (publish).      *)
(*                                                                         *)
(* A publication marks the run Publishing, locks the repository, checks    *)
(* the target branch, moves it by a two-phase `git update-ref`             *)
(* transaction, with the checked-out files brought forward between the two *)
(* phases, publishes the index of the candidate and records the result.    *)
(* The owner of the repository works in it all the while.  Cancellation,   *)
(* resumption and marking a run are single compare-and-append steps here;  *)
(* TaskRun has them in detail.                                             *)
(***************************************************************************)
EXTENDS RunLedger, FiniteSets

CONSTANTS
  Commands, None,
  Settings,       \* what a run may be like: see setting
  Calls,          \* the commands that are used
  UserMay,        \* what the owner does: "commit", "edit", "restore"
  MaxSequence     \* bound: length of the ledger

ASSUME PublicationAssumption ==
  /\ None \notin Commands
  /\ Settings \subseteq [conditional : BOOLEAN, checkedOut : BOOLEAN]
  /\ Calls \subseteq {"publish", "recover", "cancel", "resume"}
  /\ UserMay \subseteq {"commit", "edit", "restore"}
  /\ MaxSequence \in Nat

VARIABLES
  setting,    \* the candidate needs an approval; the target branch is checked out
  rec,        \* record at the end of the run ledger
  ref,        \* the target branch: "base", "candidate" or "user"
  tree,       \* the commit that index and files of the target agree with
  edited,     \* there are changes of the owner on top of it
  index,      \* the candidate's generation is published
  lock,       \* holder of the repository's publish lock
  refLock,    \* holder of the ref transaction
  pc, mem,    \* step and copy of the record, of each command
  call,       \* "publish" or "recover", of each command
  seen,       \* the target branch as read under the lock
  error,      \* "none", "recovery" (WORKTREE_RECOVERY_REQUIRED) or "other"
  moved,      \* history: the branch was moved to the candidate
  requested   \* history: publication was asked for

git == <<ref, tree, edited, refLock, moved>>
vars == <<setting, rec, git, index, lock, pc, mem, call, seen, error, requested>>

Conditional == setting.conditional
CheckedOut == setting.checkedOut

ReadyStatus == IF Conditional THEN "ReadyToPublishConditional" ELSE "ReadyToPublish"
PublishedStatus == IF Conditional THEN "PublishedConditional" ELSE "Published"

Genesis == [seq |-> 1, status |-> ReadyStatus, commit |-> TRUE, approval |-> FALSE]

Goto(c, l) == pc' = [pc EXCEPT ![c] = l]
Fail(c, e) == Goto(c, "release") /\ error' = [error EXCEPT ![c] = e]

\* The record as copied, with another status, at the end of the ledger.
Saved(copy, status) ==
  /\ CanSave(rec, [copy EXCEPT !.status = status])
  /\ rec' = Appended([copy EXCEPT !.status = status])

\* Bound: a command starts if the ledger has room for what is under way.
RoomToRun == rec.seq + Cardinality(Commands) < MaxSequence

\* require_target_clean
Clean == CheckedOut => tree = ref /\ ~edited

Init ==
  /\ setting \in Settings
  /\ rec = Genesis
  /\ ref = "base" /\ tree = "base" /\ edited = FALSE /\ index = FALSE
  /\ lock = None /\ refLock = None
  /\ pc = [c \in Commands |-> "idle"] /\ mem = [c \in Commands |-> Genesis]
  /\ call = [c \in Commands |-> "publish"]
  /\ seen = [c \in Commands |-> "base"] /\ error = [c \in Commands |-> "none"]
  /\ moved = FALSE /\ requested = FALSE

-----------------------------------------------------------------------------
(* The commands up to the lock.                                            *)

\* publish_task_run: with the approval, if one is needed, the run is marked.
Publish(c) ==
  /\ pc[c] = "idle" /\ "publish" \in Calls /\ RoomToRun
  /\ rec.status \in ReadyStatuses
  /\ Saved([rec EXCEPT !.approval = Conditional], "Publishing")
  /\ mem' = [mem EXCEPT ![c] = rec']
  /\ call' = [call EXCEPT ![c] = "publish"]
  /\ requested' = TRUE
  /\ Goto(c, "approve")
  /\ UNCHANGED <<setting, git, index, lock, seen, error>>

\* recover_task_run, of a run that has its prepared authority.
Recover(c) ==
  /\ pc[c] = "idle" /\ "recover" \in Calls /\ RoomToRun
  /\ rec.status \in {"Publishing", "WorktreeRecoveryRequired"}
  /\ mem' = [mem EXCEPT ![c] = rec]
  /\ call' = [call EXCEPT ![c] = "recover"]
  /\ Goto(c, "approve")
  /\ UNCHANGED <<setting, rec, git, index, lock, seen, error, requested>>

Cancel(c) ==
  /\ pc[c] = "idle" /\ "cancel" \in Calls /\ RoomToRun
  /\ rec.status \in CancellableStatuses
  /\ Saved(rec, "Cancelled")
  /\ UNCHANGED <<setting, git, index, lock, pc, mem, call, seen, error, requested>>

\* resume_task_run: a run with a candidate awaits recovery.
Resume(c) ==
  /\ pc[c] = "idle" /\ "resume" \in Calls /\ RoomToRun
  /\ rec.status = "Cancelled"
  /\ Saved(rec, "WorktreeRecoveryRequired")
  /\ UNCHANGED <<setting, git, index, lock, pc, mem, call, seen, error, requested>>

\* Mutant: the approval is taken for given.
ApproveAlways(c) ==
  /\ pc[c] = "approve"
  /\ Goto(c, "lock") /\ UNCHANGED error
  /\ UNCHANGED <<setting, rec, git, index, lock, mem, call, seen, requested>>

Approve(c) ==
  /\ pc[c] = "approve"
  /\ IF mem[c].approval = Conditional
       THEN Goto(c, "lock") /\ UNCHANGED error
       ELSE Fail(c, "other")
  /\ UNCHANGED <<setting, rec, git, index, lock, mem, call, seen, requested>>

Lock(c) ==
  /\ pc[c] = "lock" /\ lock = None
  /\ lock' = c /\ Goto(c, "read")
  /\ UNCHANGED <<setting, rec, git, index, mem, call, seen, error, requested>>

-----------------------------------------------------------------------------
(* Under the lock: the checks.                                             *)

\* require_publication_mutation_branch
Read(c) ==
  /\ pc[c] = "read"
  /\ seen' = [seen EXCEPT ![c] = ref]
  /\ Goto(c, "worktrees")
  /\ UNCHANGED <<setting, rec, git, index, lock, mem, call, error, requested>>

\* require_publish_worktrees and the checks of candidate, generation and approval.
\* A worktree that is missing or elsewhere asks for recovery, the rest does not.
Worktrees(c) ==
  /\ pc[c] = "worktrees"
  /\ \/ /\ CheckedOut => ref # "user" /\ Clean
        /\ Goto(c, "branch") /\ UNCHANGED error
     \/ \E e \in {"recovery", "other"} : Fail(c, e)
  /\ UNCHANGED <<setting, rec, git, index, lock, mem, call, seen, requested>>

\* The branch is at the candidate already; synchronize_checked_out_target finds it
\* there too.
AlreadyMoved(c) ==
  /\ pc[c] = "branch" /\ seen[c] = "candidate"
  /\ IF ref = "candidate" THEN Goto(c, "index") /\ UNCHANGED error ELSE Fail(c, "other")
  /\ UNCHANGED <<setting, rec, git, index, lock, mem, call, seen, requested>>

NotOurs(c) ==
  /\ pc[c] = "branch" /\ seen[c] = "user"
  /\ Fail(c, "other")
  /\ UNCHANGED <<setting, rec, git, index, lock, mem, call, seen, requested>>

ToMove(c) ==
  /\ pc[c] = "branch" /\ seen[c] = "base"
  /\ IF Clean THEN Goto(c, "prepare") /\ UNCHANGED error ELSE Fail(c, "other")
  /\ UNCHANGED <<setting, rec, git, index, lock, mem, call, seen, requested>>

-----------------------------------------------------------------------------
(* compare_and_swap_direct_branch.                                         *)

\* Mutant: the transaction names no expected value.
PrepareAnyway(c) ==
  /\ pc[c] = "prepare" /\ refLock = None
  /\ refLock' = c /\ Goto(c, "sync") /\ UNCHANGED error
  /\ UNCHANGED <<setting, rec, ref, tree, edited, moved, index, lock, mem, call, seen, requested>>

\* git locks the ref and compares it with the expected value.
Prepare(c) ==
  /\ pc[c] = "prepare" /\ refLock = None
  /\ IF ref = "base"
       THEN refLock' = c /\ Goto(c, "sync") /\ UNCHANGED error
       ELSE Fail(c, "other") /\ UNCHANGED refLock
  /\ UNCHANGED <<setting, rec, ref, tree, edited, moved, index, lock, mem, call, seen, requested>>

\* read-tree -m -u: index and files go forward, changes elsewhere stay.
Sync(c) ==
  /\ pc[c] = "sync"
  /\ tree' = IF CheckedOut THEN "candidate" ELSE tree
  /\ CheckedOut => tree = "base"
  /\ Goto(c, "commit")
  /\ UNCHANGED <<setting, rec, ref, edited, refLock, moved, index, lock, mem, call, seen, error, requested>>

\* A change is in the way, or one of the checks before it fails: abort.
SyncFails(c) ==
  /\ pc[c] = "sync"
  /\ refLock' = None
  /\ \/ CheckedOut /\ Fail(c, "recovery")
     \/ Fail(c, "other")
  /\ UNCHANGED <<setting, rec, ref, tree, edited, moved, index, lock, mem, call, seen, requested>>

\* git commits the transaction; its answer may get lost.
Commit(c) ==
  /\ pc[c] = "commit"
  /\ ref' = "candidate" /\ moved' = TRUE /\ refLock' = None
  /\ \/ Goto(c, "confirm") /\ UNCHANGED error
     \/ Fail(c, "recovery")
  /\ UNCHANGED <<setting, rec, tree, edited, index, lock, mem, call, seen, requested>>

CommitFails(c) ==
  /\ pc[c] = "commit"
  /\ refLock' = None
  /\ Goto(c, "reconcile")
  /\ UNCHANGED <<setting, rec, ref, tree, edited, moved, index, lock, mem, call, seen, error, requested>>

\* reconcile_failed_branch_transaction: the files go back, if the branch is where
\* it was.
Reconcile(c) ==
  /\ pc[c] = "reconcile"
  /\ \/ /\ ref = "base"
        /\ tree' = IF CheckedOut THEN "base" ELSE tree
        /\ Fail(c, "other")
     \/ /\ ref # "base" \/ CheckedOut
        /\ Fail(c, "recovery") /\ UNCHANGED tree
  /\ UNCHANGED <<setting, rec, ref, edited, refLock, moved, index, lock, mem, call, seen, requested>>

-----------------------------------------------------------------------------
(* After the move.                                                         *)

Confirm(c) ==
  /\ pc[c] = "confirm"
  /\ IF ref = "candidate" THEN Goto(c, "index") /\ UNCHANGED error ELSE Fail(c, "recovery")
  /\ UNCHANGED <<setting, rec, git, index, lock, mem, call, seen, requested>>

\* publish_candidate_generation
PublishIndex(c) ==
  /\ pc[c] = "index"
  /\ \/ index' = TRUE /\ Goto(c, "verify") /\ UNCHANGED error
     \/ Fail(c, "recovery") /\ UNCHANGED index
  /\ UNCHANGED <<setting, rec, git, lock, mem, call, seen, requested>>

\* verify_published_worktrees
Verify(c) ==
  /\ pc[c] = "verify"
  /\ IF CheckedOut /\ ref # "candidate" THEN Fail(c, "recovery")
     ELSE IF ~Clean THEN Fail(c, "other")
     ELSE Goto(c, "release") /\ UNCHANGED error
  /\ UNCHANGED <<setting, rec, git, index, lock, mem, call, seen, requested>>

\* Mutant: a lost answer of git is taken for success.
ResultHasty(c) ==
  CASE error[c] = "other" /\ call[c] = "publish" -> ReadyStatus
    [] OTHER -> PublishedStatus

\* What the command records of the publication.
Result(c) ==
  CASE error[c] = "none" -> PublishedStatus
    [] error[c] = "other" /\ call[c] = "publish" -> ReadyStatus
    [] OTHER -> "WorktreeRecoveryRequired"

\* Mutant: the lock outlives a publication that failed.
ReleaseOnSuccess(c) ==
  /\ pc[c] = "release"
  /\ lock' = IF lock = c /\ error[c] = "none" THEN None ELSE lock
  /\ Goto(c, "finish")
  /\ UNCHANGED <<setting, rec, git, index, mem, call, seen, error, requested>>

\* publish returns, and drops the lock.
Release(c) ==
  /\ pc[c] = "release"
  /\ lock' = IF lock = c THEN None ELSE lock
  /\ Goto(c, "finish")
  /\ UNCHANGED <<setting, rec, git, index, mem, call, seen, error, requested>>

\* The result is saved; a ledger that went on meanwhile wins.
Finish(c) ==
  /\ pc[c] = "finish"
  /\ \/ Saved(mem[c], Result(c))
     \/ ~CanSave(rec, [mem[c] EXCEPT !.status = Result(c)]) /\ UNCHANGED rec
  /\ Goto(c, "idle")
  /\ error' = [error EXCEPT ![c] = "none"]
  /\ UNCHANGED <<setting, git, index, lock, mem, call, seen, requested>>

Work(c) ==
  \/ Approve(c) \/ Lock(c) \/ Read(c) \/ Worktrees(c)
  \/ AlreadyMoved(c) \/ NotOurs(c) \/ ToMove(c)
  \/ Prepare(c) \/ Sync(c) \/ SyncFails(c) \/ Commit(c) \/ CommitFails(c) \/ Reconcile(c)
  \/ Confirm(c) \/ PublishIndex(c) \/ Verify(c) \/ Release(c) \/ Finish(c)

-----------------------------------------------------------------------------
(* Death of a command, and the owner of the repository.                    *)

\* The flock and the pipe to git go with the process: git aborts.
Crash(c) ==
  /\ pc[c] # "idle"
  /\ Goto(c, "idle")
  /\ lock' = IF lock = c THEN None ELSE lock
  /\ refLock' = IF refLock = c THEN None ELSE refLock
  /\ error' = [error EXCEPT ![c] = "none"]
  /\ UNCHANGED <<setting, rec, ref, tree, edited, moved, index, mem, call, seen, requested>>

UserCommit ==
  /\ "commit" \in UserMay /\ refLock = None /\ ref # "user"
  /\ ref' = "user"
  /\ tree' = IF CheckedOut THEN "user" ELSE tree
  /\ edited' = FALSE
  /\ UNCHANGED <<setting, rec, refLock, moved, index, lock, pc, mem, call, seen, error, requested>>

UserEdit ==
  /\ "edit" \in UserMay /\ CheckedOut /\ ~edited
  /\ edited' = TRUE
  /\ UNCHANGED <<setting, rec, ref, tree, refLock, moved, index, lock, pc, mem, call, seen, error, requested>>

UserRestore ==
  /\ "restore" \in UserMay /\ ~Clean
  /\ tree' = ref /\ edited' = FALSE
  /\ UNCHANGED <<setting, rec, ref, refLock, moved, index, lock, pc, mem, call, seen, error, requested>>

User == UserCommit \/ UserEdit \/ UserRestore

Next ==
  \/ \E c \in Commands :
       Publish(c) \/ Recover(c) \/ Cancel(c) \/ Resume(c) \/ Work(c) \/ Crash(c)
  \/ User

Spec == Init /\ [][Next]_vars

\* A command that runs goes on; one that waits for the lock gets it in the end.
FairSpec ==
  /\ Spec
  /\ \A c \in Commands : WF_vars(Work(c) /\ pc[c] # "lock") /\ SF_vars(Lock(c))

-----------------------------------------------------------------------------
(* Properties.                                                             *)

Oids == {"base", "candidate", "user"}
Records ==
  [seq : Nat \ {0}, status : Statuses, commit : {TRUE}, approval : BOOLEAN]
Locked ==
  {"read", "worktrees", "branch", "prepare", "sync", "commit", "reconcile", "confirm",
   "index", "verify"}

\* Type correctness, and the discipline of the locks: everything between the checks
\* and the last look at the worktrees is done by the holder of RepositoryPublishLock,
\* and a ref transaction is open only between its two phases.
TypeOK ==
  /\ setting \in Settings
  /\ rec \in Records /\ mem \in [Commands -> Records]
  /\ ref \in Oids /\ tree \in Oids /\ edited \in BOOLEAN /\ index \in BOOLEAN
  /\ lock \in Commands \cup {None} /\ refLock \in Commands \cup {None}
  /\ pc \in [Commands -> Locked \cup {"idle", "approve", "lock", "release", "finish"}]
  /\ call \in [Commands -> {"publish", "recover"}]
  /\ seen \in [Commands -> Oids]
  /\ error \in [Commands -> {"none", "recovery", "other"}]
  /\ moved \in BOOLEAN /\ requested \in BOOLEAN
  /\ \A c \in Commands : pc[c] \in Locked => lock = c
  /\ \A c \in Commands : refLock = c <=> pc[c] \in {"sync", "commit"}

\* A run is recorded as published only if the branch was moved to its candidate and
\* the candidate's index was published, whoever did what (publish_task_run and
\* recover_task_run, whose results may be saved in either order).
PublishedMeansMoved ==
  rec.status \in PublishedStatuses => moved /\ index

\* The branch is only ever moved from where the session found it: a commit that the
\* owner makes at any moment is not taken off the branch
\* (compare_and_swap_direct_branch).
UserCommitKept == [][ref = "user" => ref' = "user"]_vars

\* A conditional candidate does not get on the branch without a recorded approval,
\* by no sequence of publish, cancel, resume and recover.
ApprovalFirst == moved /\ Conditional => rec.approval

\* Every publish and recover comes to an end: nobody waits for a lock forever.
CommandsEnd == \A c \in Commands : pc[c] # "idle" ~> pc[c] = "idle"

\* Only a run that was not published can be cancelled (cancel_task_run).
CancelledIsUnpublished == rec.status = "Cancelled" => ~moved

\* The branch moves only after publication was asked for.
OnlyPublishMoves == moved => requested

\* In a repository whose owner keeps still, recovery finds the target as clean as
\* the publication found it, and can go on.
RecoveryCanGoOn ==
  \A c \in Commands : pc[c] = "worktrees" => Clean
=============================================================================
