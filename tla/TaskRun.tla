------------------------------- MODULE TaskRun -------------------------------
(***************************************************************************)
(* The life of a task run and of its session, from `task-run start` to     *)
(* `session gc` (crates/clew/src/main.rs, task_run_v2.rs, session.rs).     *)
(*                                                                         *)
(* Commands are short-lived processes: start, resume, cancel, recover,     *)
(* close, gc.  start and resume spawn a detached executor, which builds a  *)
(* candidate in a worktree, commits it, leaves a checkpoint and writes     *)
(* prepared-v2.json.  They share the run ledger (RunLedger), the session's *)
(* lifecycle lock and the files of the candidate.  Publication is the      *)
(* subject of RunPublication.                                              *)
(***************************************************************************)
EXTENDS RunLedger

CONSTANTS
  Commands, Executors, None,
  Usages,        \* the sets of commands that may be used
  Outcomes,      \* the verdicts of a preparation
  MaxSequence    \* bound: length of the ledger

ASSUME TaskRunAssumption ==
  /\ None \notin Commands \cup Executors /\ Commands \cap Executors = {}
  /\ Usages \subseteq SUBSET {"start", "resume", "cancel", "recover", "close", "gc"}
  /\ Outcomes \subseteq ReadyStatuses \cup {"ValidatedConditional"}
  /\ MaxSequence \in Nat

VARIABLES
  usage,        \* the commands that are used
  session,      \* "open", "closed" or "collected"
  lock,         \* holder of the session's lifecycle lock
  reference,    \* the session names the run
  rec,          \* record at the end of the run ledger
  worktree,     \* of the candidate: "none", "base" or "committed"
  checkpoint,   \* checkpoint-v2.json exists
  prepared,     \* prepared-v2.json exists
  pc, mem,      \* step and copy of the record, of each process
  result        \* how the last call of each command ended

files == <<worktree, checkpoint, prepared>>
vars == <<usage, session, lock, reference, rec, files, pc, mem, result>>

Procs == Commands \cup Executors

NoRecord ==
  [seq |-> 0, status |-> "absent", commit |-> FALSE, prepared |-> FALSE, pid |-> None]
Genesis == [NoRecord EXCEPT !.seq = 1, !.status = "Created"]

\* process_is_active
Alive(e) == e \in Executors /\ pc[e] \notin {"unborn", "dead"}
\* The executor has claimed the run and has not yet reported.
Working(e) == Alive(e) /\ pc[e] \notin {"spawned", "exec-begin"}

Goto(p, l) == pc' = [pc EXCEPT ![p] = l]
Remember(p, r) == mem' = [mem EXCEPT ![p] = r]
Unlock(p) == lock' = IF lock = p THEN None ELSE lock
Return(c, r) ==
  /\ Goto(c, "idle") /\ Remember(c, NoRecord) /\ Unlock(c)
  /\ result' = [result EXCEPT ![c] = r]

Save(p) ==
  /\ rec.seq < MaxSequence
  /\ CanSave(rec, mem[p])
  /\ rec' = Appended(mem[p])

\* What a save that fails reports.
Refusal(p) == IF UpToDate(rec, mem[p]) THEN "illegal" ELSE "conflict"

Init ==
  /\ usage \in Usages
  /\ session = "open" /\ lock = None
  /\ reference = FALSE /\ rec = NoRecord
  /\ worktree = "none" /\ checkpoint = FALSE /\ prepared = FALSE
  /\ pc = [p \in Procs |-> IF p \in Commands THEN "idle" ELSE "unborn"]
  /\ mem = [p \in Procs |-> NoRecord]
  /\ result = [c \in Commands |-> "none"]

Call(c, l) ==
  /\ pc[c] = "idle"
  /\ Goto(c, l)
  /\ result' = [result EXCEPT ![c] = "none"]
  /\ UNCHANGED <<usage, session, lock, reference, rec, files, mem>>

\* RunRecord::load
Load(c, from, to) ==
  /\ pc[c] = from /\ rec # NoRecord
  /\ Remember(c, rec) /\ Goto(c, to)
  /\ UNCHANGED <<usage, session, lock, reference, rec, files, result>>

LoadFails(c) ==
  /\ pc[c] \in {"resume", "cancel", "recover-load"} /\ rec = NoRecord
  /\ Return(c, "declined")
  /\ UNCHANGED <<usage, session, reference, rec, files>>

\* The lifecycle lock is taken and the session has the status the call needs.
Admit(c, from, to, status) ==
  /\ pc[c] = from /\ lock = None /\ session = status
  /\ lock' = c /\ Goto(c, to)
  /\ UNCHANGED <<usage, session, reference, rec, files, mem, result>>

NotAdmitted(c, from, status) ==
  /\ pc[c] = from /\ lock = None /\ session # status
  /\ Return(c, "declined")
  /\ UNCHANGED <<usage, session, reference, rec, files>>

SaveFails(c, from) ==
  /\ pc[c] = from /\ ~CanSave(rec, mem[c])
  /\ Return(c, Refusal(c))
  /\ UNCHANGED <<usage, session, reference, rec, files>>

\* spawn_task_run
Spawn(c) ==
  /\ pc[c] = "spawn"
  /\ \E e \in Executors :
       /\ pc[e] = "unborn"
       /\ pc' = [pc EXCEPT ![c] = "idle", ![e] = "spawned"]
  /\ Remember(c, NoRecord) /\ Unlock(c)
  /\ result' = [result EXCEPT ![c] = "ok"]
  /\ UNCHANGED <<usage, session, reference, rec, files>>

-----------------------------------------------------------------------------
(* task-run start: RunRecord::create_once.                                 *)

StartReference(c) ==
  /\ pc[c] = "start-reference"
  /\ reference' = TRUE
  /\ Goto(c, "start-genesis")
  /\ UNCHANGED <<usage, session, lock, rec, files, mem, result>>

StartGenesis(c) ==
  /\ pc[c] = "start-genesis" /\ rec = NoRecord
  /\ rec' = Genesis
  /\ Unlock(c) /\ Goto(c, "spawn")
  /\ UNCHANGED <<usage, session, reference, files, mem, result>>

StartAgain(c) ==
  /\ pc[c] = "start-genesis" /\ rec # NoRecord
  /\ Return(c, "ok")
  /\ UNCHANGED <<usage, session, reference, rec, files>>

Start(c) ==
  \/ Admit(c, "start", "start-reference", "open") \/ NotAdmitted(c, "start", "open")
  \/ StartReference(c) \/ StartGenesis(c) \/ StartAgain(c)

-----------------------------------------------------------------------------
(* task-run resume.  The record is loaded before admission.                *)

Committed == checkpoint \/ worktree = "committed"

ResumeNothing(c) ==
  /\ pc[c] = "resume-check"
  /\ \/ mem[c].status \in ReadyStatuses \cup PublishedStatuses \cup {"ValidatedConditional", "Publishing"}
     \/ mem[c].status = "Preparing" /\ Alive(mem[c].pid)
  /\ Return(c, "ok")
  /\ UNCHANGED <<usage, session, reference, rec, files>>

Resumable(c) ==
  \/ mem[c].status \in {"Created", "Failed", "Cancelled", "WorktreeRecoveryRequired"}
  \/ mem[c].status = "Preparing" /\ ~Alive(mem[c].pid)

\* A candidate that was committed awaits recovery.
ResumeCommitted(c) ==
  /\ pc[c] = "resume-check" /\ Resumable(c)
  /\ mem[c].commit \/ Committed
  /\ Remember(c, [mem[c] EXCEPT !.commit = TRUE, !.status = "WorktreeRecoveryRequired"])
  /\ Goto(c, "resume-save")
  /\ UNCHANGED <<usage, session, lock, reference, rec, files, result>>

ResumeUncommitted(c) ==
  /\ pc[c] = "resume-check" /\ Resumable(c)
  /\ ~mem[c].commit /\ ~Committed
  /\ Goto(c, IF worktree = "none" THEN "resume-created" ELSE "resume-discard")
  /\ UNCHANGED <<usage, session, lock, reference, rec, files, mem, result>>

\* discard_precommit_candidate looks again, and then removes the worktree.
DiscardCheck(c) ==
  /\ pc[c] = "resume-discard"
  /\ IF Committed
       THEN Return(c, "declined")
       ELSE Goto(c, "resume-remove") /\ UNCHANGED <<lock, mem, result>>
  /\ UNCHANGED <<usage, session, reference, rec, files>>

Discard(c) ==
  /\ pc[c] = "resume-remove"
  /\ worktree' = "none"
  /\ Goto(c, "resume-created")
  /\ UNCHANGED <<usage, session, lock, reference, rec, checkpoint, prepared, mem, result>>

ResumeCreated(c) ==
  /\ pc[c] = "resume-created"
  /\ Remember(c, [mem[c] EXCEPT !.status = "Created", !.pid = None])
  /\ Goto(c, "resume-save")
  /\ UNCHANGED <<usage, session, lock, reference, rec, files, result>>

\* The run that went back to Created is handed to a new executor.
ResumeSave(c) ==
  /\ pc[c] = "resume-save" /\ Save(c)
  /\ IF mem[c].status = "Created"
       THEN Goto(c, "spawn") /\ UNCHANGED <<lock, mem, result>>
       ELSE Return(c, "ok")
  /\ UNCHANGED <<usage, session, reference, files>>

Resume(c) ==
  \/ Load(c, "resume", "resume-admit")
  \/ Admit(c, "resume-admit", "resume-check", "open") \/ NotAdmitted(c, "resume-admit", "open")
  \/ ResumeNothing(c) \/ ResumeCommitted(c) \/ ResumeUncommitted(c)
  \/ DiscardCheck(c) \/ Discard(c) \/ ResumeCreated(c)
  \/ ResumeSave(c) \/ SaveFails(c, "resume-save")

-----------------------------------------------------------------------------
(* task-run cancel.                                                        *)

CancelNothing(c) ==
  /\ pc[c] = "cancel-check" /\ mem[c].status \notin CancellableStatuses
  /\ Return(c, IF mem[c].status = "Cancelled" THEN "ok" ELSE "declined")
  /\ UNCHANGED <<usage, session, reference, rec, files>>

CancelRequest(c) ==
  /\ pc[c] = "cancel-check" /\ mem[c].status \in CancellableStatuses
  /\ Remember(c, [mem[c] EXCEPT !.status = "Cancelled"])
  /\ Goto(c, "cancel-save")
  /\ UNCHANGED <<usage, session, lock, reference, rec, files, result>>

CancelSave(c) ==
  /\ pc[c] = "cancel-save" /\ Save(c)
  /\ Goto(c, IF mem[c].pid = None THEN "cancel-reload" ELSE "cancel-kill")
  /\ UNCHANGED <<usage, session, lock, reference, files, mem, result>>

\* terminate_verified_process_group
CancelKill(c) ==
  /\ pc[c] = "cancel-kill" /\ Alive(mem[c].pid)
  /\ pc' = [pc EXCEPT ![c] = "cancel-reload", ![mem[c].pid] = "dead"]
  /\ UNCHANGED <<usage, session, lock, reference, rec, files, mem, result>>

CancelTooLate(c) ==
  /\ pc[c] = "cancel-kill" /\ ~Alive(mem[c].pid)
  /\ Return(c, "gone")
  /\ UNCHANGED <<usage, session, reference, rec, files>>

\* Whatever the record says by now, it is cancelled and has no process.
CancelReload(c) ==
  /\ pc[c] = "cancel-reload"
  /\ Remember(c, [rec EXCEPT !.status = "Cancelled", !.pid = None])
  /\ Goto(c, "cancel-settle")
  /\ UNCHANGED <<usage, session, lock, reference, rec, files, result>>

CancelSettle(c) ==
  /\ pc[c] = "cancel-settle" /\ Save(c)
  /\ Return(c, "ok")
  /\ UNCHANGED <<usage, session, reference, files>>

Cancel(c) ==
  \/ Load(c, "cancel", "cancel-check")
  \/ CancelNothing(c) \/ CancelRequest(c) \/ CancelSave(c) \/ SaveFails(c, "cancel-save")
  \/ CancelKill(c) \/ CancelTooLate(c)
  \/ CancelReload(c) \/ CancelSettle(c) \/ SaveFails(c, "cancel-settle")

-----------------------------------------------------------------------------
(* task-run recover, of a preparation.                                     *)

\* require_open takes the lock only to read.
RecoverOpen(c) ==
  /\ pc[c] = "recover" /\ lock = None
  /\ IF session = "open"
       THEN Goto(c, "recover-load") /\ UNCHANGED <<lock, mem, result>>
       ELSE Return(c, "declined")
  /\ UNCHANGED <<usage, session, reference, rec, files>>

RecoverNothing(c) ==
  /\ pc[c] = "recover-check"
  /\ \/ mem[c].status # "WorktreeRecoveryRequired"
     \/ prepared /\ mem[c].prepared    \* recover publishes: RunPublication
  /\ Return(c, "declined")
  /\ UNCHANGED <<usage, session, reference, rec, files>>

\* recover_preparation, to the point where the candidate is accepted.
RecoverFinish(c) ==
  /\ pc[c] = "recover-check"
  /\ mem[c].status = "WorktreeRecoveryRequired"
  /\ ~(prepared /\ mem[c].prepared)
  /\ \/ /\ worktree = "committed"
        /\ checkpoint' = TRUE
        /\ Goto(c, "recover-write")
     \/ /\ checkpoint' \in {checkpoint, checkpoint \/ worktree = "committed"}
        /\ Goto(c, "recover-save")
  /\ UNCHANGED <<usage, session, lock, reference, rec, worktree, prepared, mem, result>>

RecoverWrite(c) ==
  /\ pc[c] = "recover-write"
  /\ prepared' = TRUE
  /\ \E outcome \in Outcomes :
       Remember(c, [mem[c] EXCEPT !.commit = TRUE, !.prepared = TRUE, !.status = outcome])
  /\ Goto(c, "recover-save")
  /\ UNCHANGED <<usage, session, lock, reference, rec, worktree, checkpoint, result>>

RecoverSave(c) ==
  /\ pc[c] = "recover-save" /\ Save(c)
  /\ Return(c, "ok")
  /\ UNCHANGED <<usage, session, reference, files>>

Recover(c) ==
  \/ RecoverOpen(c) \/ Load(c, "recover-load", "recover-check")
  \/ RecoverNothing(c) \/ RecoverFinish(c) \/ RecoverWrite(c)
  \/ RecoverSave(c) \/ SaveFails(c, "recover-save")

-----------------------------------------------------------------------------
(* session close (or abort) and session gc.                                *)

\* Mutant: a run without a process is taken for a settled one.
RunsIdle == reference => rec # NoRecord /\ rec.pid = None

\* load_session_runs and the test on each run.
RunsSettled ==
  reference => /\ rec # NoRecord
               /\ rec.status \notin ActiveStatuses
               /\ rec.pid = None

CloseAppend(c) ==
  /\ pc[c] = "close-check" /\ RunsSettled
  /\ session' = "closed"
  /\ Return(c, "ok")
  /\ UNCHANGED <<usage, reference, rec, files>>

SessionBusy(c) ==
  /\ pc[c] \in {"close-check", "gc-check"} /\ ~RunsSettled
  /\ Return(c, "declined")
  /\ UNCHANGED <<usage, session, reference, rec, files>>

Close(c) ==
  \/ Admit(c, "close", "close-check", "open") \/ NotAdmitted(c, "close", "open")
  \/ CloseAppend(c) \/ SessionBusy(c)

\* The worktree is where the record says the candidate is.
GcCheck(c) ==
  /\ pc[c] = "gc-check" /\ RunsSettled
  /\ worktree # "none" => (worktree = "committed") = rec.commit
  /\ Goto(c, "gc-worktree")
  /\ UNCHANGED <<usage, session, lock, reference, rec, files, mem, result>>

\* It is elsewhere, or holds changes.
GcDeclines(c) ==
  /\ pc[c] = "gc-check" /\ RunsSettled /\ worktree # "none"
  /\ Return(c, "declined")
  /\ UNCHANGED <<usage, session, reference, rec, files>>

GcWorktree(c) ==
  /\ pc[c] = "gc-worktree"
  /\ worktree' = "none"
  /\ Goto(c, "gc-files")
  /\ UNCHANGED <<usage, session, lock, reference, rec, checkpoint, prepared, mem, result>>

GcFiles(c) ==
  /\ pc[c] = "gc-files"
  /\ checkpoint' = FALSE /\ prepared' = FALSE
  /\ Goto(c, "gc-append")
  /\ UNCHANGED <<usage, session, lock, reference, rec, worktree, mem, result>>

GcAppend(c) ==
  /\ pc[c] = "gc-append"
  /\ session' = "collected"
  /\ Return(c, "ok")
  /\ UNCHANGED <<usage, reference, rec, files>>

Gc(c) ==
  \/ Admit(c, "gc", "gc-check", "closed") \/ NotAdmitted(c, "gc", "closed")
  \/ GcCheck(c) \/ GcDeclines(c) \/ GcWorktree(c) \/ GcFiles(c) \/ GcAppend(c)

-----------------------------------------------------------------------------
(* The executor: execute_task_run, prepare_task_run.                       *)

ExecLoad(e) ==
  /\ pc[e] = "spawned"
  /\ IF rec.status = "Created"
       THEN /\ Remember(e, [rec EXCEPT !.status = "Preparing", !.pid = e])
            /\ Goto(e, "exec-begin")
       ELSE Goto(e, "dead") /\ UNCHANGED mem
  /\ UNCHANGED <<usage, session, lock, reference, rec, files, result>>

ExecBegin(e) ==
  /\ pc[e] = "exec-begin"
  /\ \/ Save(e) /\ Goto(e, "exec-add")
     \/ ~CanSave(rec, mem[e]) /\ Goto(e, "dead") /\ UNCHANGED rec
  /\ Remember(e, NoRecord)
  /\ UNCHANGED <<usage, session, lock, reference, files, result>>

\* A step of prepare that finds the worktree as it must be.
Prepare(e, from, to, found) ==
  /\ pc[e] = from /\ worktree = found
  /\ Goto(e, to)
  /\ UNCHANGED <<usage, session, lock, reference, rec, mem, result>>

ExecAdd(e) ==
  /\ Prepare(e, "exec-add", "exec-commit", "none")
  /\ worktree' = "base" /\ UNCHANGED <<checkpoint, prepared>>

ExecCommit(e) ==
  /\ Prepare(e, "exec-commit", "exec-checkpoint", "base")
  /\ worktree' = "committed" /\ UNCHANGED <<checkpoint, prepared>>

ExecCheckpoint(e) ==
  /\ pc[e] = "exec-checkpoint"
  /\ checkpoint' = TRUE
  /\ Goto(e, "exec-finish")
  /\ UNCHANGED <<usage, session, lock, reference, rec, worktree, prepared, mem, result>>

\* Mutant: the record is saved before prepared-v2.json is written.
ExecFinishUnwritten(e) ==
  /\ Prepare(e, "exec-finish", "exec-reload", "committed")
  /\ UNCHANGED files

ExecFinish(e) ==
  /\ Prepare(e, "exec-finish", "exec-write", "committed")
  /\ UNCHANGED files

ExecWrite(e) ==
  /\ pc[e] = "exec-write"
  /\ prepared' = TRUE
  /\ Goto(e, "exec-reload")
  /\ UNCHANGED <<usage, session, lock, reference, rec, worktree, checkpoint, mem, result>>

\* The verdict is added to whatever the record says by now.
ExecReload(e) ==
  /\ pc[e] = "exec-reload"
  /\ \E outcome \in Outcomes :
       Remember(e, [rec EXCEPT !.commit = TRUE, !.prepared = TRUE, !.pid = None,
                               !.status = IF @ = "Cancelled" THEN @ ELSE outcome])
  /\ Goto(e, "exec-save")
  /\ UNCHANGED <<usage, session, lock, reference, rec, files, result>>

ExecSave(e) ==
  /\ pc[e] = "exec-save"
  /\ \/ Save(e) /\ Goto(e, "dead")
     \/ ~CanSave(rec, mem[e]) /\ Goto(e, "exec-error") /\ UNCHANGED rec
  /\ Remember(e, NoRecord)
  /\ UNCHANGED <<usage, session, lock, reference, files, result>>

\* Any step of the preparation may fail.
ExecFails(e) ==
  /\ pc[e] \in {"exec-add", "exec-commit", "exec-checkpoint", "exec-finish", "exec-write"}
  /\ Goto(e, "exec-error")
  /\ UNCHANGED <<usage, session, lock, reference, rec, files, mem, result>>

\* checkpoint_commit and the status of a run whose preparation failed.
ExecError(e) ==
  /\ pc[e] = "exec-error"
  /\ Remember(e,
       IF rec.status = "Cancelled" THEN [rec EXCEPT !.pid = None]
       ELSE [rec EXCEPT !.pid = None, !.commit = @ \/ checkpoint,
               !.status = IF checkpoint THEN "WorktreeRecoveryRequired" ELSE "Failed"])
  /\ Goto(e, "exec-report")
  /\ UNCHANGED <<usage, session, lock, reference, rec, files, result>>

\* let _ = latest.save()
ExecReport(e) ==
  /\ pc[e] = "exec-report"
  /\ Save(e) \/ (~CanSave(rec, mem[e]) /\ UNCHANGED rec)
  /\ Goto(e, "dead") /\ Remember(e, NoRecord)
  /\ UNCHANGED <<usage, session, lock, reference, files, result>>

Execute(e) ==
  \/ ExecLoad(e) \/ ExecBegin(e) \/ ExecAdd(e) \/ ExecCommit(e) \/ ExecCheckpoint(e)
  \/ ExecFinish(e) \/ ExecWrite(e) \/ ExecReload(e) \/ ExecSave(e)
  \/ ExecFails(e) \/ ExecError(e) \/ ExecReport(e)

\* A process dies; its flock goes with it.
Crash(p) ==
  /\ pc[p] \notin {"idle", "unborn", "dead"}
  /\ Goto(p, IF p \in Commands THEN "idle" ELSE "dead")
  /\ Remember(p, NoRecord) /\ Unlock(p)
  /\ UNCHANGED <<usage, session, reference, rec, files, result>>

Command(c) ==
  \/ \E call \in usage : Call(c, call)
  \/ Start(c) \/ Resume(c) \/ Cancel(c) \/ Recover(c) \/ Close(c) \/ Gc(c)
  \/ LoadFails(c) \/ Spawn(c)

Next ==
  \/ \E c \in Commands : Command(c)
  \/ \E e \in Executors : Execute(e)
  \/ \E p \in Procs : Crash(p)

Spec == Init /\ [][Next]_vars

-----------------------------------------------------------------------------
(* Properties.                                                             *)

Labels ==
  {"idle", "spawn", "start", "start-reference", "start-genesis",
   "resume", "resume-admit", "resume-check", "resume-discard", "resume-remove",
   "resume-created", "resume-save",
   "cancel", "cancel-check", "cancel-save", "cancel-kill", "cancel-reload", "cancel-settle",
   "recover", "recover-load", "recover-check", "recover-write", "recover-save",
   "close", "close-check", "gc", "gc-check", "gc-worktree", "gc-files", "gc-append"}

ExecutorLabels ==
  {"unborn", "dead", "spawned", "exec-begin", "exec-add", "exec-commit", "exec-checkpoint",
   "exec-finish", "exec-write", "exec-reload", "exec-save", "exec-error", "exec-report"}

Records ==
  [seq : Nat, status : Statuses \cup {"absent"},
   commit : BOOLEAN, prepared : BOOLEAN, pid : Executors \cup {None}]

\* Type correctness, and the discipline of the lifecycle lock: every step that
\* open_admission, create_once, transition_session_terminal and garbage collection
\* take between admission and return is taken by the holder of the lock.
TypeOK ==
  /\ usage \in Usages
  /\ session \in {"open", "closed", "collected"}
  /\ lock \in Commands \cup {None}
  /\ reference \in BOOLEAN
  /\ rec \in Records
  /\ worktree \in {"none", "base", "committed"}
  /\ checkpoint \in BOOLEAN /\ prepared \in BOOLEAN
  /\ pc \in [Procs -> Labels \cup ExecutorLabels]
  /\ mem \in [Procs -> Records]
  /\ result \in [Commands -> {"none", "ok", "declined", "gone", "illegal", "conflict"}]
  /\ \A c \in Commands :
       pc[c] \in {"start-reference", "start-genesis", "resume-check", "resume-discard",
                  "resume-remove", "resume-created", "resume-save", "close-check",
                  "gc-check", "gc-worktree", "gc-files", "gc-append"} => lock = c

\* resume accepts a run that cancel has marked and not yet terminated, so where both
\* are used executors may share a candidate, and may outlive the session.
ResumeOrCancel == ~({"resume", "cancel"} \subseteq usage)

\* A run that may be published has its whole authority on disk: the candidate's
\* checkpoint and prepared-v2.json, both named by the record.  Whatever races and
\* crashes the commands and executors went through, where executors that outlive the
\* session do not meet its collection (resume, cancel and gc are not all used).
ReadyMeansPrepared ==
  (ResumeOrCancel \/ "gc" \notin usage) /\ rec.status \in ReadyStatuses =>
    rec.commit /\ rec.prepared /\ checkpoint /\ prepared

\* The candidate of a run never comes back to life in a session that was closed:
\* once a session is terminal no run of it is, or becomes, active
\* (open_admission and transition_session_terminal under one lock), where resume and
\* cancel are not both used.
ClosedMeansInactive ==
  ResumeOrCancel /\ session # "open" => rec.status \notin ActiveStatuses

\* At most one executor works on a run, whatever resume does while one is being
\* spawned: the save of Preparing is a compare-and-append on the ledger.  Again for the
\* uses without one of resume and cancel.
OneExecutor ==
  ResumeOrCancel => \A d, e \in Executors : Working(d) /\ Working(e) => d = e

\* resume never asks the ledger for a change of status that it does not allow:
\* an interrupted run returns to Created, or to recovery.
ResumeIsLegal ==
  \A c \in Commands :
    pc[c] = "resume-save" /\ UpToDate(rec, mem[c]) => Legal(rec, mem[c])

\* The worktree that resume removes holds no commit of the candidate.
CommittedCandidateKept ==
  \A c \in Commands : pc[c] = "resume-remove" => worktree # "committed"
=============================================================================
