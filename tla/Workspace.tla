------------------------------ MODULE Workspace ------------------------------
(***************************************************************************)
(* A workspace of several repositories, `workspace prepare` and `workspace *)
(* publish` or `recover` (crates/clew/src/workspace.rs,                    *)
(* workspace_prepare.rs, workspace_publish.rs; prepare_workspace and       *)
(* publish_workspace in main.rs).                                          *)
(*                                                                         *)
(* Every member has a session, a task run and a target branch.  A prepare  *)
(* command starts the runs that are missing, watches all of them, one      *)
(* after the other, and seals AfterWorkspace when it has seen each of them *)
(* prepared.  A publish command seals the order of the members and then    *)
(* publishes one after the other, with an event in the publication ledger  *)
(* before and after each.  Single runs are seen from outside here: what an *)
(* executor does is in TaskRun, what publishing does is in RunPublication. *)
(***************************************************************************)
EXTENDS RunLedger

CONSTANTS
  Commands, None,
  N,              \* number of members
  Outcomes,       \* how a preparation may end
  OwnerMay,       \* what the owner does: see Owner
  MaxFaults       \* bound: deaths, failures and acts of the owner

ASSUME WorkspaceAssumption ==
  /\ None \notin Commands
  /\ N \in Nat \ {0}
  /\ Outcomes \subseteq {"ReadyToPublish", "ValidatedConditional", "Failed"}
  /\ OwnerMay \subseteq {"commit", "cancel", "resume", "close"}
  /\ MaxFaults \in Nat

VARIABLES
  open,         \* workspace, mission and thread are open
  closed,       \* members whose session is closed
  run,          \* status of the run of each member, or "absent"
  executor,     \* members whose run has a live executor
  candidate,    \* members whose run has committed a candidate
  branch,       \* target branch of each member: "base", "candidate" or "owner"
  admitted,     \* authority.json of the preparation exists
  after,        \* after-workspace.json exists
  pc, at,       \* step of each command, and the member it is at
  whole,        \* every member this command has looked at was prepared
  copy,         \* commands whose copy of the run of their member is up to date
  authority,    \* authority.json of the publication exists
  file,         \* ledger.jsonl: "none", "partial", "whole" or "invalid"
  event,        \* the last event in it
  lock,         \* holder of the lock of the publication
  head,         \* commands whose projection is of the last event
  call, result, \* "publish" or "recover", and how it went, of each command
  moved,        \* history: members whose branch a command moved
  faults        \* history: deaths, failures and acts of the owner so far

repositories == <<open, closed, branch>>
runs == <<run, executor, candidate, copy>>
preparation == <<admitted, after>>
ledger == <<authority, file, event, lock, head>>
publication == <<ledger, call, result, moved>>
rest == <<repositories, executor, candidate, preparation, whole>>
vars == <<repositories, runs, preparation, pc, at, whole, publication, faults>>

Members == 1..N

Goto(c, l) == pc' = [pc EXCEPT ![c] = l]
GotoAt(c, l, m) == Goto(c, l) /\ at' = [at EXCEPT ![c] = m]
Fault == faults < MaxFaults /\ faults' = faults + 1

\* Any append to a run ledger outdates the copies others hold.
SaveRun(m, status) ==
  /\ run' = [run EXCEPT ![m] = status]
  /\ copy' = {c \in copy : at[c] # m}

\* load_open_authority: the workspace is open, every session is open and fresh.
Fresh == open /\ closed = {} /\ \A m \in Members : branch[m] = "base"

\* Mutant: a preparation that failed is waited for.
PendingOrFailed == {"Created", "Failed"}

\* run_phase; a run that was created, or is being prepared, is on its way.
Pending == {"Created"}
Prepared == ReadyStatuses \cup {"ValidatedConditional"}

\* The first event of a publication ledger.
Origin == [status |-> "PreparedAll", completed |-> 0, active |-> 0]

Init ==
  /\ open = TRUE /\ closed = {}
  /\ run = [m \in Members |-> "absent"] /\ executor = {} /\ candidate = {}
  /\ branch = [m \in Members |-> "base"]
  /\ admitted = FALSE /\ after = FALSE
  /\ pc = [c \in Commands |-> "idle"] /\ at = [c \in Commands |-> 1]
  /\ whole = [c \in Commands |-> TRUE] /\ copy = {}
  /\ authority = FALSE /\ file = "none" /\ event = Origin
  /\ lock = None /\ head = {}
  /\ call = [c \in Commands |-> "publish"] /\ result = [c \in Commands |-> "ok"]
  /\ moved = {} /\ faults = 0

-----------------------------------------------------------------------------
(* workspace prepare.                                                      *)

\* resolve, of a workspace that can be prepared; what cannot is refused, and what
\* has been is answered from after-workspace.json.
Prepare(c) ==
  /\ pc[c] = "idle" /\ Fresh /\ ~after
  /\ Goto(c, "admit")
  /\ UNCHANGED <<repositories, runs, preparation, at, whole, publication, faults>>

\* persist_prepare_authority, and retained_after.
Admit(c) ==
  /\ pc[c] = "admit"
  /\ admitted' = TRUE
  /\ Goto(c, IF after THEN "idle" ELSE "start")
  /\ UNCHANGED <<repositories, runs, after, at, whole, publication, faults>>

\* The next member, or the first look at all of them.
StartNext(c) == IF at[c] < N THEN GotoAt(c, "start", at[c] + 1) ELSE GotoAt(c, "observe", 1)

\* start_task_run: a run that exists is attached to.
Attach(c) ==
  /\ pc[c] = "start" /\ at[c] \notin closed /\ run[at[c]] # "absent"
  /\ StartNext(c)
  /\ UNCHANGED <<repositories, runs, preparation, whole, publication, faults>>

\* create_once
StartRun(c) ==
  /\ pc[c] = "start" /\ at[c] \notin closed /\ run[at[c]] = "absent"
  /\ SaveRun(at[c], "Created")
  /\ Goto(c, "spawn")
  /\ UNCHANGED <<repositories, executor, candidate, preparation, at, whole, publication, faults>>

SessionClosed(c) ==
  /\ pc[c] = "start" /\ at[c] \in closed
  /\ GotoAt(c, "idle", 1)
  /\ UNCHANGED <<repositories, runs, preparation, whole, publication, faults>>

\* spawn_task_run
Spawn(c) ==
  /\ pc[c] = "spawn"
  /\ executor' = executor \cup {at[c]}
  /\ StartNext(c)
  /\ UNCHANGED <<repositories, run, candidate, copy, preparation, whole, publication, faults>>

\* Mutant: one prepared member is enough.
SawAny(c) == at[c] = N /\ run[at[c]] \in Prepared

\* Every member was seen prepared, in this round.
SawAll(c) == at[c] = N /\ whole[c] /\ run[at[c]] \in Prepared

\* observe_and_finalize, one member at a time: it gives up on a run that can no
\* longer get prepared, and starts again, after a while, if one is not there yet.
Observe(c) ==
  /\ pc[c] = "observe"
  /\ IF (at[c] = 1 /\ after) \/ run[at[c]] \notin Pending \cup Prepared
       THEN GotoAt(c, "idle", 1) /\ whole' = [whole EXCEPT ![c] = TRUE]
     ELSE IF SawAll(c)
       THEN GotoAt(c, "finalize", 1) /\ whole' = [whole EXCEPT ![c] = TRUE]
     ELSE IF at[c] = N
       THEN GotoAt(c, "observe", 1) /\ whole' = [whole EXCEPT ![c] = TRUE]
     ELSE /\ GotoAt(c, "observe", at[c] + 1)
          /\ whole' = [whole EXCEPT ![c] = @ /\ run[at[c]] \in Prepared]
  /\ UNCHANGED <<repositories, runs, preparation, publication, faults>>

\* persist_after_workspace, unless the workspace is no longer as it was.
Finalize(c) ==
  /\ pc[c] = "finalize"
  /\ after' = (after \/ Fresh)
  /\ Goto(c, "idle")
  /\ UNCHANGED <<repositories, runs, admitted, at, whole, publication, faults>>

PrepareStep(c) ==
  \/ Admit(c) \/ Attach(c) \/ StartRun(c) \/ SessionClosed(c) \/ Spawn(c)
  \/ Observe(c) \/ Finalize(c)

-----------------------------------------------------------------------------
(* The runs, from outside.                                                 *)

\* An executor reports how the preparation ended.
Report(m) ==
  /\ m \in executor /\ run[m] = "Created"
  /\ \E outcome \in Outcomes :
       /\ SaveRun(m, outcome)
       /\ candidate' = IF outcome = "Failed" THEN candidate ELSE candidate \cup {m}
  /\ executor' = executor \ {m}
  /\ UNCHANGED <<repositories, preparation, pc, at, whole, publication, faults>>

ExecutorDies(m) ==
  /\ m \in executor
  /\ Fault
  /\ executor' = executor \ {m}
  /\ UNCHANGED <<repositories, run, candidate, copy, preparation, pc, at, whole, publication>>

-----------------------------------------------------------------------------
(* The owner of the repositories.                                          *)

\* cancel_task_run
Cancel(m) ==
  /\ "cancel" \in OwnerMay /\ run[m] \in CancellableStatuses
  /\ Fault
  /\ SaveRun(m, "Cancelled")
  /\ executor' = executor \ {m}
  /\ UNCHANGED <<repositories, candidate, preparation, pc, at, whole, publication>>

\* resume_task_run: a run with a candidate awaits recovery, another starts anew.
Resume(m) ==
  /\ "resume" \in OwnerMay /\ m \notin closed
  /\ \/ run[m] \in {"Failed", "Cancelled", "WorktreeRecoveryRequired"}
     \/ run[m] = "Created" /\ m \notin executor
  /\ Fault
  /\ IF m \in candidate
       THEN SaveRun(m, "WorktreeRecoveryRequired") /\ UNCHANGED executor
       ELSE SaveRun(m, "Created") /\ executor' = executor \cup {m}
  /\ UNCHANGED <<repositories, candidate, preparation, pc, at, whole, publication>>

\* Session close; a session with an active run stays open.
CloseSession(m) ==
  /\ "close" \in OwnerMay /\ m \notin closed /\ run[m] \notin ActiveStatuses
  /\ Fault
  /\ closed' = closed \cup {m}
  /\ UNCHANGED <<open, branch, runs, preparation, pc, at, whole, publication>>

\* workspace close
CloseWorkspace ==
  /\ "close" \in OwnerMay /\ open
  /\ Fault
  /\ open' = FALSE
  /\ UNCHANGED <<closed, branch, runs, preparation, pc, at, whole, publication>>

OwnerCommit(m) ==
  /\ "commit" \in OwnerMay /\ branch[m] # "owner"
  /\ Fault
  /\ branch' = [branch EXCEPT ![m] = "owner"]
  /\ UNCHANGED <<open, closed, runs, preparation, pc, at, whole, publication>>

World ==
  \/ CloseWorkspace
  \/ \E m \in Members :
       Report(m) \/ ExecutorDies(m) \/ Cancel(m) \/ Resume(m) \/ CloseSession(m) \/ OwnerCommit(m)

-----------------------------------------------------------------------------
(* workspace publish: admission.                                           *)

End(c) ==
  /\ GotoAt(c, "idle", 1)
  /\ call' = [call EXCEPT ![c] = "publish"] /\ result' = [result EXCEPT ![c] = "ok"]
  /\ copy' = copy \ {c}
  /\ lock' = IF lock = c THEN None ELSE lock

Leave(c) == End(c) /\ head' = head \ {c}

\* resolve, for the first time: AfterWorkspace is complete, each member can be
\* published, and what was prepared is still fresh.
Resolve(c) ==
  /\ pc[c] = "idle" /\ lock = None
  /\ after /\ \A m \in Members : run[m] # "ValidatedConditional"
  /\ ~authority /\ Fresh
  /\ lock' = c /\ Goto(c, "seal")
  /\ UNCHANGED <<rest, run, copy, at, authority, file, event, head, call, result, moved, faults>>

\* persist_authority
Seal(c) ==
  /\ pc[c] = "seal"
  /\ authority' = TRUE /\ Goto(c, "origin")
  /\ UNCHANGED <<rest, run, copy, at, file, event, lock, head, call, result, moved, faults>>

\* append_event: a line gets into the file bit by bit.
WriteOrigin(c) ==
  /\ pc[c] = "origin"
  /\ file' = "partial" /\ Goto(c, "origin-written")
  /\ UNCHANGED <<rest, run, copy, at, authority, event, lock, head, call, result, moved, faults>>

OriginWritten(c) ==
  /\ pc[c] = "origin-written"
  /\ file' = "whole" /\ lock' = None /\ Goto(c, "turn")
  /\ UNCHANGED <<rest, run, copy, at, authority, event, head, call, result, moved, faults>>

\* resolve of a publication that exists, or load; one that is complete is reported.
Continue(c) ==
  /\ pc[c] = "idle"
  /\ authority /\ file = "whole" /\ event.status # "PublishedAll"
  /\ Goto(c, "turn")
  /\ UNCHANGED <<rest, run, copy, at, publication, faults>>

-----------------------------------------------------------------------------
(* The publication ledger: transition.                                     *)

\* The ledger is in order and still ends where the projection was taken.
CanAppend(c) == file = "whole" /\ c \in head /\ event.status # "PublishedAll"

\* Mutant: the lock file is opened and never locked; two commands read the ledger
\* before either has written.
WriteUnlocked(c, from, to) ==
  /\ pc[c] = from /\ CanAppend(c)
  /\ lock' = c /\ file' = "whole" /\ Goto(c, to)
  /\ UNCHANGED <<rest, run, copy, at, authority, event, head, call, result, moved, faults>>

\* append_event, as far as it gets: the line is not complete.
Write(c, from, to) ==
  /\ pc[c] = from /\ lock = None /\ CanAppend(c)
  /\ lock' = c /\ file' = "partial" /\ Goto(c, to)
  /\ UNCHANGED <<rest, run, copy, at, authority, event, head, call, result, moved, faults>>

Conflict(c) ==
  /\ pc[c] \in {"begin", "record", "fail"} /\ lock = None /\ ~CanAppend(c)
  /\ Leave(c)
  /\ UNCHANGED <<rest, run, authority, file, event, moved, faults>>

\* The line is complete.  Every other projection is outdated.
Written(c, e) == file' = "whole" /\ event' = e /\ head' = {c} /\ lock' = None

\* The clock stepped back and the event is older than the one before it:
\* validate_transition refuses the chain from now on.
ClockSteppedBack(c) ==
  /\ pc[c] \in {"begin-written", "record-written", "fail-written"}
  /\ Fault
  /\ file' = "invalid" /\ Leave(c)
  /\ UNCHANGED <<rest, run, authority, event, moved>>

-----------------------------------------------------------------------------
(* workspace publish: one turn of the loop.                                *)

\* load, without the lock.
Turn(c) ==
  /\ pc[c] = "turn" /\ file = "whole"
  /\ head' = head \cup {c}
  /\ IF event.status = "Publishing"
       THEN GotoAt(c, "choose", event.active)
       ELSE Goto(c, "begin") /\ UNCHANGED at
  /\ UNCHANGED <<rest, run, copy, authority, file, event, lock, call, result, moved, faults>>

LoadFails(c) ==
  /\ pc[c] = "turn" /\ file # "whole"
  /\ Leave(c)
  /\ UNCHANGED <<rest, run, authority, file, event, moved, faults>>

BeginNext(c) == Write(c, "begin", "begin-written")

Begun(c) ==
  /\ pc[c] = "begin-written"
  /\ LET next == event.completed + 1
     IN  /\ Written(c, [event EXCEPT !.status = "Publishing", !.active = next])
         /\ GotoAt(c, "choose", next)
  /\ UNCHANGED <<rest, run, copy, authority, call, result, moved, faults>>

\* Mutant: every run is published, as if it had never been tried.
ChooseToPublish(c) ==
  /\ pc[c] = "choose"
  /\ Goto(c, "call")
  /\ UNCHANGED <<rest, run, copy, at, publication, faults>>

\* A run that was left in the middle is recovered.
Choose(c) ==
  /\ pc[c] = "choose"
  /\ LET left == run[at[c]] \in {"Publishing", "WorktreeRecoveryRequired"}
     IN  call' = [call EXCEPT ![c] = IF left THEN "recover" ELSE "publish"]
  /\ Goto(c, "call")
  /\ UNCHANGED <<rest, run, copy, at, ledger, result, moved, faults>>

\* publish_task_run, or recover_task_run, of a run that is published already.
AlreadyPublished(c) ==
  /\ pc[c] = "call" /\ at[c] \notin closed /\ run[at[c]] \in PublishedStatuses
  /\ Goto(c, "reload")
  /\ UNCHANGED <<rest, run, copy, at, publication, faults>>

PublishRun(c) ==
  /\ pc[c] = "call" /\ call[c] = "publish"
  /\ at[c] \notin closed /\ run[at[c]] \in ReadyStatuses
  /\ run' = [run EXCEPT ![at[c]] = "Publishing"]
  /\ copy' = {d \in copy : at[d] # at[c]} \cup {c}
  /\ Goto(c, "move")
  /\ UNCHANGED <<rest, at, publication, faults>>

RecoverRun(c) ==
  /\ pc[c] = "call" /\ call[c] = "recover"
  /\ at[c] \notin closed /\ run[at[c]] \in {"Publishing", "WorktreeRecoveryRequired"}
  /\ copy' = copy \cup {c}
  /\ Goto(c, "move")
  /\ UNCHANGED <<rest, run, at, publication, faults>>

Accepted(c) ==
  /\ at[c] \notin closed
  /\ run[at[c]] \in PublishedStatuses \cup
       IF call[c] = "publish" THEN ReadyStatuses
       ELSE {"Publishing", "WorktreeRecoveryRequired"}

Refused(c) ==
  /\ pc[c] = "call" /\ ~Accepted(c)
  /\ Goto(c, "fail")
  /\ UNCHANGED <<rest, run, copy, at, publication, faults>>

\* task_run_v2::publish or recover, which RunPublication has in detail.  It moves
\* the branch, or finds it moved, and may fail before and after.
MoveBranch(c) ==
  /\ pc[c] = "move"
  /\ \/ /\ branch[at[c]] # "owner"
        /\ branch' = [branch EXCEPT ![at[c]] = "candidate"]
        /\ moved' = moved \cup {at[c]}
        /\ result' = [result EXCEPT ![c] = "ok"] /\ UNCHANGED faults
     \/ /\ branch[at[c]] # "owner"
        /\ Fault
        /\ branch' = [branch EXCEPT ![at[c]] = "candidate"]
        /\ moved' = moved \cup {at[c]}
        /\ \E e \in {"recovery", "other"} : result' = [result EXCEPT ![c] = e]
     \/ /\ IF branch[at[c]] = "owner" THEN UNCHANGED faults ELSE Fault
        /\ \E e \in {"recovery", "other"} : result' = [result EXCEPT ![c] = e]
        /\ UNCHANGED <<branch, moved>>
  /\ Goto(c, "save")
  /\ UNCHANGED <<open, closed, runs, preparation, at, whole, ledger, call>>

\* What the command records of the publication.
Result(c) ==
  CASE result[c] = "ok" -> "Published"
    [] result[c] = "other" /\ call[c] = "publish" -> "ReadyToPublish"
    [] OTHER -> "WorktreeRecoveryRequired"

SaveResult(c) ==
  /\ pc[c] = "save" /\ c \in copy
  /\ SaveRun(at[c], Result(c))
  /\ Goto(c, IF result[c] = "ok" THEN "reload" ELSE "fail")
  /\ UNCHANGED <<rest, at, publication, faults>>

\* Mutant: a result that could not be saved passes for one that was.
SaveConflictIgnored(c) ==
  /\ pc[c] = "save" /\ c \notin copy
  /\ Goto(c, IF result[c] = "ok" THEN "reload" ELSE "fail")
  /\ UNCHANGED <<rest, run, copy, at, publication, faults>>

\* Somebody else wrote to the run ledger meanwhile.
SaveConflict(c) ==
  /\ pc[c] = "save" /\ c \notin copy
  /\ Goto(c, "fail")
  /\ UNCHANGED <<rest, run, copy, at, publication, faults>>

Reload(c) ==
  /\ pc[c] = "reload"
  /\ Goto(c, IF run[at[c]] \in PublishedStatuses THEN "record" ELSE "turn")
  /\ UNCHANGED <<rest, run, copy, at, publication, faults>>

RecordPublished(c) == Write(c, "record", "record-written")

Recorded(c) ==
  /\ pc[c] = "record-written"
  /\ LET completed == event.completed + 1
         status == IF completed = N THEN "PublishedAll" ELSE "PartiallyPublished"
     IN  /\ Written(c, [status |-> status, completed |-> completed, active |-> 0])
         /\ Goto(c, IF completed = N THEN "idle" ELSE "turn")
  /\ at' = [at EXCEPT ![c] = 1] /\ copy' = copy \ {c}
  /\ call' = [call EXCEPT ![c] = "publish"] /\ result' = [result EXCEPT ![c] = "ok"]
  /\ UNCHANGED <<rest, run, authority, moved, faults>>

RecordFailure(c) == Write(c, "fail", "fail-written")

FailureRecorded(c) ==
  /\ pc[c] = "fail-written"
  /\ file' = "whole" /\ event' = [event EXCEPT !.status = "RecoveryRequired"]
  /\ End(c) /\ head' = {}
  /\ UNCHANGED <<rest, run, authority, moved, faults>>

PublishStep(c) ==
  \/ Seal(c) \/ WriteOrigin(c) \/ OriginWritten(c)
  \/ Turn(c) \/ LoadFails(c) \/ BeginNext(c) \/ Begun(c) \/ Conflict(c)
  \/ Choose(c) \/ AlreadyPublished(c) \/ PublishRun(c) \/ RecoverRun(c) \/ Refused(c)
  \/ MoveBranch(c) \/ SaveResult(c) \/ SaveConflict(c) \/ Reload(c)
  \/ RecordPublished(c) \/ Recorded(c) \/ RecordFailure(c) \/ FailureRecorded(c)

\* A command dies; what it had written so far stays.
Crash(c) ==
  /\ pc[c] # "idle"
  /\ Fault
  /\ Leave(c)
  /\ UNCHANGED <<repositories, executor, candidate, preparation, run, authority, file, event, moved>>
  /\ whole' = [whole EXCEPT ![c] = TRUE]

Next ==
  \/ \E c \in Commands :
       \/ Prepare(c) \/ PrepareStep(c) \/ Resolve(c) \/ Continue(c) \/ PublishStep(c)
       \/ ClockSteppedBack(c) \/ Crash(c)
  \/ World

Spec == Init /\ [][Next]_vars

\* Commands and executors go on; a failed or interrupted publication is called again.
FairSpec ==
  /\ Spec
  /\ \A c \in Commands :
       WF_vars(PrepareStep(c)) /\ WF_vars(PublishStep(c)) /\ WF_vars(Continue(c))
  /\ \A m \in Members : WF_vars(Report(m))

-----------------------------------------------------------------------------
(* Properties.                                                             *)

Steps ==
  {"idle", "admit", "start", "spawn", "observe", "finalize", "seal", "origin", "origin-written",
   "turn", "begin", "begin-written", "choose", "call", "move", "save", "reload", "record",
   "record-written", "fail", "fail-written"}
PublicationStatuses ==
  {"PreparedAll", "Publishing", "PartiallyPublished", "RecoveryRequired", "PublishedAll"}

\* Type correctness; the last event never counts more members than there are
\* (PublicationState::validate).
TypeOK ==
  /\ open \in BOOLEAN /\ closed \subseteq Members
  /\ run \in [Members -> Statuses \cup {"absent"}]
  /\ executor \subseteq Members /\ candidate \subseteq Members
  /\ branch \in [Members -> {"base", "candidate", "owner"}]
  /\ admitted \in BOOLEAN /\ after \in BOOLEAN
  /\ pc \in [Commands -> Steps] /\ at \in [Commands -> Members]
  /\ whole \in [Commands -> BOOLEAN] /\ copy \subseteq Commands
  /\ authority \in BOOLEAN /\ file \in {"none", "partial", "whole", "invalid"}
  /\ event \in [status : PublicationStatuses, completed : 0..N, active : 0..N]
  /\ lock \in Commands \cup {None} /\ head \subseteq Commands
  /\ call \in [Commands -> {"publish", "recover"}]
  /\ result \in [Commands -> {"ok", "recovery", "other"}]
  /\ moved \subseteq Members /\ faults \in 0..MaxFaults

\* AfterWorkspace says PREPARED_ALL: each member's run has committed its candidate,
\* although the runs are looked at one by one and may be cancelled, fail or start
\* anew in between (observe_and_finalize).
AfterMeansPrepared == after => candidate = Members

\* The publication is ordered, and never ahead of the branches: it implements
\* OrderedPublication.
Saga == INSTANCE OrderedPublication WITH sealed <- authority, done <- event.completed
ImplementsSaga == Saga!Spec

\* A turn of the loop in publish_workspace that does not end the command has completed
\* a member, so its limit of 16 turns is never met.
EveryTurnCompletes ==
  [][\A c \in Commands :
       pc[c] \notin {"idle", "origin-written", "turn"} /\ pc'[c] = "turn"
         => event'.completed = event.completed + 1]_vars

\* The ledger cannot be read, and nobody is writing to it.
Damaged == authority /\ file # "whole" /\ lock = None
\* The owner did something that makes a member impossible to publish.
Disturbed ==
  \E m \in Members : branch[m] = "owner" \/ m \in closed \/ run[m] = "Cancelled"

\* A sealed publication that is called again and again reaches PUBLISHED_ALL, whatever
\* failed or died on the way, if its ledger survives and the owner keeps still
\* (ROLL_FORWARD_ONLY).
RollsForward == authority ~> event.status = "PublishedAll" \/ Damaged \/ Disturbed

\* A run that was created and has no executor: nothing but a resume gets it going.
Orphaned == \E m \in Members : run[m] = "Created" /\ m \notin executor

\* A prepare command ends, unless it watches a run that nobody executes
\* (prepare_workspace).
PrepareEnds ==
  \A c \in Commands : pc[c] = "observe" ~> pc[c] # "observe" \/ Orphaned
=============================================================================
