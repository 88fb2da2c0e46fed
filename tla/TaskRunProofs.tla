----------------------------- MODULE TaskRunProofs ---------------------------
(* Theorems about TaskRun, for any number of commands and executors. *)
EXTENDS TaskRun, TLAPS

-----------------------------------------------------------------------------
(* What holds besides the properties themselves.                           *)

\* What a command may return.
Results == {"none", "ok", "declined", "gone", "illegal", "conflict"}

\* The steps of a command after its admission or its load.
ResumeSteps == {"resume-check", "resume-discard", "resume-remove", "resume-created", "resume-save"}
CancelSteps == {"cancel-check", "cancel-save", "cancel-kill", "cancel-reload", "cancel-settle"}
GcSteps == {"gc-check", "gc-worktree", "gc-files", "gc-append"}
OpenSteps == ResumeSteps \cup {"start-reference", "start-genesis", "close-check"}

\* A process goes through the steps of the commands that are used, and holds the
\* lifecycle lock with the session as it was admitted to.
Placed ==
  /\ \A c \in Commands :
       /\ pc[c] \in Labels
       /\ pc[c] \in ResumeSteps \cup {"resume", "resume-admit"} => "resume" \in usage
       /\ pc[c] \in CancelSteps \cup {"cancel"} => "cancel" \in usage
       /\ pc[c] \in GcSteps \cup {"gc"} => "gc" \in usage
       /\ pc[c] \in OpenSteps => lock = c /\ session = "open"
       /\ pc[c] \in GcSteps => lock = c /\ session = "closed"
       /\ pc[c] = "start-genesis" => reference
  /\ \A e \in Executors : pc[e] \in ExecutorLabels
  /\ rec.status # "absent" => reference
  /\ rec.status = "absent" <=> rec.seq = 0

\* A process that a record names has been started.
Born ==
  /\ rec.pid # None => pc[rec.pid] # "unborn"
  /\ \A p \in Procs : mem[p].pid # None => pc[mem[p].pid] # "unborn"

\* The ledger still ends where the copy was taken.
Same(p) == mem[p].seq = rec.seq

\* What a process holds of the record, and what it knows if the ledger still ends
\* where its copy was taken.
CopyOK(p) ==
  /\ mem[p].seq <= rec.seq
  /\ pc[p] \in {"cancel-check", "recover-check", "resume-admit", "resume-check", "resume-discard",
                "resume-remove", "resume-created"} /\ Same(p) => mem[p] = rec
  /\ pc[p] \in {"resume-discard", "resume-remove", "resume-created"}
       /\ mem[p].status = "Preparing" => ~Alive(mem[p].pid)
  /\ pc[p] = "resume-save" =>
       /\ mem[p].status \in {"Created", "WorktreeRecoveryRequired"}
       /\ Same(p) /\ rec.status = "Preparing" => ~Alive(rec.pid)
  /\ pc[p] \in {"cancel-save", "cancel-settle"} => mem[p].status = "Cancelled"
  /\ pc[p] \in {"recover-write", "recover-save"} /\ Same(p) =>
       rec.status = "WorktreeRecoveryRequired"
  /\ pc[p] = "recover-write" => mem[p].status = "WorktreeRecoveryRequired"
  /\ pc[p] = "recover-save" =>
       /\ mem[p].status \in Outcomes \cup {"WorktreeRecoveryRequired"}
       /\ mem[p].status \in ReadyStatuses => mem[p].commit /\ mem[p].prepared
  /\ pc[p] = "exec-begin" =>
       /\ mem[p].status = "Preparing" /\ mem[p].pid = p
       /\ Same(p) => rec.status = "Created"
  /\ pc[p] = "exec-save" =>
       /\ mem[p].status \in Outcomes \cup {"Cancelled"} /\ mem[p].commit /\ mem[p].prepared
  /\ pc[p] = "exec-report" =>
       /\ mem[p].status \in {"Cancelled", "Failed", "WorktreeRecoveryRequired"}
       /\ Same(p) /\ rec.status = "Cancelled" => mem[p].status = "Cancelled"

\* The run of an executor that works is being prepared, by this executor, or has been
\* cancelled.
Claimed ==
  \A e \in Executors : Working(e) =>
    /\ rec.status \in {"Preparing", "Cancelled"}
    /\ "cancel" \notin usage => rec.status = "Preparing" /\ rec.pid = e

\* The files of the candidate are not collected.
Kept == session = "open" \/ "gc" \notin usage

\* Who is about to record a verdict has written the files.
Written ==
  Kept => /\ \A e \in Executors :
               /\ pc[e] \in {"exec-finish", "exec-write", "exec-reload", "exec-save"} => checkpoint
               /\ pc[e] \in {"exec-reload", "exec-save"} => prepared
          /\ \A c \in Commands :
               /\ pc[c] = "recover-write" => checkpoint
               /\ pc[c] = "recover-save" /\ mem[c].status \in ReadyStatuses =>
                    checkpoint /\ prepared

\* The inductive invariant.
Inv ==
  /\ TypeOK /\ Placed /\ Born
  /\ \A p \in Procs : CopyOK(p)
  /\ ResumeOrCancel => Claimed
  /\ Written
  /\ ReadyMeansPrepared /\ ClosedMeansInactive /\ OneExecutor

\* A command that returns without having changed anything.
Declined(c) ==
  /\ Goto(c, "idle") /\ Remember(c, NoRecord) /\ Unlock(c)
  /\ \E r \in Results : result' = [result EXCEPT ![c] = r]
  /\ UNCHANGED <<usage, session, reference, rec, files>>

\* What a command does, with the refusals taken together.
Acts(c) ==
  \/ Declined(c)
  \/ (\E call \in usage : Call(c, call)) \/ Admit(c, "start", "start-reference", "open")
  \/ StartReference(c) \/ StartGenesis(c) \/ Load(c, "resume", "resume-admit")
  \/ Admit(c, "resume-admit", "resume-check", "open") \/ ResumeCommitted(c)
  \/ ResumeUncommitted(c) \/ DiscardCheck(c) \/ Discard(c) \/ ResumeCreated(c)
  \/ ResumeSave(c) \/ Load(c, "cancel", "cancel-check") \/ CancelRequest(c) \/ CancelSave(c)
  \/ CancelKill(c) \/ CancelReload(c) \/ CancelSettle(c) \/ RecoverOpen(c)
  \/ Load(c, "recover-load", "recover-check") \/ RecoverFinish(c) \/ RecoverWrite(c)
  \/ RecoverSave(c) \/ Admit(c, "close", "close-check", "open") \/ CloseAppend(c)
  \/ Admit(c, "gc", "gc-check", "closed") \/ GcCheck(c) \/ GcWorktree(c) \/ GcFiles(c)
  \/ GcAppend(c) \/ Spawn(c)

\* A process that no other has taken a step of, but to start or to kill it.
Left(q) ==
  /\ mem'[q] = mem[q]
  /\ \/ pc'[q] = pc[q]
     \/ pc[q] = "unborn" /\ pc'[q] = "spawned"
     \/ pc[q] # "unborn" /\ pc'[q] = "dead"


-----------------------------------------------------------------------------
(* Types, labels and locks.                                                *)

\* Whatever a command declines for, it declines alike (the early returns).
LEMMA DeclinedCases ==
  ASSUME NEW c \in Commands,
         \/ NotAdmitted(c, "start", "open") \/ StartAgain(c)
         \/ NotAdmitted(c, "resume-admit", "open") \/ ResumeNothing(c)
         \/ SaveFails(c, "resume-save") \/ CancelNothing(c) \/ SaveFails(c, "cancel-save")
         \/ CancelTooLate(c) \/ SaveFails(c, "cancel-settle") \/ RecoverNothing(c)
         \/ SaveFails(c, "recover-save") \/ NotAdmitted(c, "close", "open") \/ SessionBusy(c)
         \/ NotAdmitted(c, "gc", "closed") \/ GcDeclines(c) \/ LoadFails(c)
  PROVE  Declined(c)
  BY DEF Declined, Results, CancelNothing, CancelTooLate, GcDeclines, Goto, LoadFails,
       NotAdmitted, RecoverNothing, Refusal, Remember, ResumeNothing, Return, SaveFails,
       SessionBusy, StartAgain, Unlock, files

\* The steps there are.
LEMMA StepCases ==
  ASSUME [Next]_vars
  PROVE  \/ \E c \in Commands : Acts(c)
         \/ \E e \in Executors : Execute(e)
         \/ \E p \in Procs : Crash(p)
         \/ UNCHANGED vars
<1>1. ASSUME NEW c \in Commands, Command(c) PROVE Acts(c)
  BY <1>1, DeclinedCases DEF Command, Acts, Start, Resume, Cancel, Recover, Close, Gc
<1> QED
  BY <1>1 DEF Next

\* append_run_entry moves the sequence number and nothing else.
LEMMA AppendedRecord ==
  ASSUME NEW r \in Records
  PROVE  /\ Appended(r) \in Records
         /\ Appended(r).seq = r.seq + 1 /\ Appended(r).status = r.status
         /\ Appended(r).commit = r.commit /\ Appended(r).prepared = r.prepared
         /\ Appended(r).pid = r.pid
  BY DEF Records, Appended

\* The commands there are.
LEMMA CallTypes ==
  ASSUME TypeOK
  PROVE  usage \subseteq {"start", "resume", "cancel", "recover", "close", "gc"}
  BY TaskRunAssumption DEF TypeOK

\* No record, and the record that create_once begins with.
LEMMA FirstRecords ==
  /\ NoRecord \in Records /\ NoRecord.seq = 0 /\ NoRecord.status = "absent" /\ NoRecord.pid = None
  /\ Genesis \in Records /\ Genesis.seq = 1 /\ Genesis.status = "Created" /\ Genesis.pid = None
  BY Zenon DEF Records, NoRecord, Genesis, Statuses

\* resume_task_run with a committed candidate: the copy asks for recovery.
LEMMA ResumeCommittedCopy ==
  ASSUME TypeOK, NEW c \in Commands, ResumeCommitted(c)
  PROVE  /\ mem'[c] \in Records
         /\ mem'[c].seq = mem[c].seq
         /\ mem'[c].status = "WorktreeRecoveryRequired"
         /\ mem'[c].pid = mem[c].pid
         /\ \A q \in Procs : q # c => mem'[q] = mem[q]
<1>1. c \in Procs /\ mem \in [Procs -> Records] /\ rec \in Records /\ mem[c] \in Records
  BY DEF Procs, TypeOK
<1>2. \A q \in Procs : q # c => mem'[q] = mem[q]
  BY <1>1 DEF ResumeCommitted, Remember
<1>3. mem'[c] = [mem[c] EXCEPT !.commit = TRUE, !.status = "WorktreeRecoveryRequired"]
  BY <1>1 DEF ResumeCommitted, Remember
<1> QED
  BY <1>1, <1>2, <1>3, Zenon DEF Records, Statuses

\* resume_task_run without: the copy is Created and has no process.
LEMMA ResumeCreatedCopy ==
  ASSUME TypeOK, NEW c \in Commands, ResumeCreated(c)
  PROVE  /\ mem'[c] \in Records
         /\ mem'[c].seq = mem[c].seq
         /\ mem'[c].status = "Created"
         /\ mem'[c].pid = None
         /\ \A q \in Procs : q # c => mem'[q] = mem[q]
<1>1. c \in Procs /\ mem \in [Procs -> Records] /\ rec \in Records /\ mem[c] \in Records
  BY DEF Procs, TypeOK
<1>2. \A q \in Procs : q # c => mem'[q] = mem[q]
  BY <1>1 DEF ResumeCreated, Remember
<1>3. mem'[c] = [mem[c] EXCEPT !.status = "Created", !.pid = None]
  BY <1>1 DEF ResumeCreated, Remember
<1> QED
  BY <1>1, <1>2, <1>3, Zenon DEF Records, Statuses

\* cancel_task_run marks its copy and keeps the process to terminate.
LEMMA CancelRequestCopy ==
  ASSUME TypeOK, NEW c \in Commands, CancelRequest(c)
  PROVE  /\ mem'[c] \in Records
         /\ mem'[c].seq = mem[c].seq
         /\ mem'[c].status = "Cancelled"
         /\ mem'[c].pid = mem[c].pid
         /\ \A q \in Procs : q # c => mem'[q] = mem[q]
<1>1. c \in Procs /\ mem \in [Procs -> Records] /\ rec \in Records /\ mem[c] \in Records
  BY DEF Procs, TypeOK
<1>2. \A q \in Procs : q # c => mem'[q] = mem[q]
  BY <1>1 DEF CancelRequest, Remember
<1>3. mem'[c] = [mem[c] EXCEPT !.status = "Cancelled"]
  BY <1>1 DEF CancelRequest, Remember
<1> QED
  BY <1>1, <1>2, <1>3 DEF Records, Statuses

\* cancel_task_run, the second time: the present record, without a process.
LEMMA CancelReloadCopy ==
  ASSUME TypeOK, NEW c \in Commands, CancelReload(c)
  PROVE  /\ mem'[c] \in Records
         /\ mem'[c].seq = rec.seq
         /\ mem'[c].status = "Cancelled"
         /\ mem'[c].pid = None
         /\ \A q \in Procs : q # c => mem'[q] = mem[q]
<1>1. c \in Procs /\ mem \in [Procs -> Records] /\ rec \in Records /\ mem[c] \in Records
  BY DEF Procs, TypeOK
<1>2. \A q \in Procs : q # c => mem'[q] = mem[q]
  BY <1>1 DEF CancelReload, Remember
<1>3. mem'[c] = [rec EXCEPT !.status = "Cancelled", !.pid = None]
  BY <1>1 DEF CancelReload, Remember
<1> QED
  BY <1>1, <1>2, <1>3, Zenon DEF Records, Statuses

\* recover_preparation puts the verdict and the authority in its copy.
LEMMA RecoverWriteCopy ==
  ASSUME TypeOK, NEW c \in Commands, RecoverWrite(c)
  PROVE  /\ mem'[c] \in Records
         /\ mem'[c].seq = mem[c].seq
         /\ mem'[c].status \in Outcomes
         /\ mem'[c].commit = TRUE
         /\ mem'[c].prepared = TRUE
         /\ mem'[c].pid = mem[c].pid
         /\ \A q \in Procs : q # c => mem'[q] = mem[q]
<1>1. c \in Procs /\ mem \in [Procs -> Records] /\ rec \in Records /\ mem[c] \in Records
  BY DEF Procs, TypeOK
<1>2. \A q \in Procs : q # c => mem'[q] = mem[q]
  BY <1>1 DEF RecoverWrite, Remember
<1>3. PICK outcome \in Outcomes :
        mem' = [mem EXCEPT ![c] = [mem[c] EXCEPT !.commit = TRUE, !.prepared = TRUE,
                                                 !.status = outcome]]
  BY Zenon DEF RecoverWrite, Remember
<1>4. outcome \in Statuses
  BY TaskRunAssumption DEF Statuses, ReadyStatuses
<1>5. mem'[c] = [mem[c] EXCEPT !.commit = TRUE, !.prepared = TRUE, !.status = outcome]
  BY <1>1, <1>3
<1>6. /\ mem'[c] \in Records
      /\ mem'[c].seq = mem[c].seq
      /\ mem'[c].status \in Outcomes
      /\ mem'[c].commit = TRUE
      /\ mem'[c].prepared = TRUE
      /\ mem'[c].pid = mem[c].pid
  BY <1>1, <1>3, <1>4, <1>5, Zenon DEF Records
<1> QED
  BY <1>2, <1>6

\* prepare_task_run adds verdict and authority to the present record.
LEMMA ExecReloadCopy ==
  ASSUME TypeOK, NEW e \in Executors, ExecReload(e)
  PROVE  /\ mem'[e] \in Records
         /\ mem'[e].seq = rec.seq
         /\ mem'[e].status \in Outcomes \cup {"Cancelled"}
         /\ mem'[e].commit = TRUE
         /\ mem'[e].prepared = TRUE
         /\ mem'[e].pid = None
         /\ \A q \in Procs : q # e => mem'[q] = mem[q]
<1>1. e \in Procs /\ mem \in [Procs -> Records] /\ rec \in Records /\ mem[e] \in Records
  BY DEF Procs, TypeOK
<1>2. \A q \in Procs : q # e => mem'[q] = mem[q]
  BY <1>1 DEF ExecReload, Remember
<1>3. PICK status \in Outcomes \cup {"Cancelled"} :
        mem' = [mem EXCEPT ![e] = [rec EXCEPT !.commit = TRUE, !.prepared = TRUE, !.pid = None,
                                              !.status = status]]
  BY <1>1, Zenon DEF ExecReload, Remember, Records
<1>4. status \in Statuses
  BY TaskRunAssumption DEF Statuses, ReadyStatuses
<1>5. mem'[e] = [rec EXCEPT !.commit = TRUE, !.prepared = TRUE, !.pid = None, !.status = status]
  BY <1>1, <1>3
<1>6. /\ mem'[e] \in Records
      /\ mem'[e].seq = rec.seq
      /\ mem'[e].status \in Outcomes \cup {"Cancelled"}
      /\ mem'[e].commit = TRUE
      /\ mem'[e].prepared = TRUE
      /\ mem'[e].pid = None
  BY <1>1, <1>3, <1>4, <1>5, Zenon DEF Records
<1> QED
  BY <1>2, <1>6

\* execute_task_run records a failure, but leaves a cancelled run cancelled.
LEMMA ExecErrorCopy ==
  ASSUME TypeOK, NEW e \in Executors, ExecError(e)
  PROVE  /\ mem'[e] \in Records
         /\ mem'[e].seq = rec.seq
         /\ mem'[e].status \in {"Cancelled", "Failed", "WorktreeRecoveryRequired"}
         /\ mem'[e].pid = None
         /\ rec.status = "Cancelled" => mem'[e].status = "Cancelled"
         /\ \A q \in Procs : q # e => mem'[q] = mem[q]
<1>1. e \in Procs /\ mem \in [Procs -> Records] /\ rec \in Records /\ mem[e] \in Records
  BY DEF Procs, TypeOK
<1>2. \A q \in Procs : q # e => mem'[q] = mem[q]
  BY <1>1 DEF ExecError, Remember
<1>3. CASE rec.status = "Cancelled"
  <2>1. mem'[e] = [rec EXCEPT !.pid = None]
    BY <1>1, <1>3 DEF ExecError, Remember
  <2> QED
    BY <1>1, <1>2, <1>3, <2>1 DEF Records
<1>4. CASE rec.status # "Cancelled"
  <2>1. PICK b \in BOOLEAN, s \in {"Failed", "WorktreeRecoveryRequired"} :
          mem'[e] = [rec EXCEPT !.pid = None, !.commit = b, !.status = s]
    <3>1. mem'[e] = [rec EXCEPT !.pid = None, !.commit = rec.commit \/ checkpoint,
                       !.status = IF checkpoint THEN "WorktreeRecoveryRequired" ELSE "Failed"]
      BY <1>1, <1>4 DEF ExecError, Remember, Records
    <3> QED
      BY <3>1, Zenon
  <2> QED
    BY <1>1, <1>2, <1>4, <2>1, Zenon DEF Records, Statuses
<1> QED
  BY <1>3, <1>4

\* Every step keeps the types and the discipline of the lifecycle lock.
LEMMA TypeStep ==
  ASSUME Inv, [Next]_vars
  PROVE  TypeOK'
<1> USE TaskRunAssumption, FirstRecords
<1>a. TypeOK
  BY DEF Inv
<1> USE <1>a DEF TypeOK, Procs, Labels, ExecutorLabels
<1>1. ASSUME NEW c \in Commands, Declined(c) PROVE TypeOK'
  BY <1>1 DEF Declined, Goto, Remember, Unlock, files, Results
<1>2. ASSUME NEW c \in Commands, \E call \in usage : Call(c, call) PROVE TypeOK'
  BY <1>2 DEF Call, Goto, files
<1>3. ASSUME NEW c \in Commands, Admit(c, "start", "start-reference", "open") PROVE TypeOK'
  BY <1>3 DEF Admit, Goto, files
<1>4. ASSUME NEW c \in Commands, StartReference(c) PROVE TypeOK'
  BY <1>4 DEF StartReference, Goto, files
<1>5. ASSUME NEW c \in Commands, StartGenesis(c) PROVE TypeOK'
  BY <1>5 DEF StartGenesis, Unlock, Goto, files
<1>6. ASSUME NEW c \in Commands, Load(c, "resume", "resume-admit") PROVE TypeOK'
  BY <1>6 DEF Load, Remember, Goto, files
<1>7. ASSUME NEW c \in Commands, Admit(c, "resume-admit", "resume-check", "open") PROVE TypeOK'
  BY <1>7 DEF Admit, Goto, files
<1>8. ASSUME NEW c \in Commands, ResumeCommitted(c) PROVE TypeOK'
  <2>1. mem' \in [Procs -> Records]
    <3>1. mem'[c] \in Records /\ \A q \in Procs : q # c => mem'[q] = mem[q]
      BY <1>8, ResumeCommittedCopy
    <3>2. mem' = [mem EXCEPT ![c] = mem'[c]]
      BY <1>8 DEF ResumeCommitted, Remember
    <3> QED
      BY <3>1, <3>2
  <2> QED
    BY <1>8, <2>1 DEF ResumeCommitted, Goto, files
<1>9. ASSUME NEW c \in Commands, ResumeUncommitted(c) PROVE TypeOK'
  BY <1>9 DEF ResumeUncommitted, Goto, files
<1>10. ASSUME NEW c \in Commands, DiscardCheck(c) PROVE TypeOK'
  BY <1>10 DEF DiscardCheck, Return, Goto, Remember, Unlock, files
<1>11. ASSUME NEW c \in Commands, Discard(c) PROVE TypeOK'
  BY <1>11 DEF Discard, Goto
<1>12. ASSUME NEW c \in Commands, ResumeCreated(c) PROVE TypeOK'
  <2>1. mem' \in [Procs -> Records]
    <3>1. mem'[c] \in Records /\ \A q \in Procs : q # c => mem'[q] = mem[q]
      BY <1>12, ResumeCreatedCopy
    <3>2. mem' = [mem EXCEPT ![c] = mem'[c]]
      BY <1>12 DEF ResumeCreated, Remember
    <3> QED
      BY <3>1, <3>2
  <2> QED
    BY <1>12, <2>1 DEF ResumeCreated, Goto, files
<1>13. ASSUME NEW c \in Commands, ResumeSave(c) PROVE TypeOK'
  <2>1. rec' \in Records
    BY <1>13, AppendedRecord DEF ResumeSave, Save
  <2> QED
    BY <1>13, <2>1 DEF ResumeSave, Goto, Return, Remember, Unlock, files
<1>14. ASSUME NEW c \in Commands, Load(c, "cancel", "cancel-check") PROVE TypeOK'
  BY <1>14 DEF Load, Remember, Goto, files
<1>15. ASSUME NEW c \in Commands, CancelRequest(c) PROVE TypeOK'
  <2>1. mem' \in [Procs -> Records]
    <3>1. mem'[c] \in Records /\ \A q \in Procs : q # c => mem'[q] = mem[q]
      BY <1>15, CancelRequestCopy
    <3>2. mem' = [mem EXCEPT ![c] = mem'[c]]
      BY <1>15 DEF CancelRequest, Remember
    <3> QED
      BY <3>1, <3>2
  <2> QED
    BY <1>15, <2>1 DEF CancelRequest, Goto, files
<1>16. ASSUME NEW c \in Commands, CancelSave(c) PROVE TypeOK'
  <2>1. rec' \in Records
    BY <1>16, AppendedRecord DEF CancelSave, Save
  <2> QED
    BY <1>16, <2>1 DEF CancelSave, Goto, files
<1>17. ASSUME NEW c \in Commands, CancelKill(c) PROVE TypeOK'
  BY <1>17, Zenon DEF CancelKill, files
<1>18. ASSUME NEW c \in Commands, CancelReload(c) PROVE TypeOK'
  <2>1. mem' \in [Procs -> Records]
    <3>1. mem'[c] \in Records /\ \A q \in Procs : q # c => mem'[q] = mem[q]
      BY <1>18, CancelReloadCopy
    <3>2. mem' = [mem EXCEPT ![c] = mem'[c]]
      BY <1>18 DEF CancelReload, Remember
    <3> QED
      BY <3>1, <3>2
  <2> QED
    BY <1>18, <2>1 DEF CancelReload, Goto, files
<1>19. ASSUME NEW c \in Commands, CancelSettle(c) PROVE TypeOK'
  <2>1. rec' \in Records
    BY <1>19, AppendedRecord DEF CancelSettle, Save
  <2> QED
    BY <1>19, <2>1 DEF CancelSettle, Return, Goto, Remember, Unlock, files
<1>20. ASSUME NEW c \in Commands, RecoverOpen(c) PROVE TypeOK'
  BY <1>20 DEF RecoverOpen, Goto, Return, Remember, Unlock, files
<1>21. ASSUME NEW c \in Commands, Load(c, "recover-load", "recover-check") PROVE TypeOK'
  BY <1>21 DEF Load, Remember, Goto, files
<1>22. ASSUME NEW c \in Commands, RecoverFinish(c) PROVE TypeOK'
  <2>1. checkpoint' \in BOOLEAN
    BY <1>22, Zenon DEF RecoverFinish
  <2> QED
    BY <1>22, <2>1 DEF RecoverFinish, Goto
<1>23. ASSUME NEW c \in Commands, RecoverWrite(c) PROVE TypeOK'
  <2>1. mem' \in [Procs -> Records]
    <3>1. mem'[c] \in Records /\ \A q \in Procs : q # c => mem'[q] = mem[q]
      BY <1>23, RecoverWriteCopy, Zenon
    <3>2. mem' = [mem EXCEPT ![c] = mem'[c]]
      BY <1>23 DEF RecoverWrite, Remember
    <3> QED
      BY <3>1, <3>2
  <2> QED
    BY <1>23, <2>1 DEF RecoverWrite, Goto
<1>24. ASSUME NEW c \in Commands, RecoverSave(c) PROVE TypeOK'
  <2>1. rec' \in Records
    BY <1>24, AppendedRecord DEF RecoverSave, Save
  <2> QED
    BY <1>24, <2>1 DEF RecoverSave, Return, Goto, Remember, Unlock, files
<1>25. ASSUME NEW c \in Commands, Admit(c, "close", "close-check", "open") PROVE TypeOK'
  BY <1>25 DEF Admit, Goto, files
<1>26. ASSUME NEW c \in Commands, CloseAppend(c) PROVE TypeOK'
  BY <1>26 DEF CloseAppend, Return, Goto, Remember, Unlock, files
<1>27. ASSUME NEW c \in Commands, Admit(c, "gc", "gc-check", "closed") PROVE TypeOK'
  BY <1>27 DEF Admit, Goto, files
<1>28. ASSUME NEW c \in Commands, GcCheck(c) PROVE TypeOK'
  BY <1>28 DEF GcCheck, Goto, files
<1>29. ASSUME NEW c \in Commands, GcWorktree(c) PROVE TypeOK'
  BY <1>29 DEF GcWorktree, Goto, files
<1>30. ASSUME NEW c \in Commands, GcFiles(c) PROVE TypeOK'
  BY <1>30, Zenon DEF GcFiles, files, Goto
<1>31. ASSUME NEW c \in Commands, GcAppend(c) PROVE TypeOK'
  BY <1>31 DEF GcAppend, Return, Goto, Remember, Unlock, files
<1>32. ASSUME NEW c \in Commands, Spawn(c) PROVE TypeOK'
  BY <1>32 DEF Spawn, Remember, Unlock, files
<1>33. ASSUME NEW e \in Executors, ExecLoad(e) PROVE TypeOK'
  <2>1. mem' \in [Procs -> Records]
    <3>1. [rec EXCEPT !.status = "Preparing", !.pid = e] \in Records
      BY Zenon DEF Records, Statuses
    <3> QED
      BY <1>33, <3>1 DEF ExecLoad, Remember
  <2> QED
    BY <1>33, <2>1 DEF ExecLoad, Goto, files
<1>34. ASSUME NEW e \in Executors, ExecBegin(e) PROVE TypeOK'
  <2>1. rec' \in Records
    BY <1>34, AppendedRecord DEF ExecBegin, Save
  <2> QED
    BY <1>34, <2>1 DEF ExecBegin, Goto, Remember, files
<1>35. ASSUME NEW e \in Executors, ExecAdd(e) PROVE TypeOK'
  BY <1>35 DEF ExecAdd, Prepare, Goto
<1>36. ASSUME NEW e \in Executors, ExecCommit(e) PROVE TypeOK'
  BY <1>36 DEF ExecCommit, Prepare, Goto
<1>37. ASSUME NEW e \in Executors, ExecCheckpoint(e) PROVE TypeOK'
  BY <1>37 DEF ExecCheckpoint, Goto
<1>38. ASSUME NEW e \in Executors, ExecFinish(e) PROVE TypeOK'
  BY <1>38 DEF ExecFinish, Prepare, Goto, files
<1>39. ASSUME NEW e \in Executors, ExecWrite(e) PROVE TypeOK'
  BY <1>39 DEF ExecWrite, Goto
<1>40. ASSUME NEW e \in Executors, ExecReload(e) PROVE TypeOK'
  <2>1. mem' \in [Procs -> Records]
    <3>1. mem'[e] \in Records /\ \A q \in Procs : q # e => mem'[q] = mem[q]
      BY <1>40, ExecReloadCopy, Zenon
    <3>2. mem' = [mem EXCEPT ![e] = mem'[e]]
      BY <1>40 DEF ExecReload, Remember
    <3> QED
      BY <3>1, <3>2
  <2> QED
    BY <1>40, <2>1 DEF ExecReload, Goto, files
<1>41. ASSUME NEW e \in Executors, ExecSave(e) PROVE TypeOK'
  <2>1. rec' \in Records
    BY <1>41, AppendedRecord DEF ExecSave, Save
  <2> QED
    BY <1>41, <2>1 DEF ExecSave, Goto, Remember, files
<1>42. ASSUME NEW e \in Executors, ExecFails(e) PROVE TypeOK'
  BY <1>42 DEF ExecFails, Goto, files
<1>43. ASSUME NEW e \in Executors, ExecError(e) PROVE TypeOK'
  <2>1. mem' \in [Procs -> Records]
    <3>1. mem'[e] \in Records /\ \A q \in Procs : q # e => mem'[q] = mem[q]
      BY <1>43, ExecErrorCopy
    <3>2. mem' = [mem EXCEPT ![e] = mem'[e]]
      BY <1>43 DEF ExecError, Remember
    <3> QED
      BY <3>1, <3>2
  <2> QED
    BY <1>43, <2>1 DEF ExecError, Goto, files
<1>44. ASSUME NEW e \in Executors, ExecReport(e) PROVE TypeOK'
  <2>1. rec' \in Records
    BY <1>44, AppendedRecord DEF ExecReport, Save
  <2> QED
    BY <1>44, <2>1 DEF ExecReport, Goto, Remember, files
<1>45. ASSUME NEW p \in Procs, Crash(p) PROVE TypeOK'
  BY <1>45 DEF Crash, Goto, Remember, Unlock, files
<1>46. CASE UNCHANGED vars
  BY <1>46 DEF vars, files
<1> QED
  BY StepCases, <1>1, <1>2, <1>3, <1>4, <1>5, <1>6, <1>7, <1>8, <1>9, <1>10, <1>11,
     <1>12,
       <1>13, <1>14, <1>15, <1>16, <1>17, <1>18, <1>19, <1>20, <1>21, <1>22, <1>23,
       <1>24,
       <1>25, <1>26, <1>27, <1>28, <1>29, <1>30, <1>31, <1>32, <1>33, <1>34, <1>35,
       <1>36,
       <1>37, <1>38, <1>39, <1>40, <1>41, <1>42, <1>43, <1>44, <1>45, <1>46, Zenon DEF
       Acts, Execute

\* What a save leaves at the end of the ledger (save_run_transition).
LEMMA SavedRecord ==
  ASSUME TypeOK, NEW p \in Procs, Save(p)
  PROVE  /\ rec' \in Records /\ rec'.seq = rec.seq + 1 /\ rec'.seq # 0
         /\ rec'.status = mem[p].status /\ rec'.pid = mem[p].pid
         /\ rec'.commit = mem[p].commit /\ rec'.prepared = mem[p].prepared
         /\ Same(p) /\ mem[p].status \in Successors(rec.status) \cup {rec.status}
<1>1. mem[p] \in Records /\ rec \in Records
  BY DEF TypeOK
<1>2. /\ rec' = Appended(mem[p]) /\ Same(p)
      /\ mem[p].status \in Successors(rec.status) \cup {rec.status}
  BY DEF Save, CanSave, UpToDate, Legal, Same
<1>3. rec.seq \in Nat /\ mem[p].seq = rec.seq
  BY <1>1, <1>2 DEF Records, Same
<1> QED
  BY <1>1, <1>2, <1>3, AppendedRecord

\* What run_transition_allowed says about some of the targets.
LEMMA LegalChange ==
  ASSUME NEW s \in Statuses \cup {"absent"}, NEW t \in Successors(s) \cup {s}
  PROVE  /\ t # "absent" => s # "absent"
         /\ t = "Created" => s \in {"Created", "Failed", "Cancelled"}
         /\ t = "Preparing" => s \in {"Created", "Preparing"}
         /\ t \in ReadyStatuses => s \in ActiveStatuses
         /\ t = "WorktreeRecoveryRequired" => s \in ActiveStatuses \cup {"Failed", "Cancelled"}
  BY DEF Successors, Statuses, ReadyStatuses, PublishedStatuses, ActiveStatuses

\* Only a run that exists is saved.
LEMMA SaveCases ==
  ASSUME Inv, NEW p \in Procs, Save(p),
         pc[p] \in {"resume-save", "cancel-save", "cancel-settle", "recover-save",
                    "exec-begin", "exec-save", "exec-report"}
  PROVE  /\ rec.status # "absent" /\ rec'.status # "absent" /\ rec'.seq # 0
         /\ rec.status \in Statuses
<1>1. mem[p].status \in Statuses
  BY TaskRunAssumption, Zenon DEF Inv, CopyOK, Statuses, ReadyStatuses
<1>2. rec.status \in Statuses \cup {"absent"}
  BY DEF Inv, TypeOK, Records
<1>3. "absent" \notin Statuses
  BY DEF Statuses
<1> QED
  BY <1>1, <1>2, <1>3, SavedRecord, LegalChange DEF Inv

\* Every step keeps processes on the path of their command, and the session as they
\* were admitted to it.
LEMMA PlacedStep ==
  ASSUME Inv, [Next]_vars
  PROVE  Placed'
<1> USE TaskRunAssumption, FirstRecords
<1>a. TypeOK /\ Placed
  BY DEF Inv
<1>b. /\ Commands \subseteq Procs /\ Executors \subseteq Procs /\ Commands \cap Executors = {}
      /\ pc \in [Procs -> Labels \cup ExecutorLabels]
  BY <1>a DEF Procs, TypeOK
<1> USE <1>a, <1>b DEF Placed, ResumeSteps, CancelSteps, GcSteps, OpenSteps, Labels, ExecutorLabels
<1>1. ASSUME NEW c \in Commands, Declined(c) PROVE Placed'
  BY <1>1 DEF Declined, Goto, Remember, Unlock, files
<1>2. ASSUME NEW c \in Commands, \E call \in usage : Call(c, call) PROVE Placed'
  <2>1. PICK call \in usage : Call(c, call)
    BY <1>2
  <2>2. call \in {"start", "resume", "cancel", "recover", "close", "gc"}
    BY DEF TypeOK
  <2> QED
    BY <2>1, <2>2 DEF Call, Goto, files
<1>3. ASSUME NEW c \in Commands, Admit(c, "start", "start-reference", "open") PROVE Placed'
  BY <1>3 DEF Admit, Goto, files
<1>4. ASSUME NEW c \in Commands, StartReference(c) PROVE Placed'
  BY <1>4 DEF StartReference, Goto, files
<1>5. ASSUME NEW c \in Commands, StartGenesis(c) PROVE Placed'
  BY <1>5 DEF StartGenesis, Unlock, Goto, files
<1>6. ASSUME NEW c \in Commands, Load(c, "resume", "resume-admit") PROVE Placed'
  BY <1>6 DEF Load, Remember, Goto, files
<1>7. ASSUME NEW c \in Commands, Admit(c, "resume-admit", "resume-check", "open") PROVE Placed'
  BY <1>7 DEF Admit, Goto, files
<1>8. ASSUME NEW c \in Commands, ResumeCommitted(c) PROVE Placed'
  BY <1>8 DEF ResumeCommitted, Remember, Goto, files
<1>9. ASSUME NEW c \in Commands, ResumeUncommitted(c) PROVE Placed'
  BY <1>9 DEF ResumeUncommitted, Goto, files
<1>10. ASSUME NEW c \in Commands, DiscardCheck(c) PROVE Placed'
  BY <1>10 DEF DiscardCheck, Return, Goto, Remember, Unlock, files
<1>11. ASSUME NEW c \in Commands, Discard(c) PROVE Placed'
  BY <1>11 DEF Discard, Goto
<1>12. ASSUME NEW c \in Commands, ResumeCreated(c) PROVE Placed'
  BY <1>12 DEF ResumeCreated, Remember, Goto, files
<1>13. ASSUME NEW c \in Commands, ResumeSave(c) PROVE Placed'
  <2>1. rec.status # "absent" /\ rec'.status # "absent" /\ rec'.seq # 0
    BY <1>13, SaveCases DEF ResumeSave
  <2> QED
    BY <1>13, <2>1 DEF ResumeSave, Goto, Return, Remember, Unlock, files
<1>14. ASSUME NEW c \in Commands, Load(c, "cancel", "cancel-check") PROVE Placed'
  BY <1>14 DEF Load, Remember, Goto, files
<1>15. ASSUME NEW c \in Commands, CancelRequest(c) PROVE Placed'
  BY <1>15 DEF CancelRequest, Remember, Goto, files
<1>16. ASSUME NEW c \in Commands, CancelSave(c) PROVE Placed'
  <2>1. rec.status # "absent" /\ rec'.status # "absent" /\ rec'.seq # 0
    BY <1>16, SaveCases DEF CancelSave
  <2> QED
    BY <1>16, <2>1 DEF CancelSave, Goto, files
<1>17. ASSUME NEW c \in Commands, CancelKill(c) PROVE Placed'
  <2>1. mem[c].pid \in Executors /\ mem[c].pid # c
    BY <1>17 DEF CancelKill, Alive
  <2> QED
    BY <1>17, <2>1 DEF CancelKill, files
<1>18. ASSUME NEW c \in Commands, CancelReload(c) PROVE Placed'
  BY <1>18 DEF CancelReload, Remember, Goto, files
<1>19. ASSUME NEW c \in Commands, CancelSettle(c) PROVE Placed'
  <2>1. rec.status # "absent" /\ rec'.status # "absent" /\ rec'.seq # 0
    BY <1>19, SaveCases DEF CancelSettle
  <2> QED
    BY <1>19, <2>1 DEF CancelSettle, Return, Goto, Remember, Unlock, files
<1>20. ASSUME NEW c \in Commands, RecoverOpen(c) PROVE Placed'
  BY <1>20 DEF RecoverOpen, Goto, Return, Remember, Unlock, files
<1>21. ASSUME NEW c \in Commands, Load(c, "recover-load", "recover-check") PROVE Placed'
  BY <1>21 DEF Load, Remember, Goto, files
<1>22. ASSUME NEW c \in Commands, RecoverFinish(c) PROVE Placed'
  BY <1>22 DEF RecoverFinish, Goto
<1>23. ASSUME NEW c \in Commands, RecoverWrite(c) PROVE Placed'
  BY <1>23 DEF RecoverWrite, Remember, Goto
<1>24. ASSUME NEW c \in Commands, RecoverSave(c) PROVE Placed'
  <2>1. rec.status # "absent" /\ rec'.status # "absent" /\ rec'.seq # 0
    BY <1>24, SaveCases DEF RecoverSave
  <2> QED
    BY <1>24, <2>1 DEF RecoverSave, Return, Goto, Remember, Unlock, files
<1>25. ASSUME NEW c \in Commands, Admit(c, "close", "close-check", "open") PROVE Placed'
  BY <1>25 DEF Admit, Goto, files
<1>26. ASSUME NEW c \in Commands, CloseAppend(c) PROVE Placed'
  BY <1>26 DEF CloseAppend, Return, Goto, Remember, Unlock, files
<1>27. ASSUME NEW c \in Commands, Admit(c, "gc", "gc-check", "closed") PROVE Placed'
  BY <1>27 DEF Admit, Goto, files
<1>28. ASSUME NEW c \in Commands, GcCheck(c) PROVE Placed'
  BY <1>28 DEF GcCheck, Goto, files
<1>29. ASSUME NEW c \in Commands, GcWorktree(c) PROVE Placed'
  BY <1>29 DEF GcWorktree, Goto, files
<1>30. ASSUME NEW c \in Commands, GcFiles(c) PROVE Placed'
  BY <1>30 DEF GcFiles, files, Goto
<1>31. ASSUME NEW c \in Commands, GcAppend(c) PROVE Placed'
  BY <1>31 DEF GcAppend, Return, Goto, Remember, Unlock, files
<1>32. ASSUME NEW c \in Commands, Spawn(c) PROVE Placed'
  BY <1>32 DEF Spawn, Remember, Unlock, files
<1>33. ASSUME NEW e \in Executors, ExecLoad(e) PROVE Placed'
  BY <1>33 DEF ExecLoad, Remember, Goto, files
<1>34. ASSUME NEW e \in Executors, ExecBegin(e) PROVE Placed'
  <2>1. \/ rec' = rec
        \/ rec.status # "absent" /\ rec'.status # "absent" /\ rec'.seq # 0
    BY <1>34, SaveCases DEF ExecBegin
  <2> QED
    BY <1>34, <2>1 DEF ExecBegin, Goto, Remember, files
<1>35. ASSUME NEW e \in Executors, ExecAdd(e) PROVE Placed'
  BY <1>35 DEF ExecAdd, Prepare, Goto
<1>36. ASSUME NEW e \in Executors, ExecCommit(e) PROVE Placed'
  BY <1>36 DEF ExecCommit, Prepare, Goto
<1>37. ASSUME NEW e \in Executors, ExecCheckpoint(e) PROVE Placed'
  BY <1>37 DEF ExecCheckpoint, Goto
<1>38. ASSUME NEW e \in Executors, ExecFinish(e) PROVE Placed'
  BY <1>38 DEF ExecFinish, Prepare, Goto, files
<1>39. ASSUME NEW e \in Executors, ExecWrite(e) PROVE Placed'
  BY <1>39 DEF ExecWrite, Goto
<1>40. ASSUME NEW e \in Executors, ExecReload(e) PROVE Placed'
  BY <1>40 DEF ExecReload, Remember, Goto, files
<1>41. ASSUME NEW e \in Executors, ExecSave(e) PROVE Placed'
  <2>1. \/ rec' = rec
        \/ rec.status # "absent" /\ rec'.status # "absent" /\ rec'.seq # 0
    BY <1>41, SaveCases DEF ExecSave
  <2> QED
    BY <1>41, <2>1 DEF ExecSave, Goto, Remember, files
<1>42. ASSUME NEW e \in Executors, ExecFails(e) PROVE Placed'
  BY <1>42 DEF ExecFails, Goto, files
<1>43. ASSUME NEW e \in Executors, ExecError(e) PROVE Placed'
  BY <1>43 DEF ExecError, Remember, Goto, files
<1>44. ASSUME NEW e \in Executors, ExecReport(e) PROVE Placed'
  <2>1. \/ rec' = rec
        \/ rec.status # "absent" /\ rec'.status # "absent" /\ rec'.seq # 0
    BY <1>44, SaveCases DEF ExecReport
  <2> QED
    BY <1>44, <2>1 DEF ExecReport, Goto, Remember, files
<1>45. ASSUME NEW p \in Procs, Crash(p) PROVE Placed'
  BY <1>45 DEF Crash, Goto, Remember, Unlock, files
<1>46. CASE UNCHANGED vars
  BY <1>46 DEF vars, files
<1> QED
  BY StepCases, <1>1, <1>2, <1>3, <1>4, <1>5, <1>6, <1>7, <1>8, <1>9, <1>10, <1>11,
     <1>12,
       <1>13, <1>14, <1>15, <1>16, <1>17, <1>18, <1>19, <1>20, <1>21, <1>22, <1>23,
       <1>24,
       <1>25, <1>26, <1>27, <1>28, <1>29, <1>30, <1>31, <1>32, <1>33, <1>34, <1>35,
       <1>36,
       <1>37, <1>38, <1>39, <1>40, <1>41, <1>42, <1>43, <1>44, <1>45, <1>46, Zenon DEF
       Acts, Execute

\* The steps that append to the ledger.
LEMMA LedgerFrame ==
  ASSUME [Next]_vars
  PROVE  \/ rec' = rec
         \/ \E c \in Commands : \/ StartGenesis(c) \/ ResumeSave(c) \/ CancelSave(c)
                                \/ CancelSettle(c) \/ RecoverSave(c)
         \/ \E e \in Executors : ExecBegin(e) \/ ExecSave(e) \/ ExecReport(e)
<1>1. ASSUME NEW c \in Commands, Acts(c)
      PROVE  \/ rec' = rec
             \/ StartGenesis(c) \/ ResumeSave(c)
             \/ CancelSave(c) \/ CancelSettle(c) \/ RecoverSave(c)
  BY <1>1, Zenon DEF Acts, Admit, Call, CancelKill, CancelReload, CancelRequest,
     CloseAppend, Declined,
       Discard, DiscardCheck, GcAppend, GcCheck, GcFiles, GcWorktree, Load,
       RecoverFinish,
       RecoverOpen, RecoverWrite, ResumeCommitted, ResumeCreated, ResumeUncommitted,
       Spawn,
       StartReference, files
<1>2. ASSUME NEW e \in Executors, Execute(e)
      PROVE  rec' = rec \/ ExecBegin(e) \/ ExecSave(e) \/ ExecReport(e)
  BY <1>2, Zenon DEF Execute, ExecAdd, ExecCheckpoint, ExecCommit, ExecError, ExecFails,
     ExecFinish,
       ExecLoad, ExecReload, ExecWrite, Prepare, files
<1>3. ASSUME NEW p \in Procs, Crash(p) PROVE rec' = rec
  BY <1>3 DEF Crash, files
<1>4. CASE UNCHANGED vars
  BY <1>4, Zenon DEF vars, files
<1> QED
  BY StepCases, <1>1, <1>2, <1>3, <1>4 DEF vars

\* The ledger only grows, by one record at a time.
LEMMA LedgerStep ==
  ASSUME Inv, [Next]_vars
  PROVE  rec' = rec \/ rec'.seq = rec.seq + 1
<1>1. ASSUME NEW c \in Commands, StartGenesis(c) PROVE rec'.seq = rec.seq + 1
  BY <1>1, FirstRecords DEF StartGenesis
<1>2. ASSUME NEW p \in Procs, Save(p) PROVE rec'.seq = rec.seq + 1
  BY <1>2, SavedRecord DEF Inv
<1> QED
  BY <1>1, <1>2, LedgerFrame
     DEF Procs, ResumeSave, CancelSave, CancelSettle, RecoverSave, ExecBegin, ExecSave,
         ExecReport

\* Commands and executors are different processes.
LEMMA Apart ==
  ASSUME Inv
  PROVE  /\ Commands \subseteq Procs /\ Executors \subseteq Procs /\ Commands \cap Executors = {}
         /\ pc \in [Procs -> Labels \cup ExecutorLabels] /\ mem \in [Procs -> Records]
  BY TaskRunAssumption DEF Procs, TypeOK, Inv

\* A command changes no other process, but to spawn or to terminate an executor.
LEMMA CommandLeaves ==
  ASSUME Inv, NEW c \in Commands, Acts(c)
  PROVE  \A q \in Procs : q # c => Left(q)
<1> USE Apart
<1>1. CASE Spawn(c)
  BY <1>1 DEF Spawn, Left, Remember
<1>2. CASE CancelKill(c)
  BY <1>2 DEF CancelKill, Left, Alive
<1>3. CASE ~Spawn(c) /\ ~CancelKill(c)
  <2>1. \A q \in Procs : q # c => mem'[q] = mem[q]
    BY <1>3, Zenon DEF Acts, Admit, Call, CancelReload, CancelRequest, CancelSave,
       CancelSettle,
         CloseAppend, Declined, Discard, DiscardCheck, GcAppend, GcCheck, GcFiles,
         GcWorktree,
         Load, RecoverFinish, RecoverOpen, RecoverSave, RecoverWrite, Remember,
         ResumeCommitted,
         ResumeCreated, ResumeSave, ResumeUncommitted, Return, StartGenesis,
         StartReference
  <2>2. \A q \in Procs : q # c => pc'[q] = pc[q]
    BY <1>3, Zenon DEF Acts, Admit, Call, CancelReload, CancelRequest, CancelSave,
       CancelSettle,
         CloseAppend, Declined, Discard, DiscardCheck, GcAppend, GcCheck, GcFiles,
         GcWorktree,
         Goto, Load, RecoverFinish, RecoverOpen, RecoverSave, RecoverWrite,
         ResumeCommitted,
         ResumeCreated, ResumeSave, ResumeUncommitted, Return, StartGenesis,
         StartReference
  <2> QED
    BY <2>1, <2>2 DEF Left
<1> QED
  BY <1>1, <1>2, <1>3

\* An executor changes no other process.
LEMMA ExecutorLeaves ==
  ASSUME Inv, NEW e \in Executors, Execute(e)
  PROVE  \A q \in Procs : q # e => Left(q)
  BY Apart, Zenon DEF Execute, Left, ExecAdd, ExecBegin, ExecCheckpoint, ExecCommit,
     ExecError,
       ExecFails, ExecFinish, ExecLoad, ExecReload, ExecReport, ExecSave, ExecWrite,
       Goto,
       Prepare, Remember

\* A process dies alone.
LEMMA CrashLeaves ==
  ASSUME Inv, NEW p \in Procs, Crash(p)
  PROVE  \A q \in Procs : q # p => Left(q)
  BY Apart DEF Crash, Left, Goto, Remember

\* Dead executors stay dead, started ones are not started again (process_is_active).
LEMMA Aging ==
  ASSUME Inv, [Next]_vars
  PROVE  /\ usage' = usage
         /\ \A e \in Executors : /\ pc[e] = "dead" => pc'[e] = "dead"
                                 /\ pc[e] # "unborn" => pc'[e] # "unborn"
<1> DEFINE Ages == \A e \in Executors : /\ pc[e] = "dead" => pc'[e] = "dead"
                                        /\ pc[e] # "unborn" => pc'[e] # "unborn"
<1>1. ASSUME NEW c \in Commands, Acts(c) PROVE Ages
  BY <1>1, Apart, CommandLeaves DEF Left
<1>2. ASSUME NEW d \in Executors, Execute(d) PROVE Ages
  <2>1. pc[d] # "dead" /\ pc'[d] # "unborn"
    BY <1>2, Apart, Zenon DEF Execute, ExecAdd, ExecBegin, ExecCheckpoint, ExecCommit,
       ExecError,
         ExecFails, ExecFinish, ExecLoad, ExecReload, ExecReport, ExecSave, ExecWrite,
         Goto,
         Prepare
  <2> QED
    BY <1>2, <2>1, Apart, ExecutorLeaves DEF Left
<1>3. ASSUME NEW p \in Procs, Crash(p) PROVE Ages
  <2>1. pc[p] # "dead" /\ pc'[p] # "unborn"
    BY <1>3, Apart DEF Crash, Goto
  <2> QED
    BY <1>3, <2>1, Apart, CrashLeaves DEF Left
<1>4. CASE UNCHANGED vars
  BY <1>4 DEF vars
<1>5. ASSUME NEW c \in Commands, Acts(c)
      PROVE  usage' = usage
  BY <1>5, Zenon DEF Acts, Admit, Call, CancelKill, CancelReload, CancelRequest,
     CancelSave,
       CancelSettle, CloseAppend, Declined, Discard, DiscardCheck, GcAppend, GcCheck,
       GcFiles,
       GcWorktree, Load, RecoverFinish, RecoverOpen, RecoverSave, RecoverWrite,
       ResumeCommitted,
       ResumeCreated, ResumeSave, ResumeUncommitted, Spawn, StartGenesis,
       StartReference, files
<1>6. ASSUME NEW e \in Executors, Execute(e) PROVE usage' = usage
  BY <1>6, Zenon DEF Execute, ExecAdd, ExecBegin, ExecCheckpoint, ExecCommit, ExecError,
     ExecFails,
       ExecFinish, ExecLoad, ExecReload, ExecReport, ExecSave, ExecWrite, Prepare, files
<1>7. ASSUME NEW p \in Procs, Crash(p) PROVE usage' = usage
  BY <1>7 DEF Crash, files
<1>8. CASE UNCHANGED vars
  BY <1>8 DEF vars, files
<1> QED
  BY StepCases, <1>1, <1>2, <1>3, <1>4, <1>5, <1>6, <1>7, <1>8


\* What a process knows of the record survives the steps of others: either the ledger
\* has not moved, or its copy is out of date and the save will fail.
LEMMA OtherCopy ==
  ASSUME Inv, [Next]_vars, NEW q \in Procs, Left(q)
  PROVE  CopyOK(q)'
<1>1. CopyOK(q) /\ rec.seq \in Nat /\ mem[q].seq \in Nat
  BY DEF Inv, TypeOK, Records
<1>2. CASE pc'[q] \in {"spawned", "dead"}
  BY <1>1, <1>2, LedgerStep DEF CopyOK, Left
<1>3. CASE pc'[q] = pc[q] /\ rec'.seq = rec.seq + 1
  <2>1. ~Same(q)' /\ mem'[q].seq <= rec'.seq
    BY <1>1, <1>3 DEF CopyOK, Same, Left
  <2>2. ~Alive(mem[q].pid) => ~Alive(mem[q].pid)'
    BY Aging, TaskRunAssumption DEF Inv, Born, Alive, Left
  <2> QED
    BY <1>1, <1>3, <2>1, <2>2 DEF CopyOK, Left
<1>4. CASE pc'[q] = pc[q] /\ rec' = rec
  <2>1. /\ ~Alive(mem[q].pid) => ~Alive(mem[q].pid)'
        /\ ~Alive(rec.pid) => ~Alive(rec.pid)'
    BY <1>4, Aging, TaskRunAssumption DEF Inv, Born, Alive, Left
  <2> QED
    BY <1>1, <1>4, <2>1 DEF CopyOK, Same, Left
<1> QED
  BY <1>2, <1>3, <1>4, LedgerStep DEF Left

\* Every step keeps what the processes know of the record.
LEMMA CopyStep ==
  ASSUME Inv, [Next]_vars
  PROVE  \A q \in Procs : CopyOK(q)'
<1> USE TaskRunAssumption, FirstRecords
<1>a. /\ TypeOK /\ Placed /\ Born /\ \A q \in Procs : CopyOK(q)
      /\ rec \in Records /\ rec.seq \in Nat /\ \A q \in Procs : mem[q].seq \in Nat
  BY DEF Inv, TypeOK, Records
<1>b. /\ Commands \subseteq Procs /\ Executors \subseteq Procs /\ Commands \cap Executors = {}
      /\ pc \in [Procs -> Labels \cup ExecutorLabels] /\ mem \in [Procs -> Records]
  BY <1>a DEF Procs, TypeOK
<1> USE <1>a, <1>b
<1>1. ASSUME NEW c \in Commands, Declined(c) PROVE CopyOK(c)'
  BY <1>1, LedgerStep DEF Declined, Goto, Remember, files, CopyOK, Same
<1>2. ASSUME NEW c \in Commands, \E call \in usage : Call(c, call) PROVE CopyOK(c)'
  <2>1. PICK call \in {"start", "resume", "cancel", "recover", "close", "gc"} : Call(c, call)
    BY <1>2, CallTypes
  <2> QED
    BY <2>1, LedgerStep DEF Call, Goto, files, CopyOK, Same
<1>3. ASSUME NEW c \in Commands, Admit(c, "start", "start-reference", "open") PROVE CopyOK(c)'
  BY <1>3, LedgerStep DEF Admit, Goto, files, CopyOK, Same
<1>4. ASSUME NEW c \in Commands, StartReference(c) PROVE CopyOK(c)'
  BY <1>4, LedgerStep DEF StartReference, Goto, files, CopyOK, Same
<1>5. ASSUME NEW c \in Commands, StartGenesis(c) PROVE CopyOK(c)'
  BY <1>5, LedgerStep DEF StartGenesis, Goto, files, CopyOK, Same
<1>6. ASSUME NEW c \in Commands, Load(c, "resume", "resume-admit") PROVE CopyOK(c)'
  BY <1>6, LedgerStep DEF Load, Remember, Goto, files, CopyOK, Same
<1>7. ASSUME NEW c \in Commands, Admit(c, "resume-admit", "resume-check", "open") PROVE CopyOK(c)'
  BY <1>7, LedgerStep DEF Admit, Goto, files, CopyOK, Same
<1>8. ASSUME NEW c \in Commands, ResumeCommitted(c) PROVE CopyOK(c)'
  <2>1. \A e \in Executors : pc'[e] = pc[e]
    BY <1>8 DEF ResumeCommitted, Goto
  <2>2. pc'[c] = "resume-save" /\ rec' = rec
    BY <1>8 DEF ResumeCommitted, Goto
  <2>3. /\ mem'[c].seq = mem[c].seq
        /\ mem'[c].status \in {"Created", "WorktreeRecoveryRequired"}
    BY <1>8, ResumeCommittedCopy
  <2>4. Same(c) /\ rec.status = "Preparing" => ~Alive(rec.pid)
    BY <1>8 DEF ResumeCommitted, CopyOK, Resumable
  <2>5. Same(c)' /\ rec'.status = "Preparing" => ~Alive(rec.pid)'
    BY <2>1, <2>2, <2>3, <2>4 DEF Same, Alive
  <2>6. mem[c].seq <= rec.seq
    BY DEF CopyOK
  <2> QED
    BY <2>2, <2>3, <2>5, <2>6 DEF CopyOK, Same
<1>9. ASSUME NEW c \in Commands, ResumeUncommitted(c) PROVE CopyOK(c)'
  <2>1. \A e \in Executors : pc'[e] = pc[e]
    BY <1>9 DEF ResumeUncommitted, Goto, files
  <2> QED
    BY <1>9, <2>1 DEF ResumeUncommitted, Goto, files, CopyOK, Same, Alive, Resumable
<1>10. ASSUME NEW c \in Commands, DiscardCheck(c) PROVE CopyOK(c)'
  <2>1. \A e \in Executors : pc'[e] = pc[e]
    BY <1>10 DEF DiscardCheck, Return, Goto, Remember, files
  <2> QED
    BY <1>10, <2>1 DEF DiscardCheck, Return, Goto, Remember, files, CopyOK, Same, Alive,
       Resumable
<1>11. ASSUME NEW c \in Commands, Discard(c) PROVE CopyOK(c)'
  <2>1. \A e \in Executors : pc'[e] = pc[e]
    BY <1>11 DEF Discard, Goto
  <2> QED
    BY <1>11, <2>1 DEF Discard, Goto, CopyOK, Same, Alive, Resumable
<1>12. ASSUME NEW c \in Commands, ResumeCreated(c) PROVE CopyOK(c)'
  <2>1. \A e \in Executors : pc'[e] = pc[e]
    BY <1>12 DEF ResumeCreated, Goto
  <2>2. pc'[c] = "resume-save" /\ rec' = rec
    BY <1>12, Zenon DEF ResumeCreated, Goto
  <2>3. /\ mem'[c].seq = mem[c].seq
        /\ mem'[c].status \in {"Created", "WorktreeRecoveryRequired"}
    BY <1>12, ResumeCreatedCopy
  <2>4. Same(c) /\ rec.status = "Preparing" => ~Alive(rec.pid)
    BY <1>12 DEF ResumeCreated, CopyOK, Resumable
  <2>5. Same(c)' /\ rec'.status = "Preparing" => ~Alive(rec.pid)'
    BY <2>1, <2>2, <2>3, <2>4 DEF Same, Alive
  <2>6. mem[c].seq <= rec.seq
    BY DEF CopyOK
  <2> QED
    BY <2>2, <2>3, <2>5, <2>6 DEF CopyOK, Same
<1>13. ASSUME NEW c \in Commands, ResumeSave(c) PROVE CopyOK(c)'
  BY <1>13, LedgerStep DEF ResumeSave, Goto, Return, Remember, files, CopyOK, Same
<1>14. ASSUME NEW c \in Commands, Load(c, "cancel", "cancel-check") PROVE CopyOK(c)'
  BY <1>14, LedgerStep DEF Load, Remember, Goto, files, CopyOK, Same
<1>15. ASSUME NEW c \in Commands, CancelRequest(c) PROVE CopyOK(c)'
  BY <1>15, CancelRequestCopy, LedgerStep DEF CancelRequest, Remember, Goto, files,
     CopyOK, Same
<1>16. ASSUME NEW c \in Commands, CancelSave(c) PROVE CopyOK(c)'
  BY <1>16, LedgerStep DEF CancelSave, Goto, files, CopyOK, Same
<1>17. ASSUME NEW c \in Commands, CancelKill(c) PROVE CopyOK(c)'
  BY <1>17, LedgerStep DEF CancelKill, files, CopyOK, Same
<1>18. ASSUME NEW c \in Commands, CancelReload(c) PROVE CopyOK(c)'
  BY <1>18, CancelReloadCopy, LedgerStep DEF CancelReload, Remember, Goto, files,
     CopyOK, Same
<1>19. ASSUME NEW c \in Commands, CancelSettle(c) PROVE CopyOK(c)'
  BY <1>19, LedgerStep DEF CancelSettle, Return, Goto, Remember, files, CopyOK, Same
<1>20. ASSUME NEW c \in Commands, RecoverOpen(c) PROVE CopyOK(c)'
  BY <1>20, LedgerStep DEF RecoverOpen, Goto, Return, Remember, files, CopyOK, Same
<1>21. ASSUME NEW c \in Commands, Load(c, "recover-load", "recover-check") PROVE CopyOK(c)'
  BY <1>21, LedgerStep DEF Load, Remember, Goto, files, CopyOK, Same
<1>22. ASSUME NEW c \in Commands, RecoverFinish(c) PROVE CopyOK(c)'
  <2>1. /\ pc'[c] \in {"recover-write", "recover-save"} /\ rec' = rec /\ mem' = mem
        /\ mem[c].status = "WorktreeRecoveryRequired"
    BY <1>22 DEF RecoverFinish, Goto
  <2>2. mem[c].seq <= rec.seq /\ (Same(c) => mem[c] = rec)
    BY <1>22 DEF RecoverFinish, CopyOK
  <2>3. mem[c].status \notin ReadyStatuses
    BY <2>1, Zenon DEF ReadyStatuses
  <2> QED
    BY <2>1, <2>2, <2>3 DEF CopyOK, Same
<1>23. ASSUME NEW c \in Commands, RecoverWrite(c) PROVE CopyOK(c)'
  <2>1. pc[c] = "recover-write" /\ pc'[c] = "recover-save" /\ rec' = rec
    BY <1>23 DEF RecoverWrite, Goto
  <2>2. /\ mem'[c].seq = mem[c].seq /\ mem'[c].status \in Outcomes
        /\ mem'[c].commit /\ mem'[c].prepared
    BY <1>23, RecoverWriteCopy, Zenon
  <2>3. mem[c].seq <= rec.seq /\ (Same(c) => rec.status = "WorktreeRecoveryRequired")
    BY <2>1 DEF CopyOK
  <2> QED
    BY <2>1, <2>2, <2>3 DEF CopyOK, Same
<1>24. ASSUME NEW c \in Commands, RecoverSave(c) PROVE CopyOK(c)'
  BY <1>24, LedgerStep DEF RecoverSave, Return, Goto, Remember, files, CopyOK, Same
<1>25. ASSUME NEW c \in Commands, Admit(c, "close", "close-check", "open") PROVE CopyOK(c)'
  BY <1>25, LedgerStep DEF Admit, Goto, files, CopyOK, Same
<1>26. ASSUME NEW c \in Commands, CloseAppend(c) PROVE CopyOK(c)'
  BY <1>26, LedgerStep DEF CloseAppend, Return, Goto, Remember, files, CopyOK, Same
<1>27. ASSUME NEW c \in Commands, Admit(c, "gc", "gc-check", "closed") PROVE CopyOK(c)'
  BY <1>27, LedgerStep DEF Admit, Goto, files, CopyOK, Same
<1>28. ASSUME NEW c \in Commands, GcCheck(c) PROVE CopyOK(c)'
  BY <1>28, LedgerStep DEF GcCheck, Goto, files, CopyOK, Same
<1>29. ASSUME NEW c \in Commands, GcWorktree(c) PROVE CopyOK(c)'
  BY <1>29, LedgerStep DEF GcWorktree, Goto, files, CopyOK, Same
<1>30. ASSUME NEW c \in Commands, GcFiles(c) PROVE CopyOK(c)'
  BY <1>30, LedgerStep DEF GcFiles, files, Goto, CopyOK, Same
<1>31. ASSUME NEW c \in Commands, GcAppend(c) PROVE CopyOK(c)'
  BY <1>31, LedgerStep DEF GcAppend, Return, Goto, Remember, files, CopyOK, Same
<1>32. ASSUME NEW c \in Commands, Spawn(c) PROVE CopyOK(c)'
  BY <1>32, LedgerStep DEF Spawn, Remember, files, CopyOK, Same
<1>33. ASSUME NEW e \in Executors, ExecLoad(e) PROVE CopyOK(e)'
  <2>1. CASE rec.status = "Created"
    <3>1. pc'[e] = "exec-begin" /\ rec' = rec
      BY <1>33, <2>1 DEF ExecLoad, Goto
    <3>2. mem'[e] = [rec EXCEPT !.status = "Preparing", !.pid = e]
      BY <1>33, <2>1 DEF ExecLoad, Remember
    <3>3. mem'[e].seq = rec.seq /\ mem'[e].status = "Preparing" /\ mem'[e].pid = e
      BY <3>2 DEF Records
    <3>4. mem'[e].seq <= rec'.seq
      BY <3>1, <3>3 DEF Records
    <3> QED
      BY <2>1, <3>1, <3>3, <3>4, Zenon DEF CopyOK, Same
  <2>2. CASE rec.status # "Created"
    BY <1>33, <2>2 DEF ExecLoad, Goto, CopyOK, Same
  <2> QED
    BY <2>1, <2>2
<1>34. ASSUME NEW e \in Executors, ExecBegin(e) PROVE CopyOK(e)'
  BY <1>34, LedgerStep DEF ExecBegin, Goto, Remember, files, CopyOK, Same
<1>35. ASSUME NEW e \in Executors, ExecAdd(e) PROVE CopyOK(e)'
  BY <1>35, LedgerStep, Zenon DEF ExecAdd, Prepare, Goto, CopyOK, Same
<1>36. ASSUME NEW e \in Executors, ExecCommit(e) PROVE CopyOK(e)'
  BY <1>36, LedgerStep DEF ExecCommit, Prepare, Goto, CopyOK, Same
<1>37. ASSUME NEW e \in Executors, ExecCheckpoint(e) PROVE CopyOK(e)'
  BY <1>37, LedgerStep DEF ExecCheckpoint, Goto, CopyOK, Same
<1>38. ASSUME NEW e \in Executors, ExecFinish(e) PROVE CopyOK(e)'
  BY <1>38, LedgerStep DEF ExecFinish, Prepare, Goto, files, CopyOK, Same
<1>39. ASSUME NEW e \in Executors, ExecWrite(e) PROVE CopyOK(e)'
  BY <1>39, LedgerStep, Zenon DEF ExecWrite, Goto, CopyOK, Same
<1>40. ASSUME NEW e \in Executors, ExecReload(e) PROVE CopyOK(e)'
  <2>1. pc'[e] = "exec-save" /\ rec' = rec
    BY <1>40 DEF ExecReload, Goto
  <2>2. /\ mem'[e].seq = rec.seq /\ mem'[e].status \in Outcomes \cup {"Cancelled"}
        /\ mem'[e].commit /\ mem'[e].prepared
    BY <1>40, ExecReloadCopy, Zenon
  <2>3. mem'[e].seq <= rec'.seq
    BY <2>1, <2>2
  <2> QED
    BY <2>1, <2>2, <2>3 DEF CopyOK, Same
<1>41. ASSUME NEW e \in Executors, ExecSave(e) PROVE CopyOK(e)'
  BY <1>41, LedgerStep DEF ExecSave, Goto, Remember, files, CopyOK, Same
<1>42. ASSUME NEW e \in Executors, ExecFails(e) PROVE CopyOK(e)'
  BY <1>42, LedgerStep DEF ExecFails, Goto, files, CopyOK, Same
<1>43. ASSUME NEW e \in Executors, ExecError(e) PROVE CopyOK(e)'
  BY <1>43, ExecErrorCopy, LedgerStep DEF ExecError, Remember, Goto, files, CopyOK, Same
<1>44. ASSUME NEW e \in Executors, ExecReport(e) PROVE CopyOK(e)'
  BY <1>44, LedgerStep DEF ExecReport, Goto, Remember, files, CopyOK, Same
<1>45. ASSUME NEW p \in Procs, Crash(p) PROVE CopyOK(p)'
  BY <1>45, LedgerStep DEF Crash, Goto, Remember, files, CopyOK, Same
<1>46. ASSUME NEW c \in Commands, Acts(c) PROVE \A q \in Procs : CopyOK(q)'
  <2>1. CopyOK(c)'
    BY <1>46, <1>1, <1>2, <1>3, <1>4, <1>5, <1>6, <1>7, <1>8, <1>9, <1>10, <1>11, <1>12,
       <1>13,
         <1>14, <1>15, <1>16, <1>17, <1>18, <1>19, <1>20, <1>21, <1>22, <1>23, <1>24,
         <1>25,
         <1>26, <1>27, <1>28, <1>29, <1>30, <1>31, <1>32 DEF Acts
  <2> QED
    BY <1>46, <2>1, CommandLeaves, OtherCopy
<1>47. ASSUME NEW e \in Executors, Execute(e) PROVE \A q \in Procs : CopyOK(q)'
  <2>1. CopyOK(e)'
    BY <1>47, <1>33, <1>34, <1>35, <1>36, <1>37, <1>38, <1>39, <1>40, <1>41, <1>42,
       <1>43, <1>44
         DEF Execute
  <2> QED
    BY <1>47, <2>1, ExecutorLeaves, OtherCopy
<1>48. CASE UNCHANGED vars
  BY <1>48, OtherCopy DEF vars, Left
<1> QED
  BY StepCases, CrashLeaves, OtherCopy, <1>45, <1>46, <1>47, <1>48

\* Every step keeps: a process that is recorded was started.
LEMMA BornStep ==
  ASSUME Inv, [Next]_vars
  PROVE  Born'
<1> USE TaskRunAssumption, FirstRecords
<1>a. TypeOK /\ Born
  BY DEF Inv
<1>b. /\ Commands \subseteq Procs /\ Executors \subseteq Procs /\ Commands \cap Executors = {}
      /\ mem \in [Procs -> Records] /\ rec \in Records /\ rec.pid \in Executors \cup {None}
      /\ \A p \in Procs : mem[p].pid \in Executors \cup {None}
  BY <1>a DEF Procs, TypeOK, Records
<1>c. ASSUME \/ rec'.pid \in {None, rec.pid}
             \/ \E p \in Procs : rec'.pid = mem[p].pid,
             \A q \in Procs : \/ mem'[q].pid \in {None, rec.pid, mem[q].pid}
                              \/ mem'[q].pid = q /\ pc'[q] # "unborn"
      PROVE  Born'
  BY <1>a, <1>b, <1>c, Aging DEF Born
<1> USE <1>b
<1>1. ASSUME NEW c \in Commands, Declined(c) PROVE Born'
  BY <1>1, <1>a, <1>c DEF Declined, Remember
<1>2. ASSUME NEW c \in Commands, \E call \in usage : Call(c, call) PROVE Born'
  BY <1>2, <1>a, <1>c DEF Call
<1>3. ASSUME NEW c \in Commands, Admit(c, "start", "start-reference", "open") PROVE Born'
  BY <1>3, <1>a, <1>c DEF Admit
<1>4. ASSUME NEW c \in Commands, StartReference(c) PROVE Born'
  BY <1>4, <1>a, <1>c DEF StartReference
<1>5. ASSUME NEW c \in Commands, StartGenesis(c) PROVE Born'
  BY <1>5, <1>a, <1>c DEF StartGenesis
<1>6. ASSUME NEW c \in Commands, Load(c, "resume", "resume-admit") PROVE Born'
  BY <1>6, <1>a, <1>c DEF Load, Remember
<1>7. ASSUME NEW c \in Commands, Admit(c, "resume-admit", "resume-check", "open") PROVE Born'
  BY <1>7, <1>a, <1>c DEF Admit
<1>8. ASSUME NEW c \in Commands, ResumeCommitted(c) PROVE Born'
  BY <1>8, <1>a, <1>c, ResumeCommittedCopy, Zenon DEF ResumeCommitted
<1>9. ASSUME NEW c \in Commands, ResumeUncommitted(c) PROVE Born'
  BY <1>9, <1>a, <1>c DEF ResumeUncommitted
<1>10. ASSUME NEW c \in Commands, DiscardCheck(c) PROVE Born'
  BY <1>10, <1>a, <1>c DEF DiscardCheck, Return, Remember
<1>11. ASSUME NEW c \in Commands, Discard(c) PROVE Born'
  BY <1>11, <1>a, <1>c DEF Discard
<1>12. ASSUME NEW c \in Commands, ResumeCreated(c) PROVE Born'
  BY <1>12, <1>a, <1>c, ResumeCreatedCopy, Zenon DEF ResumeCreated
<1>13. ASSUME NEW c \in Commands, ResumeSave(c) PROVE Born'
  <2>1. rec' = rec \/ rec'.pid = mem[c].pid
    BY <1>13, <1>a, SavedRecord DEF ResumeSave
  <2>2. \A q \in Procs : mem'[q].pid \in {None, mem[q].pid}
    BY <1>13 DEF ResumeSave, Return, Remember
  <2> QED
    BY <1>b, <1>c, <2>1, <2>2
<1>14. ASSUME NEW c \in Commands, Load(c, "cancel", "cancel-check") PROVE Born'
  BY <1>14, <1>a, <1>c DEF Load, Remember
<1>15. ASSUME NEW c \in Commands, CancelRequest(c) PROVE Born'
  BY <1>15, <1>a, <1>c, CancelRequestCopy DEF CancelRequest
<1>16. ASSUME NEW c \in Commands, CancelSave(c) PROVE Born'
  <2>1. rec' = rec \/ rec'.pid = mem[c].pid
    BY <1>16, <1>a, SavedRecord DEF CancelSave
  <2>2. \A q \in Procs : mem'[q].pid \in {None, mem[q].pid}
    BY <1>16 DEF CancelSave
  <2> QED
    BY <1>b, <1>c, <2>1, <2>2
<1>17. ASSUME NEW c \in Commands, CancelKill(c) PROVE Born'
  BY <1>17, <1>a, <1>c DEF CancelKill
<1>18. ASSUME NEW c \in Commands, CancelReload(c) PROVE Born'
  BY <1>18, <1>a, <1>c, CancelReloadCopy DEF CancelReload
<1>19. ASSUME NEW c \in Commands, CancelSettle(c) PROVE Born'
  <2>1. rec' = rec \/ rec'.pid = mem[c].pid
    BY <1>19, <1>a, SavedRecord DEF CancelSettle
  <2>2. \A q \in Procs : mem'[q].pid \in {None, mem[q].pid}
    BY <1>19 DEF CancelSettle, Return, Remember
  <2> QED
    BY <1>b, <1>c, <2>1, <2>2
<1>20. ASSUME NEW c \in Commands, RecoverOpen(c) PROVE Born'
  BY <1>20, <1>a, <1>c DEF RecoverOpen, Return, Remember
<1>21. ASSUME NEW c \in Commands, Load(c, "recover-load", "recover-check") PROVE Born'
  BY <1>21, <1>a, <1>c DEF Load, Remember
<1>22. ASSUME NEW c \in Commands, RecoverFinish(c) PROVE Born'
  BY <1>22, <1>a, <1>c DEF RecoverFinish
<1>23. ASSUME NEW c \in Commands, RecoverWrite(c) PROVE Born'
  BY <1>23, <1>a, <1>c, RecoverWriteCopy, Zenon DEF RecoverWrite
<1>24. ASSUME NEW c \in Commands, RecoverSave(c) PROVE Born'
  <2>1. rec' = rec \/ rec'.pid = mem[c].pid
    BY <1>24, <1>a, SavedRecord DEF RecoverSave
  <2>2. \A q \in Procs : mem'[q].pid \in {None, mem[q].pid}
    BY <1>24 DEF RecoverSave, Return, Remember
  <2> QED
    BY <1>b, <1>c, <2>1, <2>2
<1>25. ASSUME NEW c \in Commands, Admit(c, "close", "close-check", "open") PROVE Born'
  BY <1>25, <1>a, <1>c DEF Admit
<1>26. ASSUME NEW c \in Commands, CloseAppend(c) PROVE Born'
  BY <1>26, <1>a, <1>c DEF CloseAppend, Return, Remember
<1>27. ASSUME NEW c \in Commands, Admit(c, "gc", "gc-check", "closed") PROVE Born'
  BY <1>27, <1>a, <1>c DEF Admit
<1>28. ASSUME NEW c \in Commands, GcCheck(c) PROVE Born'
  BY <1>28, <1>a, <1>c DEF GcCheck
<1>29. ASSUME NEW c \in Commands, GcWorktree(c) PROVE Born'
  BY <1>29, <1>a, <1>c DEF GcWorktree
<1>30. ASSUME NEW c \in Commands, GcFiles(c) PROVE Born'
  BY <1>30, <1>a, <1>c DEF GcFiles
<1>31. ASSUME NEW c \in Commands, GcAppend(c) PROVE Born'
  BY <1>31, <1>a, <1>c DEF GcAppend, Return, Remember
<1>32. ASSUME NEW c \in Commands, Spawn(c) PROVE Born'
  BY <1>32, <1>a, <1>c DEF Spawn, Remember
<1>33. ASSUME NEW e \in Executors, ExecLoad(e) PROVE Born'
  <2>1. CASE rec.status = "Created"
    <3>1. mem'[e] = [rec EXCEPT !.status = "Preparing", !.pid = e]
      BY <1>33, <2>1 DEF ExecLoad, Remember
    <3>2. mem'[e].pid = e /\ pc'[e] # "unborn"
      BY <1>33, <1>a, <2>1, <3>1 DEF ExecLoad, Goto, Records, TypeOK
    <3>3. rec' = rec /\ \A q \in Procs : q # e => mem'[q] = mem[q]
      BY <1>33, <2>1 DEF ExecLoad, Remember
    <3> QED
      BY <1>c, <3>2, <3>3
  <2>2. CASE rec.status # "Created"
    BY <1>33, <1>c, <2>2 DEF ExecLoad
  <2> QED
    BY <2>1, <2>2
<1>34. ASSUME NEW e \in Executors, ExecBegin(e) PROVE Born'
  <2>1. rec' = rec \/ rec'.pid = mem[e].pid
    BY <1>34, <1>a, SavedRecord DEF ExecBegin
  <2>2. \A q \in Procs : mem'[q].pid \in {None, mem[q].pid}
    BY <1>34 DEF ExecBegin, Remember
  <2> QED
    BY <1>b, <1>c, <2>1, <2>2
<1>35. ASSUME NEW e \in Executors, ExecAdd(e) PROVE Born'
  BY <1>35, <1>a, <1>c, Zenon DEF ExecAdd, Prepare
<1>36. ASSUME NEW e \in Executors, ExecCommit(e) PROVE Born'
  BY <1>36, <1>a, <1>c, Zenon DEF ExecCommit, Prepare
<1>37. ASSUME NEW e \in Executors, ExecCheckpoint(e) PROVE Born'
  BY <1>37, <1>a, <1>c DEF ExecCheckpoint
<1>38. ASSUME NEW e \in Executors, ExecFinish(e) PROVE Born'
  BY <1>38, <1>a, <1>c DEF ExecFinish, Prepare
<1>39. ASSUME NEW e \in Executors, ExecWrite(e) PROVE Born'
  BY <1>39, <1>a, <1>c DEF ExecWrite
<1>40. ASSUME NEW e \in Executors, ExecReload(e) PROVE Born'
  BY <1>40, <1>a, <1>c, ExecReloadCopy, Zenon DEF ExecReload
<1>41. ASSUME NEW e \in Executors, ExecSave(e) PROVE Born'
  <2>1. rec' = rec \/ rec'.pid = mem[e].pid
    BY <1>41, <1>a, SavedRecord DEF ExecSave
  <2>2. \A q \in Procs : mem'[q].pid \in {None, mem[q].pid}
    BY <1>41 DEF ExecSave, Remember
  <2> QED
    BY <1>b, <1>c, <2>1, <2>2, Zenon
<1>42. ASSUME NEW e \in Executors, ExecFails(e) PROVE Born'
  BY <1>42, <1>a, <1>c, Zenon DEF ExecFails
<1>43. ASSUME NEW e \in Executors, ExecError(e) PROVE Born'
  BY <1>43, <1>a, <1>c, ExecErrorCopy DEF ExecError
<1>44. ASSUME NEW e \in Executors, ExecReport(e) PROVE Born'
  <2>1. rec' = rec \/ rec'.pid = mem[e].pid
    BY <1>44, <1>a, SavedRecord, Zenon DEF ExecReport
  <2>2. \A q \in Procs : mem'[q].pid \in {None, mem[q].pid}
    BY <1>44, Zenon DEF ExecReport, Remember
  <2> QED
    BY <1>b, <1>c, <2>1, <2>2, Zenon
<1>45. ASSUME NEW p \in Procs, Crash(p) PROVE Born'
  BY <1>45, <1>a, <1>c DEF Crash, Remember
<1>46. CASE UNCHANGED vars
  BY <1>46, <1>c, Zenon DEF vars
<1> QED
  BY StepCases, <1>1, <1>2, <1>3, <1>4, <1>5, <1>6, <1>7, <1>8, <1>9, <1>10, <1>11,
     <1>12,
       <1>13, <1>14, <1>15, <1>16, <1>17, <1>18, <1>19, <1>20, <1>21, <1>22, <1>23,
       <1>24,
       <1>25, <1>26, <1>27, <1>28, <1>29, <1>30, <1>31, <1>32, <1>33, <1>34, <1>35,
       <1>36,
       <1>37, <1>38, <1>39, <1>40, <1>41, <1>42, <1>43, <1>44, <1>45, <1>46, Zenon DEF
       Acts, Execute

\* An executor begins to work only by saving Preparing.
LEMMA Joining ==
  ASSUME Inv, [Next]_vars
  PROVE  \A e \in Executors : Working(e)' => Working(e) \/ (ExecBegin(e) /\ Save(e))
<1> DEFINE Joins == \A e \in Executors :
                      Working(e)' => Working(e) \/ (ExecBegin(e) /\ Save(e))
<1> USE DEF Working, Alive
<1>1. ASSUME NEW c \in Commands, Acts(c) PROVE Joins
  BY <1>1, Apart, CommandLeaves DEF Left
<1>2. ASSUME NEW d \in Executors, Execute(d) PROVE Joins
  <2>1. Working(d)' => Working(d) \/ (ExecBegin(d) /\ Save(d))
    <3>1. CASE ExecBegin(d)
      BY <3>1, Apart DEF ExecBegin, Goto
    <3>2. CASE ~ExecBegin(d)
      BY <1>2, <3>2, Apart, Zenon DEF Execute, ExecAdd, ExecCheckpoint, ExecCommit,
         ExecError,
           ExecFails, ExecFinish, ExecLoad, ExecReload, ExecReport, ExecSave, ExecWrite,
           Goto,
           Prepare
    <3> QED
      BY <3>1, <3>2
  <2> QED
    BY <1>2, <2>1, Apart, ExecutorLeaves DEF Left
<1>3. ASSUME NEW p \in Procs, Crash(p) PROVE Joins
  <2>1. p \in Executors => pc'[p] = "dead"
    BY <1>3, Apart DEF Crash, Goto
  <2> QED
    BY <1>3, <2>1, Apart, CrashLeaves DEF Left
<1>4. CASE UNCHANGED vars
  BY <1>4 DEF vars
<1> QED
  BY StepCases, <1>1, <1>2, <1>3, <1>4

\* The steps that end a session.
LEMMA SessionFrame ==
  ASSUME [Next]_vars
  PROVE  \/ session' = session
         \/ \E c \in Commands : CloseAppend(c) \/ GcAppend(c)
<1>1. ASSUME NEW c \in Commands, Acts(c)
      PROVE  session' = session \/ CloseAppend(c) \/ GcAppend(c)
  BY <1>1, Zenon DEF Acts, Admit, Call, CancelKill, CancelReload, CancelRequest,
     CancelSave,
       CancelSettle, Declined, Discard, DiscardCheck, GcCheck, GcFiles, GcWorktree,
       Load,
       RecoverFinish, RecoverOpen, RecoverSave, RecoverWrite, ResumeCommitted,
       ResumeCreated,
       ResumeSave, ResumeUncommitted, Spawn, StartGenesis, StartReference, files
<1>2. ASSUME NEW e \in Executors, Execute(e) PROVE session' = session
  BY <1>2, Zenon DEF Execute, ExecAdd, ExecBegin, ExecCheckpoint, ExecCommit, ExecError,
     ExecFails,
       ExecFinish, ExecLoad, ExecReload, ExecReport, ExecSave, ExecWrite, Prepare, files
<1>3. ASSUME NEW p \in Procs, Crash(p) PROVE session' = session
  BY <1>3 DEF Crash, files
<1>4. CASE UNCHANGED vars
  BY <1>4 DEF vars, files
<1> QED
  BY StepCases, <1>1, <1>2, <1>3, <1>4 DEF vars

\* Every step keeps the claim of the executor, and so that it is the only one: who saves
\* Preparing found the run Created, and then nobody was working on it.
LEMMA ClaimStep ==
  ASSUME Inv, [Next]_vars, ResumeOrCancel
  PROVE  Claimed' /\ OneExecutor'
<1> USE TaskRunAssumption
<1>a. TypeOK /\ Placed /\ Claimed /\ (\A p \in Procs : CopyOK(p)) /\ usage' = usage
  BY Aging DEF Inv
<1>b. \A d, e \in Executors : Working(d) /\ Working(e) => d = e
  BY DEF Inv, OneExecutor
<1>c. /\ Commands \subseteq Procs /\ Executors \subseteq Procs /\ Commands \cap Executors = {}
      /\ pc \in [Procs -> Labels \cup ExecutorLabels]
  BY <1>a DEF Procs, TypeOK
<1>d. ASSUME NEW e \in Executors, ExecBegin(e), Save(e)
      PROVE  /\ rec.status = "Created" /\ rec'.status = "Preparing" /\ rec'.pid = e
             /\ \A d \in Executors : ~Working(d)
  <2>1. rec'.status = mem[e].status /\ rec'.pid = mem[e].pid /\ Same(e)
    BY <1>a, <1>c, <1>d, SavedRecord
  <2>2. rec.status = "Created" /\ rec'.status = "Preparing" /\ rec'.pid = e
    BY <1>a, <1>c, <1>d, <2>1, Zenon DEF ExecBegin, CopyOK
  <2> QED
    BY <1>a, <2>2 DEF Claimed
<1>1. OneExecutor'
  <2> SUFFICES ASSUME NEW d \in Executors, NEW e \in Executors, Working(d)', Working(e)'
               PROVE  d = e
    BY DEF OneExecutor
  <2>1. Working(d) \/ (ExecBegin(d) /\ Save(d))
    BY Joining
  <2>2. Working(e) \/ (ExecBegin(e) /\ Save(e))
    BY Joining
  <2> QED
    BY <1>b, <1>d, <2>1, <2>2
<1>2. ASSUME NEW e \in Executors, Working(e)', Working(e)
      PROVE  /\ rec'.status \in {"Preparing", "Cancelled"}
             /\ "cancel" \notin usage => rec'.status = "Preparing" /\ rec'.pid = e
  <2>a. /\ rec.status \in {"Preparing", "Cancelled"}
        /\ "cancel" \notin usage => rec.status = "Preparing" /\ rec.pid = e
    BY <1>a, <1>2 DEF Claimed
  <2>1. CASE rec' = rec
    BY <2>1, <2>a
  <2>2. ASSUME NEW c \in Commands, StartGenesis(c) PROVE FALSE
    BY <2>2, <2>a, FirstRecords DEF StartGenesis
  <2>3. ASSUME NEW c \in Commands, ResumeSave(c) PROVE FALSE
    <3>1. rec.status = "Preparing" /\ rec.pid = e
      BY <1>a, <2>3, <2>a DEF ResumeSave, Placed, ResumeSteps, ResumeOrCancel
    <3>2. ~Alive(rec.pid)
      BY <1>a, <1>c, <2>3, <3>1, SavedRecord, Zenon DEF ResumeSave, CopyOK
    <3> QED
      BY <1>2, <3>1, <3>2 DEF Working
  <2>4. ASSUME NEW c \in Commands, CancelSave(c) \/ CancelSettle(c)
        PROVE  rec'.status = "Cancelled" /\ "cancel" \in usage
    <3>1. pc[c] \in {"cancel-save", "cancel-settle"} /\ rec'.status = mem[c].status
      BY <1>a, <1>c, <2>4, SavedRecord DEF CancelSave, CancelSettle
    <3>2. mem[c].status = "Cancelled"
      BY <1>a, <1>c, <3>1, Zenon DEF CopyOK
    <3> QED
      BY <1>a, <3>1, <3>2 DEF Placed, CancelSteps
  <2>5. ASSUME NEW c \in Commands, RecoverSave(c) PROVE FALSE
    BY <1>a, <1>c, <2>5, <2>a, SavedRecord, ZenonT(30) DEF RecoverSave, CopyOK
  <2>6. ASSUME NEW d \in Executors, ExecBegin(d) PROVE rec' = rec
    BY <1>2, <1>d, <2>6, Zenon DEF ExecBegin
  <2>7. ASSUME NEW d \in Executors, ExecSave(d) \/ ExecReport(d) PROVE rec' = rec
    <3>1. Working(d)
      BY <2>7 DEF ExecSave, ExecReport, Working, Alive
    <3>2. d = e
      BY <1>2, <1>b, <3>1
    <3>3. pc'[e] # "dead"
      BY <1>2 DEF Working, Alive
    <3> QED
      BY <1>c, <2>7, <3>2, <3>3, Zenon DEF ExecSave, ExecReport, Goto
  <2> QED
    BY <2>1, <2>2, <2>3, <2>4, <2>5, <2>6, <2>7, LedgerFrame
<1>3. Claimed'
  BY <1>2, <1>a, <1>d, Joining DEF Claimed
<1> QED
  BY <1>1, <1>3

\* Every step keeps a closed session inactive: what would bring a run back needs an
\* admission, or a run that is still active.
LEMMA ClosedStep ==
  ASSUME Inv, [Next]_vars
  PROVE  ClosedMeansInactive'
<1> USE TaskRunAssumption
<1>a. TypeOK /\ Placed /\ (\A p \in Procs : CopyOK(p)) /\ usage' = usage
  BY Aging DEF Inv
<1> SUFFICES ASSUME ResumeOrCancel, session' # "open" PROVE rec'.status \notin ActiveStatuses
  BY <1>a DEF ClosedMeansInactive, ResumeOrCancel
<1>b. Claimed /\ (session # "open" => rec.status \notin ActiveStatuses)
  BY DEF Inv, ClosedMeansInactive
<1>c. /\ Commands \subseteq Procs /\ Executors \subseteq Procs
      /\ rec.status \in Statuses \cup {"absent"} /\ "absent" \notin ActiveStatuses
  BY <1>a DEF Procs, TypeOK, Records, ActiveStatuses, ReadyStatuses
<1>1. CASE rec' = rec /\ session' = session
  BY <1>1, <1>b
<1>2. ASSUME NEW c \in Commands, CloseAppend(c) PROVE rec'.status \notin ActiveStatuses
  BY <1>a, <1>c, <1>2 DEF CloseAppend, RunsSettled, Placed
<1>3. ASSUME NEW c \in Commands, GcAppend(c) PROVE rec'.status \notin ActiveStatuses
  BY <1>a, <1>b, <1>3 DEF GcAppend, Placed, GcSteps
<1>4. ASSUME NEW c \in Commands, StartGenesis(c) \/ ResumeSave(c) PROVE FALSE
  BY <1>a, <1>4 DEF StartGenesis, ResumeSave, Placed, OpenSteps, ResumeSteps
<1>5. ASSUME NEW c \in Commands, CancelSave(c) \/ CancelSettle(c)
      PROVE  rec'.status \notin ActiveStatuses
  BY <1>a, <1>c, <1>5, SavedRecord, Zenon
     DEF CancelSave, CancelSettle, CopyOK, ActiveStatuses, ReadyStatuses
<1>6. ASSUME NEW c \in Commands, RecoverSave(c) PROVE FALSE
  BY <1>a, <1>b, <1>c, <1>6, SavedRecord, Zenon DEF RecoverSave, CopyOK, ActiveStatuses
<1>7. ASSUME NEW e \in Executors, ExecBegin(e), rec' # rec PROVE FALSE
  BY <1>a, <1>b, <1>c, <1>7, SavedRecord, Zenon DEF ExecBegin, CopyOK, ActiveStatuses
<1>8. ASSUME NEW e \in Executors, ExecSave(e), rec' # rec PROVE rec'.status \notin ActiveStatuses
  <2>1. /\ Save(e) /\ session' = session /\ mem[e].status \in Outcomes \cup {"Cancelled"}
        /\ rec'.status = mem[e].status /\ mem[e].status \in Successors(rec.status) \cup {rec.status}
    BY <1>a, <1>c, <1>8, SavedRecord, Zenon DEF ExecSave, CopyOK
  <2>2. mem[e].status \notin ReadyStatuses
    BY <1>b, <1>c, <2>1, LegalChange
  <2> QED
    BY <2>1, <2>2 DEF ActiveStatuses, ReadyStatuses
<1>9. ASSUME NEW e \in Executors, ExecReport(e), rec' # rec PROVE rec'.status \notin ActiveStatuses
  <2>1. /\ Save(e) /\ session' = session /\ Same(e) /\ rec'.status = mem[e].status
        /\ mem[e].status \in {"Cancelled", "Failed", "WorktreeRecoveryRequired"}
        /\ rec.status = "Cancelled" => mem[e].status = "Cancelled"
    BY <1>a, <1>c, <1>9, SavedRecord, Zenon DEF ExecReport, CopyOK
  <2>2. Working(e)
    BY <1>9, Zenon DEF ExecReport, Working, Alive
  <2>3. rec.status = "Cancelled"
    BY <1>b, <2>1, <2>2 DEF Claimed, ActiveStatuses
  <2> QED
    BY <2>1, <2>3 DEF ActiveStatuses, ReadyStatuses
<1>10. ASSUME NEW c \in Commands, CloseAppend(c) \/ GcAppend(c) PROVE rec' = rec
  BY <1>10 DEF CloseAppend, GcAppend
<1> QED
  BY <1>1, <1>2, <1>3, <1>4, <1>5, <1>6, <1>7, <1>8, <1>9, <1>10, LedgerFrame,
     SessionFrame

\* Only session gc removes the files of a candidate.
LEMMA FilesFrame ==
  ASSUME Inv, [Next]_vars
  PROVE  \/ (checkpoint => checkpoint') /\ (prepared => prepared')
         \/ \E c \in Commands : GcFiles(c)
<1>1. ASSUME NEW c \in Commands, Acts(c)
      PROVE  checkpoint' = checkpoint \/ GcFiles(c) \/ RecoverFinish(c)
  BY <1>1, Zenon DEF Acts, Admit, Call, CancelKill, CancelReload, CancelRequest,
     CancelSave,
       CancelSettle, CloseAppend, Declined, Discard, DiscardCheck, GcAppend, GcCheck,
       GcWorktree, Load, RecoverOpen, RecoverSave, RecoverWrite, ResumeCommitted,
       ResumeCreated,
       ResumeSave, ResumeUncommitted, Spawn, StartGenesis, StartReference, files
<1>2. ASSUME NEW e \in Executors, Execute(e) PROVE checkpoint' = checkpoint \/ ExecCheckpoint(e)
  BY <1>2, Zenon DEF Execute, ExecAdd, ExecBegin, ExecCommit, ExecError, ExecFails,
     ExecFinish,
       ExecLoad, ExecReload, ExecReport, ExecSave, ExecWrite, Prepare, files
<1>3. ASSUME NEW p \in Procs, Crash(p) PROVE checkpoint' = checkpoint
  BY <1>3 DEF Crash, files
<1>4. CASE UNCHANGED vars
  BY <1>4 DEF vars, files
<1>5. ASSUME NEW c \in Commands, Acts(c)
      PROVE  prepared' = prepared \/ GcFiles(c) \/ RecoverWrite(c)
  BY <1>5 DEF Acts, Admit, Call, CancelKill, CancelReload, CancelRequest, CancelSave,
       CancelSettle, CloseAppend, Declined, Discard, DiscardCheck, GcAppend, GcCheck,
       GcWorktree, Load, RecoverFinish, RecoverOpen, RecoverSave, ResumeCommitted,
       ResumeCreated, ResumeSave, ResumeUncommitted, Spawn, StartGenesis,
       StartReference, files
<1>6. ASSUME NEW e \in Executors, Execute(e) PROVE prepared' = prepared \/ ExecWrite(e)
  BY <1>6, Zenon DEF Execute, ExecAdd, ExecBegin, ExecCheckpoint, ExecCommit, ExecError,
     ExecFails,
       ExecFinish, ExecLoad, ExecReload, ExecReport, ExecSave, Prepare, files
<1>7. ASSUME NEW p \in Procs, Crash(p) PROVE prepared' = prepared
  BY <1>7 DEF Crash, files
<1>8. CASE UNCHANGED vars
  BY <1>8 DEF vars, files
<1>9. ASSUME NEW c \in Commands, RecoverFinish(c) PROVE checkpoint => checkpoint'
  BY <1>9, Zenon DEF RecoverFinish, Inv, TypeOK
<1>10. ASSUME NEW c \in Commands, RecoverWrite(c) PROVE prepared'
  BY <1>10 DEF RecoverWrite
<1>11. ASSUME NEW e \in Executors, ExecCheckpoint(e) PROVE checkpoint'
  BY <1>11 DEF ExecCheckpoint
<1>12. ASSUME NEW e \in Executors, ExecWrite(e) PROVE prepared'
  BY <1>12 DEF ExecWrite
<1> QED
  BY StepCases, <1>1, <1>2, <1>3, <1>4, <1>5, <1>6, <1>7, <1>8, <1>9, <1>10, <1>11,
     <1>12

\* Every step keeps: a verdict is recorded after the files are written.
LEMMA WrittenStep ==
  ASSUME Inv, [Next]_vars
  PROVE  Written'
<1> USE TaskRunAssumption, FirstRecords
<1>a. TypeOK /\ Placed /\ Written /\ usage' = usage /\ \A p \in Procs : CopyOK(p)
  BY Aging DEF Inv
<1>b. /\ Commands \subseteq Procs /\ Executors \subseteq Procs /\ Commands \cap Executors = {}
      /\ pc \in [Procs -> Labels \cup ExecutorLabels] /\ mem \in [Procs -> Records]
      /\ "absent" \notin ReadyStatuses /\ "WorktreeRecoveryRequired" \notin ReadyStatuses
  BY <1>a DEF Procs, TypeOK, ReadyStatuses
<1> USE <1>a, <1>b DEF Written, Kept
<1>1. ASSUME NEW c \in Commands, Declined(c) PROVE Written'
  BY <1>1 DEF Declined, Goto, Remember, files
<1>2. ASSUME NEW c \in Commands, \E call \in usage : Call(c, call) PROVE Written'
  <2>1. PICK call \in {"start", "resume", "cancel", "recover", "close", "gc"} : Call(c, call)
    BY <1>2, CallTypes
  <2> QED
    BY <2>1 DEF Call, Goto, files
<1>3. ASSUME NEW c \in Commands, Admit(c, "start", "start-reference", "open") PROVE Written'
  BY <1>3 DEF Admit, Goto, files
<1>4. ASSUME NEW c \in Commands, StartReference(c) PROVE Written'
  BY <1>4 DEF StartReference, Goto, files
<1>5. ASSUME NEW c \in Commands, StartGenesis(c) PROVE Written'
  BY <1>5 DEF StartGenesis, Goto, files
<1>6. ASSUME NEW c \in Commands, Load(c, "resume", "resume-admit") PROVE Written'
  BY <1>6 DEF Load, Remember, Goto, files
<1>7. ASSUME NEW c \in Commands, Admit(c, "resume-admit", "resume-check", "open") PROVE Written'
  BY <1>7 DEF Admit, Goto, files
<1>8. ASSUME NEW c \in Commands, ResumeCommitted(c) PROVE Written'
  BY <1>8 DEF ResumeCommitted, Remember, Goto, files
<1>9. ASSUME NEW c \in Commands, ResumeUncommitted(c) PROVE Written'
  BY <1>9 DEF ResumeUncommitted, Goto, files
<1>10. ASSUME NEW c \in Commands, DiscardCheck(c) PROVE Written'
  BY <1>10 DEF DiscardCheck, Return, Goto, Remember, files
<1>11. ASSUME NEW c \in Commands, Discard(c) PROVE Written'
  BY <1>11 DEF Discard, Goto
<1>12. ASSUME NEW c \in Commands, ResumeCreated(c) PROVE Written'
  BY <1>12 DEF ResumeCreated, Remember, Goto, files
<1>13. ASSUME NEW c \in Commands, ResumeSave(c) PROVE Written'
  BY <1>13 DEF ResumeSave, Goto, Return, Remember, files
<1>14. ASSUME NEW c \in Commands, Load(c, "cancel", "cancel-check") PROVE Written'
  BY <1>14 DEF Load, Remember, Goto, files
<1>15. ASSUME NEW c \in Commands, CancelRequest(c) PROVE Written'
  BY <1>15 DEF CancelRequest, Remember, Goto, files
<1>16. ASSUME NEW c \in Commands, CancelSave(c) PROVE Written'
  BY <1>16 DEF CancelSave, Goto, files
<1>17. ASSUME NEW c \in Commands, CancelKill(c) PROVE Written'
  BY <1>17 DEF CancelKill, files
<1>18. ASSUME NEW c \in Commands, CancelReload(c) PROVE Written'
  BY <1>18 DEF CancelReload, Remember, Goto, files
<1>19. ASSUME NEW c \in Commands, CancelSettle(c) PROVE Written'
  BY <1>19 DEF CancelSettle, Return, Goto, Remember, files
<1>20. ASSUME NEW c \in Commands, RecoverOpen(c) PROVE Written'
  BY <1>20 DEF RecoverOpen, Goto, Return, Remember, files
<1>21. ASSUME NEW c \in Commands, Load(c, "recover-load", "recover-check") PROVE Written'
  BY <1>21 DEF Load, Remember, Goto, files
<1>22. ASSUME NEW c \in Commands, RecoverFinish(c) PROVE Written'
  <2>1. mem[c].status = "WorktreeRecoveryRequired" /\ UNCHANGED <<session, mem, prepared>>
    BY <1>22 DEF RecoverFinish
  <2>2. /\ pc' = [pc EXCEPT ![c] = pc'[c]] /\ pc'[c] \in {"recover-write", "recover-save"}
        /\ pc'[c] = "recover-write" => checkpoint'
    BY <1>22 DEF RecoverFinish, Goto
  <2>3. checkpoint => checkpoint'
    BY <1>22, Zenon DEF RecoverFinish, TypeOK
  <2> QED
    BY <2>1, <2>2, <2>3
<1>23. ASSUME NEW c \in Commands, RecoverWrite(c) PROVE Written'
  BY <1>23 DEF RecoverWrite, Remember, Goto
<1>24. ASSUME NEW c \in Commands, RecoverSave(c) PROVE Written'
  BY <1>24 DEF RecoverSave, Return, Goto, Remember, files
<1>25. ASSUME NEW c \in Commands, Admit(c, "close", "close-check", "open") PROVE Written'
  BY <1>25 DEF Admit, Goto, files
<1>26. ASSUME NEW c \in Commands, CloseAppend(c) PROVE Written'
  BY <1>26 DEF CloseAppend, Return, Goto, Remember, files
<1>27. ASSUME NEW c \in Commands, Admit(c, "gc", "gc-check", "closed") PROVE Written'
  BY <1>27 DEF Admit, Goto, files
<1>28. ASSUME NEW c \in Commands, GcCheck(c) PROVE Written'
  BY <1>28 DEF GcCheck, Goto, files
<1>29. ASSUME NEW c \in Commands, GcWorktree(c) PROVE Written'
  BY <1>29 DEF GcWorktree, Goto, files
<1>30. ASSUME NEW c \in Commands, GcFiles(c) PROVE Written'
  BY <1>30, Zenon DEF GcFiles, Placed, GcSteps
<1>31. ASSUME NEW c \in Commands, GcAppend(c) PROVE Written'
  BY <1>31 DEF GcAppend, Return, Goto, Remember, files
<1>32. ASSUME NEW c \in Commands, Spawn(c) PROVE Written'
  BY <1>32 DEF Spawn, Remember, files
<1>33. ASSUME NEW e \in Executors, ExecLoad(e) PROVE Written'
  BY <1>33 DEF ExecLoad, Remember, Goto, files
<1>34. ASSUME NEW e \in Executors, ExecBegin(e) PROVE Written'
  BY <1>34 DEF ExecBegin, Goto, Remember, files
<1>35. ASSUME NEW e \in Executors, ExecAdd(e) PROVE Written'
  BY <1>35 DEF ExecAdd, Prepare, Goto
<1>36. ASSUME NEW e \in Executors, ExecCommit(e) PROVE Written'
  BY <1>36 DEF ExecCommit, Prepare, Goto
<1>37. ASSUME NEW e \in Executors, ExecCheckpoint(e) PROVE Written'
  BY <1>37 DEF ExecCheckpoint, Goto
<1>38. ASSUME NEW e \in Executors, ExecFinish(e) PROVE Written'
  BY <1>38 DEF ExecFinish, Prepare, Goto, files
<1>39. ASSUME NEW e \in Executors, ExecWrite(e) PROVE Written'
  BY <1>39 DEF ExecWrite, Goto
<1>40. ASSUME NEW e \in Executors, ExecReload(e) PROVE Written'
  BY <1>40 DEF ExecReload, Remember, Goto, files
<1>41. ASSUME NEW e \in Executors, ExecSave(e) PROVE Written'
  BY <1>41 DEF ExecSave, Goto, Remember, files
<1>42. ASSUME NEW e \in Executors, ExecFails(e) PROVE Written'
  BY <1>42 DEF ExecFails, Goto, files
<1>43. ASSUME NEW e \in Executors, ExecError(e) PROVE Written'
  BY <1>43 DEF ExecError, Remember, Goto, files
<1>44. ASSUME NEW e \in Executors, ExecReport(e) PROVE Written'
  BY <1>44 DEF ExecReport, Goto, Remember, files
<1>45. ASSUME NEW p \in Procs, Crash(p) PROVE Written'
  BY <1>45 DEF Crash, Goto, Remember, files
<1>46. CASE UNCHANGED vars
  BY <1>46 DEF vars, files
<1> QED
  BY StepCases, <1>1, <1>2, <1>3, <1>4, <1>5, <1>6, <1>7, <1>8, <1>9, <1>10, <1>11,
     <1>12,
       <1>13, <1>14, <1>15, <1>16, <1>17, <1>18, <1>19, <1>20, <1>21, <1>22, <1>23,
       <1>24,
       <1>25, <1>26, <1>27, <1>28, <1>29, <1>30, <1>31, <1>32, <1>33, <1>34, <1>35,
       <1>36,
       <1>37, <1>38, <1>39, <1>40, <1>41, <1>42, <1>43, <1>44, <1>45, <1>46, Zenon DEF
       Acts, Execute

\* Every step keeps a ready run's authority on disk.
LEMMA ReadyStep ==
  ASSUME Inv, [Next]_vars, ResumeOrCancel \/ "gc" \notin usage
  PROVE  ReadyMeansPrepared'
<1> USE TaskRunAssumption
<1>a. /\ TypeOK /\ Placed /\ Written /\ ReadyMeansPrepared /\ ClosedMeansInactive
      /\ \A p \in Procs : CopyOK(p)
  BY DEF Inv
<1>b. /\ Commands \subseteq Procs /\ Executors \subseteq Procs
      /\ rec.status \in Statuses \cup {"absent"} /\ ReadyStatuses \subseteq ActiveStatuses
  BY <1>a DEF Procs, TypeOK, Records, ActiveStatuses
<1>c. rec.status \in ActiveStatuses => Kept
  BY <1>a DEF ClosedMeansInactive, Kept
<1>1. ASSUME NEW c \in Commands, GcFiles(c) PROVE rec'.status \notin ReadyStatuses
  BY <1>a, <1>b, <1>c, <1>1 DEF GcFiles, Placed, GcSteps, Kept
<1>2. CASE rec' = rec
  BY <1>1, <1>2, <1>a, FilesFrame DEF ReadyMeansPrepared
<1>3. ASSUME NEW c \in Commands, RecoverSave(c) PROVE ReadyMeansPrepared'
  <2>1. /\ rec'.status = mem[c].status /\ rec'.commit = mem[c].commit
        /\ rec'.prepared = mem[c].prepared /\ checkpoint' = checkpoint /\ prepared' = prepared
        /\ mem[c].status \in Successors(rec.status) \cup {rec.status}
    BY <1>a, <1>b, <1>3, SavedRecord, Zenon DEF RecoverSave, files
  <2>2. mem[c].status \in ReadyStatuses => mem[c].commit /\ mem[c].prepared
    BY <1>a, <1>b, <1>3, Zenon DEF RecoverSave, CopyOK
  <2>3. mem[c].status \in ReadyStatuses => checkpoint /\ prepared
    BY <1>a, <1>b, <1>c, <1>3, <2>1, LegalChange, Zenon DEF RecoverSave, Written
  <2> QED
    BY <2>1, <2>2, <2>3 DEF ReadyMeansPrepared
<1>4. ASSUME NEW e \in Executors, ExecSave(e), rec' # rec PROVE ReadyMeansPrepared'
  <2>1. /\ rec'.status = mem[e].status /\ rec'.commit = mem[e].commit
        /\ rec'.prepared = mem[e].prepared /\ checkpoint' = checkpoint /\ prepared' = prepared
        /\ mem[e].status \in Successors(rec.status) \cup {rec.status}
    BY <1>a, <1>b, <1>4, SavedRecord, Zenon DEF ExecSave, files
  <2>2. mem[e].commit /\ mem[e].prepared
    BY <1>a, <1>b, <1>4, Zenon DEF ExecSave, CopyOK
  <2>3. mem[e].status \in ReadyStatuses => checkpoint /\ prepared
    BY <1>a, <1>b, <1>c, <1>4, <2>1, LegalChange, Zenon DEF ExecSave, Written
  <2> QED
    BY <2>1, <2>2, <2>3, Zenon DEF ReadyMeansPrepared
<1>5. ASSUME NEW c \in Commands,
             StartGenesis(c) \/ ResumeSave(c) \/ CancelSave(c) \/ CancelSettle(c)
      PROVE  rec'.status \notin ReadyStatuses
  BY <1>a, <1>b, <1>5, SavedRecord, FirstRecords, Zenon
     DEF StartGenesis, ResumeSave, CancelSave, CancelSettle, CopyOK, ReadyStatuses
<1>6. ASSUME NEW e \in Executors, ExecBegin(e) \/ ExecReport(e), rec' # rec
      PROVE  rec'.status \notin ReadyStatuses
  BY <1>a, <1>b, <1>6, SavedRecord, Zenon DEF ExecBegin, ExecReport, CopyOK,
     ReadyStatuses
<1>7. rec'.status \notin ReadyStatuses => ReadyMeansPrepared'
  BY DEF ReadyMeansPrepared
<1> QED
  BY <1>2, <1>3, <1>4, <1>5, <1>6, <1>7, LedgerFrame

\* A session without runs.
LEMMA InitInv == Init => Inv
<1> USE TaskRunAssumption, FirstRecords
<1> SUFFICES ASSUME Init PROVE Inv
  OBVIOUS
<1>1. /\ \A c \in Commands : c \in Procs /\ pc[c] = "idle"
      /\ \A e \in Executors : e \in Procs /\ pc[e] = "unborn"
      /\ \A p \in Procs : pc[p] \in {"idle", "unborn"} /\ mem[p] = NoRecord
      /\ rec = NoRecord /\ session = "open" /\ ~reference
  BY DEF Init, Procs
<1>2. TypeOK
  BY <1>1, Zenon DEF Init, TypeOK, Labels, ExecutorLabels
<1>3. Placed
  BY <1>1 DEF Placed, Labels, ExecutorLabels, ResumeSteps, CancelSteps, GcSteps,
     OpenSteps
<1>4. Born /\ \A p \in Procs : CopyOK(p)
  <2>1. Born
    BY <1>1, Zenon DEF Born
  <2>2. ASSUME NEW p \in Procs PROVE CopyOK(p)
    <3>1. pc[p] \in {"idle", "unborn"} /\ mem[p].seq <= rec.seq
      BY <1>1
    <3> QED
      BY <3>1 DEF CopyOK
  <2> QED
    BY <2>1, <2>2
<1>5. Claimed /\ OneExecutor
  BY <1>1 DEF Claimed, OneExecutor, Working, Alive
<1>6. Written
  BY <1>1 DEF Written
<1>7. ClosedMeansInactive /\ ReadyMeansPrepared
  BY <1>1 DEF ClosedMeansInactive, ReadyMeansPrepared, ReadyStatuses
<1> QED
  BY <1>2, <1>3, <1>4, <1>5, <1>6, <1>7 DEF Inv

\* The inductive invariant holds throughout.
LEMMA Invariance == Spec => []Inv
<1>1. Inv /\ [Next]_vars => Inv'
  <2> SUFFICES ASSUME Inv, [Next]_vars PROVE Inv'
    OBVIOUS
  <2>1. usage' = usage
    BY Aging
  <2>2. ResumeOrCancel' = ResumeOrCancel
    BY <2>1 DEF ResumeOrCancel
  <2>3. OneExecutor'
    BY <2>2, ClaimStep DEF OneExecutor
  <2>4. ReadyMeansPrepared'
    <3>1. CASE ResumeOrCancel \/ "gc" \notin usage
      BY <3>1, ReadyStep
    <3>2. CASE ~(ResumeOrCancel \/ "gc" \notin usage)
      BY <2>1, <2>2, <3>2 DEF ReadyMeansPrepared
    <3> QED
      BY <3>1, <3>2
  <2> QED
    BY <2>1, <2>2, <2>3, <2>4, TypeStep, PlacedStep, BornStep, CopyStep, ClaimStep,
       WrittenStep, ClosedStep DEF Inv
<1> QED
  BY <1>1, InitInv, PTL DEF Spec

-----------------------------------------------------------------------------
(* The theorems.                                                           *)

\* Type correctness, and the discipline of the lifecycle lock: one command at a time is
\* between admission and return, for any number of commands and executors.
THEOREM TypeCorrect == Spec => []TypeOK
<1>1. Inv => TypeOK
  BY DEF Inv
<1> QED
  BY <1>1, Invariance, PTL

\* At most one executor works on a run, however many are spawned by start and resume,
\* where resume and cancel are not both used.
THEOREM SingleExecutor == Spec => []OneExecutor
<1>1. Inv => OneExecutor
  BY DEF Inv
<1> QED
  BY <1>1, Invariance, PTL

\* Once a session is closed no run of it is, or becomes, active, where resume and cancel
\* are not both used (open_admission, transition_session_terminal).
THEOREM ClosedStaysInactive == Spec => []ClosedMeansInactive
<1>1. Inv => ClosedMeansInactive
  BY DEF Inv
<1> QED
  BY <1>1, Invariance, PTL

\* A run that may be published has its whole authority on disk, where resume, cancel and
\* gc are not all used: for any number of commands and executors that race and die.
THEOREM ReadyIsPrepared == Spec => []ReadyMeansPrepared
<1>1. Inv => ReadyMeansPrepared
  BY DEF Inv
<1> QED
  BY <1>1, Invariance, PTL
=============================================================================
