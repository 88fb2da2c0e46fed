------------------------ MODULE RunPublicationProofs ------------------------
(* Theorems about RunPublication, for every number of concurrent commands. *)
EXTENDS RunPublication, TLAPS

-----------------------------------------------------------------------------
(* What holds besides the properties themselves.                           *)

\* A branch that a transaction holds is where the session found it.
Transaction == \A c \in Commands : pc[c] \in {"sync", "commit"} => ref = "base"

\* How far a command got says what has happened.
Progress ==
  /\ ref = "candidate" => moved
  /\ \A c \in Commands :
       /\ pc[c] \in {"index", "verify"} => moved
       /\ pc[c] = "verify" => index
       /\ pc[c] \in {"release", "finish"} /\ error[c] = "none" => moved /\ index

\* A copy of the record is the record, or older.
Copies ==
  \A c \in Commands :
    /\ mem[c].seq <= rec.seq
    /\ mem[c].seq = rec.seq => mem[c] = rec

\* An approval is not taken back, and nobody goes on without.
Approved ==
  \A c \in Commands :
    /\ mem[c].approval /\ Conditional => rec.approval
    /\ pc[c] \in Locked \cup {"lock"} => mem[c].approval = Conditional

\* The inductive invariant.
Inv ==
  /\ TypeOK /\ Transaction /\ Progress /\ Copies /\ Approved
  /\ PublishedMeansMoved /\ ApprovalFirst

-----------------------------------------------------------------------------
(* The steps.                                                              *)

\* A record that is saved with another status is the next of the ledger, and carries the
\* approval along (RunLedger).
LEMMA AppendedRecord ==
  ASSUME NEW r \in Records, NEW s \in Statuses, NEW a, a = Appended([r EXCEPT !.status = s])
  PROVE  /\ a \in Records
         /\ a.seq = r.seq + 1 /\ a.status = s /\ a.approval = r.approval
<1>1. /\ r = [seq |-> r.seq, status |-> r.status, commit |-> r.commit, approval |-> r.approval]
      /\ r.seq \in Nat \ {0} /\ r.commit \in {TRUE} /\ r.approval \in BOOLEAN
  BY DEF Records
<1>2. a = [seq |-> r.seq + 1, status |-> s, commit |-> r.commit, approval |-> r.approval]
  BY <1>1 DEF Appended
<1>3. r.seq + 1 \in Nat \ {0}
  BY <1>1
<1>4. a.seq = r.seq + 1 /\ a.status = s /\ a.approval = r.approval
  BY <1>2
<1>5. [seq |-> r.seq + 1, status |-> s, commit |-> r.commit, approval |-> r.approval] \in Records
  BY <1>1, <1>3 DEF Records
<1> QED
  BY <1>2, <1>4, <1>5

\* Setting the approval leaves the rest of a record alone (publish_task_run).
LEMMA MarkedRecord ==
  ASSUME NEW r \in Records, NEW b \in BOOLEAN
  PROVE  /\ [r EXCEPT !.approval = b] \in Records
         /\ [r EXCEPT !.approval = b].seq = r.seq /\ [r EXCEPT !.approval = b].approval = b
  BY DEF Records

\* What publish, cancel and resume write are statuses.
LEMMA SomeStatuses ==
  {"Publishing", "Cancelled", "WorktreeRecoveryRequired"} \subseteq Statuses
  BY DEF Statuses

\* Whether a candidate needs an approval is settled when the run is made.
LEMMA ConditionalType == ASSUME TypeOK PROVE Conditional \in BOOLEAN
  BY PublicationAssumption DEF TypeOK, Conditional

\* publish_task_run appends one record, Publishing, approved if that is needed.
LEMMA MarkedRun ==
  ASSUME TypeOK, NEW c \in Commands, Publish(c)
  PROVE  /\ rec'.seq = rec.seq + 1 /\ rec'.status = "Publishing"
         /\ rec'.approval = Conditional
<1>1. PICK q \in Records :
        /\ q.seq = rec.seq /\ q.approval = Conditional
        /\ rec' = Appended([q EXCEPT !.status = "Publishing"])
  <2> DEFINE q == [rec EXCEPT !.approval = Conditional]
  <2>1. q \in Records /\ q.seq = rec.seq /\ q.approval = Conditional
    BY MarkedRecord, ConditionalType DEF TypeOK
  <2>2. rec' = Appended([q EXCEPT !.status = "Publishing"])
    BY DEF Publish, Saved
  <2> HIDE DEF q
  <2> QED
    BY <2>1, <2>2
<1> QED
  BY <1>1, AppendedRecord, SomeStatuses

\* A result is a status, and is a success only without an error.
LEMMA ResultStatus ==
  ASSUME NEW c \in Commands
  PROVE  /\ Result(c) \in Statuses
         /\ Result(c) \in PublishedStatuses => error[c] = "none"
  BY DEF Result, Statuses, PublishedStatuses, PublishedStatus, ReadyStatus

\* Every step keeps the shapes and the discipline of the two locks.
LEMMA TypeStep ==
  ASSUME Inv, [Next]_vars
  PROVE  TypeOK'
<1> USE PublicationAssumption
<1> TypeOK
  BY DEF Inv
<1> USE DEF TypeOK, Locked, Oids
<1>1. ASSUME NEW c \in Commands, Publish(c) PROVE TypeOK'
  <2>1. rec' \in Records
    <3>1. [rec EXCEPT !.approval = Conditional] \in Records
      BY MarkedRecord, ConditionalType
    <3> QED
      BY <1>1, <3>1, AppendedRecord, SomeStatuses DEF Publish, Saved
  <2> QED
    BY <1>1, <2>1 DEF Publish, Goto, git
<1>2. ASSUME NEW c \in Commands, Recover(c) PROVE TypeOK'
  BY <1>2 DEF Recover, Goto, git
<1>3. ASSUME NEW c \in Commands, Cancel(c) PROVE TypeOK'
  <2>1. rec' \in Records
    BY <1>3, AppendedRecord, SomeStatuses DEF Cancel, Saved
  <2> QED
    BY <1>3, <2>1 DEF Cancel, git
<1>4. ASSUME NEW c \in Commands, Resume(c) PROVE TypeOK'
  <2>1. rec' \in Records
    BY <1>4, AppendedRecord, SomeStatuses DEF Resume, Saved
  <2> QED
    BY <1>4, <2>1 DEF Resume, git
<1>5. ASSUME NEW c \in Commands, Approve(c) PROVE TypeOK'
  BY <1>5 DEF Approve, Goto, Fail, git
<1>6. ASSUME NEW c \in Commands, Lock(c) PROVE TypeOK'
  BY <1>6 DEF Lock, Goto, git
<1>7. ASSUME NEW c \in Commands, Read(c) PROVE TypeOK'
  BY <1>7 DEF Read, Goto, git
<1>8. ASSUME NEW c \in Commands, Worktrees(c) PROVE TypeOK'
  BY <1>8 DEF Worktrees, Goto, Fail, git
<1>9. ASSUME NEW c \in Commands, AlreadyMoved(c) PROVE TypeOK'
  BY <1>9 DEF AlreadyMoved, Goto, Fail, git
<1>10. ASSUME NEW c \in Commands, NotOurs(c) PROVE TypeOK'
  BY <1>10 DEF NotOurs, Fail, Goto, git
<1>11. ASSUME NEW c \in Commands, ToMove(c) PROVE TypeOK'
  BY <1>11 DEF ToMove, Goto, Fail, git
<1>12. ASSUME NEW c \in Commands, Prepare(c) PROVE TypeOK'
  BY <1>12 DEF Prepare, Goto, Fail
<1>13. ASSUME NEW c \in Commands, Sync(c) PROVE TypeOK'
  BY <1>13 DEF Sync, Goto
<1>14. ASSUME NEW c \in Commands, SyncFails(c) PROVE TypeOK'
  BY <1>14 DEF SyncFails, Fail, Goto
<1>15. ASSUME NEW c \in Commands, Commit(c) PROVE TypeOK'
  BY <1>15 DEF Commit, Goto, Fail
<1>16. ASSUME NEW c \in Commands, CommitFails(c) PROVE TypeOK'
  BY <1>16 DEF CommitFails, Goto
<1>17. ASSUME NEW c \in Commands, Reconcile(c) PROVE TypeOK'
  BY <1>17 DEF Reconcile, Fail, Goto
<1>18. ASSUME NEW c \in Commands, Confirm(c) PROVE TypeOK'
  BY <1>18 DEF Confirm, Goto, Fail, git
<1>19. ASSUME NEW c \in Commands, PublishIndex(c) PROVE TypeOK'
  <2>1. index' \in BOOLEAN
    BY <1>19 DEF PublishIndex
  <2> QED
    BY <1>19, <2>1 DEF PublishIndex, Goto, Fail, git
<1>20. ASSUME NEW c \in Commands, Verify(c) PROVE TypeOK'
  BY <1>20 DEF Verify, Fail, Goto, git
<1>21. ASSUME NEW c \in Commands, Release(c) PROVE TypeOK'
  BY <1>21 DEF Release, Goto, git
<1>22. ASSUME NEW c \in Commands, Finish(c) PROVE TypeOK'
  <2>1. rec' \in Records
    BY <1>22, AppendedRecord, ResultStatus DEF Finish, Saved
  <2> QED
    BY <1>22, <2>1 DEF Finish, Goto, git
<1>23. ASSUME NEW c \in Commands, Crash(c) PROVE TypeOK'
  BY <1>23 DEF Crash, Goto
<1>24. CASE UserCommit
  BY <1>24 DEF UserCommit
<1>25. CASE UserEdit
  BY <1>25 DEF UserEdit
<1>26. CASE UserRestore
  BY <1>26 DEF UserRestore
<1>27. CASE UNCHANGED vars
  BY <1>27 DEF vars, git
<1> QED
  BY <1>1, <1>2, <1>3, <1>4, <1>5, <1>6, <1>7, <1>8, <1>9, <1>10, <1>11, <1>12, <1>13, <1>14,
       <1>15, <1>16, <1>17, <1>18, <1>19, <1>20, <1>21, <1>22, <1>23, <1>24, <1>25, <1>26, <1>27
       DEF Next, Work, User

\* Every step keeps what the ref transaction and the progress of a command promise.
LEMMA GitStep ==
  ASSUME Inv, [Next]_vars
  PROVE  Transaction' /\ Progress'
<1> USE PublicationAssumption
<1>a. TypeOK /\ Transaction /\ Progress
  BY DEF Inv
<1> USE <1>a DEF TypeOK, Transaction, Progress, Locked
<1>1. ASSUME NEW c \in Commands, Publish(c) PROVE Transaction' /\ Progress'
  BY <1>1 DEF Publish, Goto, git
<1>2. ASSUME NEW c \in Commands, Recover(c) PROVE Transaction' /\ Progress'
  BY <1>2 DEF Recover, Goto, git
<1>3. ASSUME NEW c \in Commands, Cancel(c) PROVE Transaction' /\ Progress'
  BY <1>3 DEF Cancel, git
<1>4. ASSUME NEW c \in Commands, Resume(c) PROVE Transaction' /\ Progress'
  BY <1>4 DEF Resume, git
<1>5. ASSUME NEW c \in Commands, Approve(c) PROVE Transaction' /\ Progress'
  BY <1>5 DEF Approve, Goto, Fail, git
<1>6. ASSUME NEW c \in Commands, Lock(c) PROVE Transaction' /\ Progress'
  BY <1>6 DEF Lock, Goto, git
<1>7. ASSUME NEW c \in Commands, Read(c) PROVE Transaction' /\ Progress'
  BY <1>7 DEF Read, Goto, git
<1>8. ASSUME NEW c \in Commands, Worktrees(c) PROVE Transaction' /\ Progress'
  BY <1>8 DEF Worktrees, Goto, Fail, git
<1>9. ASSUME NEW c \in Commands, AlreadyMoved(c) PROVE Transaction' /\ Progress'
  BY <1>9 DEF AlreadyMoved, Goto, Fail, git
<1>10. ASSUME NEW c \in Commands, NotOurs(c) PROVE Transaction' /\ Progress'
  BY <1>10 DEF NotOurs, Fail, Goto, git
<1>11. ASSUME NEW c \in Commands, ToMove(c) PROVE Transaction' /\ Progress'
  BY <1>11 DEF ToMove, Goto, Fail, git
<1>12. ASSUME NEW c \in Commands, Prepare(c) PROVE Transaction' /\ Progress'
  BY <1>12 DEF Prepare, Goto, Fail
<1>13. ASSUME NEW c \in Commands, Sync(c) PROVE Transaction' /\ Progress'
  BY <1>13 DEF Sync, Goto
<1>14. ASSUME NEW c \in Commands, SyncFails(c) PROVE Transaction' /\ Progress'
  BY <1>14 DEF SyncFails, Fail, Goto
<1>15. ASSUME NEW c \in Commands, Commit(c) PROVE Transaction' /\ Progress'
  BY <1>15 DEF Commit, Goto, Fail
<1>16. ASSUME NEW c \in Commands, CommitFails(c) PROVE Transaction' /\ Progress'
  BY <1>16 DEF CommitFails, Goto
<1>17. ASSUME NEW c \in Commands, Reconcile(c) PROVE Transaction' /\ Progress'
  BY <1>17 DEF Reconcile, Fail, Goto
<1>18. ASSUME NEW c \in Commands, Confirm(c) PROVE Transaction' /\ Progress'
  BY <1>18 DEF Confirm, Goto, Fail, git
<1>19. ASSUME NEW c \in Commands, PublishIndex(c) PROVE Transaction' /\ Progress'
  BY <1>19 DEF PublishIndex, Goto, Fail, git
<1>20. ASSUME NEW c \in Commands, Verify(c) PROVE Transaction' /\ Progress'
  BY <1>20 DEF Verify, Fail, Goto, git
<1>21. ASSUME NEW c \in Commands, Release(c) PROVE Transaction' /\ Progress'
  BY <1>21 DEF Release, Goto, git
<1>22. ASSUME NEW c \in Commands, Finish(c) PROVE Transaction' /\ Progress'
  BY <1>22 DEF Finish, Goto, git
<1>23. ASSUME NEW c \in Commands, Crash(c) PROVE Transaction' /\ Progress'
  BY <1>23 DEF Crash, Goto
<1>24. CASE UserCommit
  BY <1>24 DEF UserCommit
<1>25. CASE UserEdit
  BY <1>25 DEF UserEdit
<1>26. CASE UserRestore
  BY <1>26 DEF UserRestore
<1>27. CASE UNCHANGED vars
  BY <1>27 DEF vars, git
<1> QED
  BY <1>1, <1>2, <1>3, <1>4, <1>5, <1>6, <1>7, <1>8, <1>9, <1>10, <1>11, <1>12, <1>13, <1>14,
       <1>15, <1>16, <1>17, <1>18, <1>19, <1>20, <1>21, <1>22, <1>23, <1>24, <1>25, <1>26, <1>27
       DEF Next, Work, User

\* Five steps touch the ledger or a copy of its record.
LEMMA LedgerFrame ==
  ASSUME [Next]_vars
  PROVE  \/ UNCHANGED <<setting, rec, mem>>
         \/ \E c \in Commands : Publish(c) \/ Recover(c) \/ Cancel(c) \/ Resume(c) \/ Finish(c)
  BY DEF Next, Work, User, vars, Approve, Lock, Read, Worktrees, AlreadyMoved, NotOurs, ToMove,
       Prepare, Sync, SyncFails, Commit, CommitFails, Reconcile, Confirm, PublishIndex, Verify,
       Release, Crash, UserCommit, UserEdit, UserRestore

\* Every step leaves the copies of the record current or older: what is appended has a
\* sequence number that no copy has, but its writer's.
LEMMA CopiesStep ==
  ASSUME Inv, [Next]_vars
  PROVE  Copies'
<1>a. /\ rec \in Records /\ mem \in [Commands -> Records] /\ Copies
  BY DEF Inv, TypeOK
<1>b. rec.seq \in Nat /\ \A d \in Commands : mem[d].seq \in Nat
  BY <1>a DEF Records
<1> USE <1>a, <1>b DEF Copies
<1>1. ASSUME NEW c \in Commands, Publish(c) PROVE Copies'
  <2>1. rec'.seq = rec.seq + 1
    BY <1>1, MarkedRun DEF Inv
  <2>2. mem' = [mem EXCEPT ![c] = rec']
    BY <1>1 DEF Publish
  <2> QED
    BY <2>1, <2>2
<1>2. ASSUME NEW c \in Commands, Recover(c) PROVE Copies'
  BY <1>2 DEF Recover, Records
<1>3. ASSUME NEW c \in Commands, Cancel(c) PROVE Copies'
  <2>1. rec'.seq = rec.seq + 1 /\ mem' = mem
    BY <1>3, AppendedRecord, SomeStatuses DEF Cancel, Saved
  <2> QED
    BY <2>1
<1>4. ASSUME NEW c \in Commands, Resume(c) PROVE Copies'
  <2>1. rec'.seq = rec.seq + 1 /\ mem' = mem
    BY <1>4, AppendedRecord, SomeStatuses DEF Resume, Saved
  <2> QED
    BY <2>1
<1>5. ASSUME NEW c \in Commands, Finish(c) PROVE Copies'
  <2>1. mem' = mem
    BY <1>5 DEF Finish
  <2>2. CASE rec' = rec
    BY <2>1, <2>2
  <2>3. CASE Saved(mem[c], Result(c))
    <3>1. rec'.seq = mem[c].seq + 1
      BY <2>3, AppendedRecord, ResultStatus DEF Saved
    <3>2. mem[c].seq = rec.seq
      BY <2>3 DEF Saved, CanSave, UpToDate, Records
    <3> QED
      BY <2>1, <3>1, <3>2
  <2> QED
    BY <1>5, <2>2, <2>3 DEF Finish
<1>6. CASE UNCHANGED <<setting, rec, mem>>
  BY <1>6
<1> QED
  BY LedgerFrame, <1>1, <1>2, <1>3, <1>4, <1>5, <1>6

\* No step takes an approval back: a result is saved from a copy only if the copy is the
\* record itself (the compare-and-append of the run ledger).
LEMMA ApprovalKept ==
  ASSUME Inv, [Next]_vars
  PROVE  setting' = setting /\ (Conditional /\ rec.approval => rec'.approval)
<1> DEFINE Stands == setting' = setting /\ (Conditional /\ rec.approval => rec'.approval)
<1>a. TypeOK /\ rec \in Records /\ mem \in [Commands -> Records] /\ Copies
  BY DEF Inv, TypeOK
<1> USE <1>a
<1>1. ASSUME NEW c \in Commands, Publish(c) PROVE Stands
  <2>1. rec'.approval = Conditional
    BY <1>1, MarkedRun
  <2> QED
    BY <1>1, <2>1 DEF Publish
<1>2. ASSUME NEW c \in Commands, Recover(c) PROVE Stands
  BY <1>2 DEF Recover, Goto, git
<1>3. ASSUME NEW c \in Commands, Cancel(c) PROVE Stands
  <2>1. rec'.approval = rec.approval
    BY <1>3, AppendedRecord, SomeStatuses DEF Cancel, Saved
  <2> QED
    BY <1>3, <2>1 DEF Cancel
<1>4. ASSUME NEW c \in Commands, Resume(c) PROVE Stands
  <2>1. rec'.approval = rec.approval
    BY <1>4, AppendedRecord, SomeStatuses DEF Resume, Saved
  <2> QED
    BY <1>4, <2>1 DEF Resume
<1>5. ASSUME NEW c \in Commands, Finish(c) PROVE Stands
  <2>1. CASE rec' = rec
    BY <1>5, <2>1 DEF Finish
  <2>2. CASE Saved(mem[c], Result(c))
    <3>1. rec'.approval = mem[c].approval
      BY <2>2, AppendedRecord, ResultStatus DEF Saved
    <3>2. mem[c] = rec
      <4>1. mem[c].seq = rec.seq
        BY <2>2 DEF Saved, CanSave, UpToDate, Records
      <4> QED
        BY <4>1 DEF Copies
    <3> QED
      BY <1>5, <3>1, <3>2 DEF Finish
  <2> QED
    BY <1>5, <2>1, <2>2 DEF Finish
<1>6. CASE UNCHANGED <<setting, rec, mem>>
  BY <1>6
<1> QED
  BY LedgerFrame, <1>1, <1>2, <1>3, <1>4, <1>5, <1>6

\* Every step keeps: no command is past its check of the approval without one.
LEMMA ApprovedStep ==
  ASSUME Inv, [Next]_vars
  PROVE  Approved'
<1>a. /\ setting' = setting /\ (Conditional /\ rec.approval => rec'.approval)
      /\ Conditional' = Conditional
  BY ApprovalKept DEF Conditional
<1>b. TypeOK /\ Approved /\ Conditional \in BOOLEAN
  BY ConditionalType DEF Inv
<1> USE <1>a, <1>b DEF TypeOK, Approved, Locked
<1>1. ASSUME NEW c \in Commands, Publish(c) PROVE Approved'
  <2>1. mem' = [mem EXCEPT ![c] = rec'] /\ pc' = [pc EXCEPT ![c] = "approve"]
    BY <1>1 DEF Publish, Goto
  <2> QED
    BY <2>1
<1>2. ASSUME NEW c \in Commands, Recover(c) PROVE Approved'
  BY <1>2 DEF Recover, Goto, git
<1>3. ASSUME NEW c \in Commands, Cancel(c) PROVE Approved'
  BY <1>3 DEF Cancel, git
<1>4. ASSUME NEW c \in Commands, Resume(c) PROVE Approved'
  BY <1>4 DEF Resume, git
<1>5. ASSUME NEW c \in Commands, Approve(c) PROVE Approved'
  BY <1>5 DEF Approve, Goto, Fail, git
<1>6. ASSUME NEW c \in Commands, Lock(c) PROVE Approved'
  BY <1>6 DEF Lock, Goto, git
<1>7. ASSUME NEW c \in Commands, Read(c) PROVE Approved'
  BY <1>7 DEF Read, Goto, git
<1>8. ASSUME NEW c \in Commands, Worktrees(c) PROVE Approved'
  BY <1>8 DEF Worktrees, Goto, Fail, git
<1>9. ASSUME NEW c \in Commands, AlreadyMoved(c) PROVE Approved'
  BY <1>9 DEF AlreadyMoved, Goto, Fail, git
<1>10. ASSUME NEW c \in Commands, NotOurs(c) PROVE Approved'
  BY <1>10 DEF NotOurs, Fail, Goto, git
<1>11. ASSUME NEW c \in Commands, ToMove(c) PROVE Approved'
  BY <1>11 DEF ToMove, Goto, Fail, git
<1>12. ASSUME NEW c \in Commands, Prepare(c) PROVE Approved'
  BY <1>12 DEF Prepare, Goto, Fail
<1>13. ASSUME NEW c \in Commands, Sync(c) PROVE Approved'
  BY <1>13 DEF Sync, Goto
<1>14. ASSUME NEW c \in Commands, SyncFails(c) PROVE Approved'
  BY <1>14 DEF SyncFails, Fail, Goto
<1>15. ASSUME NEW c \in Commands, Commit(c) PROVE Approved'
  BY <1>15 DEF Commit, Goto, Fail
<1>16. ASSUME NEW c \in Commands, CommitFails(c) PROVE Approved'
  BY <1>16 DEF CommitFails, Goto
<1>17. ASSUME NEW c \in Commands, Reconcile(c) PROVE Approved'
  BY <1>17 DEF Reconcile, Fail, Goto
<1>18. ASSUME NEW c \in Commands, Confirm(c) PROVE Approved'
  BY <1>18 DEF Confirm, Goto, Fail, git
<1>19. ASSUME NEW c \in Commands, PublishIndex(c) PROVE Approved'
  BY <1>19 DEF PublishIndex, Goto, Fail, git
<1>20. ASSUME NEW c \in Commands, Verify(c) PROVE Approved'
  BY <1>20 DEF Verify, Fail, Goto, git
<1>21. ASSUME NEW c \in Commands, Release(c) PROVE Approved'
  BY <1>21 DEF Release, Goto, git
<1>22. ASSUME NEW c \in Commands, Finish(c) PROVE Approved'
  BY <1>22 DEF Finish, Goto, git
<1>23. ASSUME NEW c \in Commands, Crash(c) PROVE Approved'
  BY <1>23 DEF Crash, Goto
<1>24. CASE UserCommit
  BY <1>24 DEF UserCommit
<1>25. CASE UserEdit
  BY <1>25 DEF UserEdit
<1>26. CASE UserRestore
  BY <1>26 DEF UserRestore
<1>27. CASE UNCHANGED vars
  BY <1>27 DEF vars, git
<1> QED
  BY <1>1, <1>2, <1>3, <1>4, <1>5, <1>6, <1>7, <1>8, <1>9, <1>10, <1>11, <1>12, <1>13, <1>14,
       <1>15, <1>16, <1>17, <1>18, <1>19, <1>20, <1>21, <1>22, <1>23, <1>24, <1>25, <1>26, <1>27
       DEF Next, Work, User

\* Every step keeps: recorded as published, the branch has moved.
LEMMA PublishedStep ==
  ASSUME Inv, [Next]_vars
  PROVE  PublishedMeansMoved'
<1>a. TypeOK /\ rec \in Records /\ mem \in [Commands -> Records] /\ Progress /\ PublishedMeansMoved
  BY DEF Inv, TypeOK
<1>b. (moved' = moved \/ moved') /\ (index' = index \/ index')
  BY DEF Next, Work, User, vars, Publish, Recover, Cancel, Resume, Approve, Lock, Read,
       Worktrees, AlreadyMoved, NotOurs, ToMove, Prepare, Sync, SyncFails, Commit, CommitFails,
       Reconcile, Confirm, PublishIndex, Verify, Release, Finish, Crash, UserCommit, UserEdit,
       UserRestore, git
<1>c. (moved => moved') /\ (index => index')
  BY <1>b
<1> USE <1>a, <1>c DEF PublishedMeansMoved, PublishedStatuses
<1>1. ASSUME NEW c \in Commands, Publish(c) PROVE PublishedMeansMoved'
  <2>1. rec'.status = "Publishing"
    BY <1>1, MarkedRun
  <2> QED
    BY <2>1
<1>2. ASSUME NEW c \in Commands, Recover(c) PROVE PublishedMeansMoved'
  BY <1>2 DEF Recover
<1>3. ASSUME NEW c \in Commands, Cancel(c) PROVE PublishedMeansMoved'
  <2>1. rec'.status = "Cancelled"
    BY <1>3, AppendedRecord, SomeStatuses DEF Cancel, Saved
  <2> QED
    BY <2>1
<1>4. ASSUME NEW c \in Commands, Resume(c) PROVE PublishedMeansMoved'
  <2>1. rec'.status = "WorktreeRecoveryRequired"
    BY <1>4, AppendedRecord, SomeStatuses DEF Resume, Saved
  <2> QED
    BY <2>1
<1>5. ASSUME NEW c \in Commands, Finish(c) PROVE PublishedMeansMoved'
  <2>1. CASE rec' = rec
    BY <2>1
  <2>2. CASE Saved(mem[c], Result(c))
    <3>1. rec'.status = Result(c)
      BY <2>2, AppendedRecord, ResultStatus DEF Saved
    <3>2. error[c] = "none" => moved /\ index
      BY <1>5 DEF Finish, Progress
    <3> QED
      BY <3>1, <3>2, ResultStatus
  <2> QED
    BY <1>5, <2>1, <2>2 DEF Finish
<1>6. CASE UNCHANGED <<setting, rec, mem>>
  BY <1>6
<1> QED
  BY LedgerFrame, <1>1, <1>2, <1>3, <1>4, <1>5, <1>6

\* Every step keeps: moved, the candidate is approved.
LEMMA ApprovalFirstStep ==
  ASSUME Inv, [Next]_vars
  PROVE  ApprovalFirst'
<1>1. (Conditional /\ rec.approval => rec'.approval) /\ Conditional' = Conditional
  BY ApprovalKept DEF Conditional
<1>2. ASSUME NEW c \in Commands, Commit(c), Conditional PROVE rec.approval
  <2>1. pc[c] \in Locked \cup {"lock"}
    BY <1>2 DEF Commit, Locked
  <2>2. mem[c].approval = TRUE
    BY <1>2, <2>1, ConditionalType DEF Inv, Approved
  <2> QED
    BY <1>2, <2>2 DEF Inv, Approved
<1>3. moved' = moved \/ \E c \in Commands : Commit(c)
  BY DEF Next, Work, User, vars, Publish, Recover, Cancel, Resume, Approve, Lock, Read,
       Worktrees, AlreadyMoved, NotOurs, ToMove, Prepare, Sync, SyncFails, CommitFails,
       Reconcile, Confirm, PublishIndex, Verify, Release, Finish, Crash, UserCommit, UserEdit,
       UserRestore, git
<1> QED
  BY <1>1, <1>2, <1>3 DEF Inv, ApprovalFirst

\* A run that is ready to publish has not moved the branch.
LEMMA InitInv == Init => Inv
<1> USE PublicationAssumption
<1> SUFFICES ASSUME Init PROVE Inv
  OBVIOUS
<1>1. Conditional \in BOOLEAN /\ Genesis \in Records
  BY DEF Init, Conditional, Genesis, ReadyStatus, Records, Statuses
<1>2. TypeOK
  BY <1>1 DEF Init, TypeOK, Oids, Locked
<1>3. Transaction /\ Progress
  BY DEF Init, Transaction, Progress
<1>4. Copies /\ Approved
  BY <1>1 DEF Init, Copies, Approved, Genesis, Locked
<1>5. PublishedMeansMoved
  BY DEF Init, PublishedMeansMoved, PublishedStatuses, Genesis, ReadyStatus
<1>6. ApprovalFirst
  BY DEF Init, ApprovalFirst
<1> QED
  BY <1>2, <1>3, <1>4, <1>5, <1>6 DEF Inv

\* The inductive invariant holds throughout.
LEMMA Invariance == Spec => []Inv
<1>1. Inv /\ [Next]_vars => Inv'
  BY TypeStep, GitStep, CopiesStep, ApprovedStep, PublishedStep, ApprovalFirstStep DEF Inv
<1> QED
  BY <1>1, InitInv, PTL DEF Spec

-----------------------------------------------------------------------------
(* The theorems.                                                           *)

\* Type correctness, with the discipline of RepositoryPublishLock and of the ref
\* transaction: at most one command is between the checks and the last look.
THEOREM TypeCorrect == Spec => []TypeOK
<1>1. Inv => TypeOK
  BY DEF Inv
<1> QED
  BY <1>1, Invariance, PTL

\* A run is recorded as published only if the branch was moved to its candidate and
\* its index was published, for any number of publish_task_run and recover_task_run.
THEOREM PublishedIsMoved == Spec => []PublishedMeansMoved
<1>1. Inv => PublishedMeansMoved
  BY DEF Inv
<1> QED
  BY <1>1, Invariance, PTL

\* A conditional candidate does not get on the branch without a recorded approval, by
\* no sequence of publish, cancel, resume and recover.
THEOREM ApprovedFirst == Spec => []ApprovalFirst
<1>1. Inv => ApprovalFirst
  BY DEF Inv
<1> QED
  BY <1>1, Invariance, PTL

\* compare_and_swap_direct_branch never takes a commit of the owner off the branch.
THEOREM KeepsUserCommits == Spec => UserCommitKept
<1>1. Inv /\ [Next]_vars => [ref = "user" => ref' = "user"]_vars
  <2> SUFFICES ASSUME Inv, [Next]_vars, ref = "user" PROVE ref' = "user"
    OBVIOUS
  <2>1. ASSUME NEW c \in Commands, Commit(c) PROVE FALSE
    BY <2>1 DEF Commit, Inv, Transaction
  <2> QED
    BY <2>1 DEF Next, Work, User, vars, Publish, Recover, Cancel, Resume, Approve, Lock, Read,
         Worktrees, AlreadyMoved, NotOurs, ToMove, Prepare, Sync, SyncFails, CommitFails,
         Reconcile, Confirm, PublishIndex, Verify, Release, Finish, Crash, UserCommit, UserEdit,
         UserRestore, git
<1> QED
  BY <1>1, Invariance, PTL DEF Spec, UserCommitKept
=============================================================================
