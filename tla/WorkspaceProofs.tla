--------------------------- MODULE WorkspaceProofs ---------------------------
(* Theorems about Workspace, for every number of members and commands. *)
EXTENDS Workspace, TLAPS

-----------------------------------------------------------------------------
(* The inductive invariant.                                                *)

\* Steps from the seal on; at a member; writing to the ledger.
SealedSteps ==
  {"origin", "origin-written", "turn", "begin", "begin-written", "choose", "call", "move", "save",
   "reload", "record", "record-written", "fail", "fail-written"}
MemberSteps ==
  {"choose", "call", "move", "save", "reload", "record", "record-written", "fail", "fail-written"}
WriteSteps == {"begin-written", "record-written", "fail-written"}
LockSteps == {"seal", "origin", "origin-written"} \cup WriteSteps

\* What the last event of the ledger says about the member that is next.
EventOK ==
  /\ event.status = "PublishedAll" <=> event.completed = N
  /\ event.status = "Publishing" => event.active = event.completed + 1
  /\ \A m \in Members : m <= event.completed => m \in moved

\* How a publishing command stands to the ledger.
CommandOK(c) ==
  /\ pc[c] \in SealedSteps => authority
  /\ pc[c] \in LockSteps => lock = c
  /\ pc[c] \in WriteSteps => c \in head /\ event.status # "PublishedAll"
  /\ pc[c] \in {"begin", "begin-written"} /\ c \in head => event.status # "Publishing"
  /\ pc[c] \in MemberSteps => at[c] <= event.completed + 1
  /\ pc[c] \in MemberSteps /\ c \in head => event.status = "Publishing" /\ event.active = at[c]
  /\ pc[c] = "save" /\ result[c] = "ok" => at[c] \in moved
  /\ pc[c] \in {"record", "record-written"} => at[c] \in moved

\* Nothing but a moved branch makes a run published, and nothing undoes it.
RunOK ==
  /\ \A m \in Members : run[m] \in PublishedStatuses => m \in moved
  /\ \A c \in Commands : pc[c] = "reload" => run[at[c]] \in PublishedStatuses
  /\ \A c \in copy : pc[c] \in {"move", "save"}
                       => run[at[c]] \in {"Publishing", "WorktreeRecoveryRequired"}

\* Every run that has got as far has a candidate.
CandidateStatuses ==
  Prepared \cup PublishedStatuses \cup {"Publishing", "WorktreeRecoveryRequired"}
CandidateOK ==
  /\ \A m \in Members : run[m] \in CandidateStatuses => m \in candidate
  /\ \A c \in Commands :
       /\ pc[c] \in {"move", "save"} => at[c] \in candidate
       /\ pc[c] = "observe" /\ whole[c] => \A m \in Members : m < at[c] => m \in candidate
       /\ pc[c] = "finalize" => candidate = Members
  /\ after => candidate = Members

Inv == TypeOK /\ EventOK /\ (\A c \in Commands : CommandOK(c)) /\ RunOK /\ CandidateOK

-----------------------------------------------------------------------------
(* Type correctness.                                                      *)

\* Where a command goes next is one of its steps.
LEMMA GotoType ==
  ASSUME NEW c \in Commands, NEW l \in Steps, pc \in [Commands -> Steps], Goto(c, l)
  PROVE  pc' \in [Commands -> Steps]
  BY DEF Goto

\* ... and the member it looks at one of the members.
LEMMA GotoAtType ==
  ASSUME NEW c \in Commands, NEW l \in Steps, NEW m \in Members,
         pc \in [Commands -> Steps], at \in [Commands -> Members], GotoAt(c, l, m)
  PROVE  pc' \in [Commands -> Steps] /\ at' \in [Commands -> Members]
  BY DEF GotoAt, Goto

\* A set of members stays one when a member joins it.
LEMMA AddMember ==
  ASSUME NEW S, NEW T, NEW m \in Members, S \subseteq Members, T = S \/ T = S \cup {m}
  PROVE  T \subseteq Members
  OBVIOUS

\* No step of a command, of a run or of the owner leaves the types.
LEMMA TypeStep == Inv /\ [Next]_vars => TypeOK'
<1> SUFFICES ASSUME Inv, [Next]_vars PROVE TypeOK'
  OBVIOUS
<1> TypeOK
  BY DEF Inv
<1> USE WorkspaceAssumption
<1> USE DEF TypeOK, Members, Steps, PublicationStatuses, Statuses, ReadyStatuses, PublishedStatuses

<1>1. ASSUME NEW c \in Commands, Prepare(c) PROVE TypeOK'
  BY <1>1 DEF Prepare, Fresh, Goto, repositories, runs, preparation, publication, ledger
<1>2. ASSUME NEW c \in Commands, Admit(c) PROVE TypeOK'
  BY <1>2 DEF Admit, Goto, repositories, runs, publication, ledger
<1>3. ASSUME NEW c \in Commands, Attach(c) PROVE TypeOK'
  <2>1. at[c] \in Members /\ 1 \in Members /\ (at[c] < N => at[c] + 1 \in Members)
    OBVIOUS
  <2>2. "start" \in Steps /\ "observe" \in Steps
    BY DEF Steps
  <2>3. pc' \in [Commands -> Steps] /\ at' \in [Commands -> Members]
    <3>1. CASE at[c] < N
      BY <1>3, <2>1, <2>2, <3>1, GotoAtType, Zenon DEF Attach, StartNext
    <3>2. CASE ~(at[c] < N)
      BY <1>3, <2>1, <2>2, <3>2, GotoAtType DEF Attach, StartNext
    <3> QED
      BY <3>1, <3>2
  <2> QED
    BY <1>3, <2>3 DEF Attach, repositories, runs, preparation, publication, ledger
<1>4. ASSUME NEW c \in Commands, StartRun(c) PROVE TypeOK'
  BY <1>4 DEF StartRun, SaveRun, Goto, repositories, preparation, publication, ledger
<1>5. ASSUME NEW c \in Commands, SessionClosed(c) PROVE TypeOK'
  BY <1>5 DEF SessionClosed, GotoAt, repositories, runs, preparation, publication, Goto,
     ledger
<1>6. ASSUME NEW c \in Commands, Spawn(c) PROVE TypeOK'
  <2>1. at[c] \in Members /\ 1 \in Members /\ (at[c] < N => at[c] + 1 \in Members)
    OBVIOUS
  <2>2. "start" \in Steps /\ "observe" \in Steps
    BY DEF Steps
  <2>3. pc' \in [Commands -> Steps] /\ at' \in [Commands -> Members]
    <3>1. CASE at[c] < N
      BY <1>6, <2>1, <2>2, <3>1, GotoAtType, Zenon DEF Spawn, StartNext
    <3>2. CASE ~(at[c] < N)
      BY <1>6, <2>1, <2>2, <3>2, GotoAtType DEF Spawn, StartNext
    <3> QED
      BY <3>1, <3>2
  <2>4. executor' \subseteq Members
    BY <1>6, <2>1, Zenon DEF Spawn
  <2> QED
    BY <1>6, <2>3, <2>4 DEF Spawn, repositories, preparation, publication, ledger
<1>7. ASSUME NEW c \in Commands, Observe(c) PROVE TypeOK'
  <2>1. at[c] \in Members /\ 1 \in Members /\ (at[c] # N => at[c] + 1 \in Members)
    OBVIOUS
  <2>2. {"idle", "finalize", "observe"} \subseteq Steps
    BY DEF Steps
  <2>3. PICK l \in {"idle", "finalize", "observe"}, m \in Members : GotoAt(c, l, m)
    BY <1>7, <2>1 DEF Observe
  <2>4. pc' \in [Commands -> Steps] /\ at' \in [Commands -> Members]
    BY <2>3 DEF GotoAt, Goto
  <2>5. PICK v \in BOOLEAN : whole' = [whole EXCEPT ![c] = v]
    BY <1>7, Zenon DEF Observe
  <2>6. whole' \in [Commands -> BOOLEAN]
    BY <2>5
  <2> QED
    BY <1>7, <2>4, <2>6 DEF Observe, repositories, runs, preparation, publication,
       ledger
<1>8. ASSUME NEW c \in Commands, Finalize(c) PROVE TypeOK'
  BY <1>8 DEF Finalize, Fresh, Goto, repositories, runs, publication, ledger
<1>9. ASSUME NEW c \in Commands, Resolve(c) PROVE TypeOK'
  BY <1>9 DEF Resolve, Fresh, Goto, rest, repositories, preparation
<1>10. ASSUME NEW c \in Commands, Continue(c) PROVE TypeOK'
  BY <1>10 DEF Continue, Goto, rest, publication, repositories, preparation, ledger
<1>11. ASSUME NEW c \in Commands, Seal(c) PROVE TypeOK'
  BY <1>11 DEF Seal, Goto, rest, repositories, preparation
<1>12. ASSUME NEW c \in Commands, WriteOrigin(c) PROVE TypeOK'
  BY <1>12 DEF WriteOrigin, Goto, rest, repositories, preparation
<1>13. ASSUME NEW c \in Commands, OriginWritten(c) PROVE TypeOK'
  BY <1>13 DEF OriginWritten, Goto, rest, repositories, preparation
<1>14. ASSUME NEW c \in Commands, Turn(c) PROVE TypeOK'
  <2>1. event.status = "Publishing" => event.active \in Members
    BY DEF Inv, EventOK
  <2>2. "choose" \in Steps /\ "begin" \in Steps
    BY DEF Steps
  <2>3. pc' \in [Commands -> Steps] /\ at' \in [Commands -> Members]
    <3>1. CASE event.status = "Publishing"
      BY <1>14, <2>1, <2>2, <3>1, GotoAtType, Zenon DEF Turn
    <3>2. CASE event.status # "Publishing"
      BY <1>14, <2>2, <3>2, GotoType DEF Turn
    <3> QED
      BY <3>1, <3>2
  <2>4. head' \subseteq Commands
    BY <1>14 DEF Turn
  <2> QED
    BY <1>14, <2>3, <2>4 DEF Turn, rest, repositories, preparation
<1>15. ASSUME NEW c \in Commands, LoadFails(c) PROVE TypeOK'
  BY <1>15 DEF LoadFails, Leave, rest, End, repositories, preparation, GotoAt, Goto
<1>16. ASSUME NEW c \in Commands, BeginNext(c) PROVE TypeOK'
  BY <1>16 DEF BeginNext, Write, CanAppend, Goto, rest, repositories, preparation
<1>17. ASSUME NEW c \in Commands, Begun(c) PROVE TypeOK'
  <2>1. event.completed + 1 \in Members
    BY <1>17 DEF Begun, Inv, EventOK, CommandOK, WriteSteps
  <2>2. "choose" \in Steps
    BY DEF Steps
  <2>3. pc' \in [Commands -> Steps] /\ at' \in [Commands -> Members]
    BY <1>17, <2>1, <2>2, GotoAtType, Zenon DEF Begun
  <2>4. event' = [status |-> "Publishing", completed |-> event.completed,
                  active |-> event.completed + 1]
    BY <1>17, Zenon DEF Begun, Written
  <2>5. event' \in [status : PublicationStatuses, completed : 0..N, active : 0..N]
    BY <2>1, <2>4
  <2> QED
    BY <1>17, <2>3, <2>5, SMTT(30) DEF Begun, Written, rest, repositories, preparation
<1>18. ASSUME NEW c \in Commands, Conflict(c) PROVE TypeOK'
  BY <1>18 DEF Conflict, CanAppend, Leave, rest, End, repositories, preparation, GotoAt,
     Goto
<1>19. ASSUME NEW c \in Commands, Choose(c) PROVE TypeOK'
  BY <1>19 DEF Choose, Goto, rest, ledger, repositories, preparation
<1>20. ASSUME NEW c \in Commands, AlreadyPublished(c) PROVE TypeOK'
  BY <1>20 DEF AlreadyPublished, Goto, rest, publication, repositories, preparation,
     ledger
<1>21. ASSUME NEW c \in Commands, PublishRun(c) PROVE TypeOK'
  BY <1>21 DEF PublishRun, Goto, rest, publication, repositories, preparation, ledger
<1>22. ASSUME NEW c \in Commands, RecoverRun(c) PROVE TypeOK'
  BY <1>22 DEF RecoverRun, Goto, rest, publication, repositories, preparation, ledger
<1>23. ASSUME NEW c \in Commands, Refused(c) PROVE TypeOK'
  BY <1>23 DEF Refused, Accepted, Goto, rest, publication, repositories, preparation,
     ledger
<1>24. ASSUME NEW c \in Commands, MoveBranch(c) PROVE TypeOK'
  <2>1. at[c] \in Members
    OBVIOUS
  <2>2. branch' \in [Members -> {"base", "candidate", "owner"}]
    BY <1>24, <2>1 DEF MoveBranch
  <2>3. result' \in [Commands -> {"ok", "recovery", "other"}]
    <3>1. PICK e \in {"ok", "recovery", "other"} : result' = [result EXCEPT ![c] = e]
      BY <1>24 DEF MoveBranch
    <3> QED
      BY <3>1
  <2>4. moved' = moved \/ moved' = moved \cup {at[c]}
    BY <1>24 DEF MoveBranch
  <2>5. moved' \subseteq Members
    BY <2>1, <2>4, AddMember, Zenon
  <2>6. faults' \in 0..MaxFaults
    BY <1>24 DEF MoveBranch, Fault
  <2>7. pc' \in [Commands -> Steps]
    BY <1>24, GotoType DEF MoveBranch, Steps
  <2> QED
    BY <1>24, <2>2, <2>3, <2>5, <2>6, <2>7 DEF MoveBranch, runs, preparation, ledger
<1>25. ASSUME NEW c \in Commands, SaveResult(c) PROVE TypeOK'
  BY <1>25 DEF SaveResult, SaveRun, Result, Goto, rest, publication, repositories,
     preparation,
       ledger
<1>26. ASSUME NEW c \in Commands, SaveConflict(c) PROVE TypeOK'
  BY <1>26 DEF SaveConflict, Goto, rest, publication, repositories, preparation, ledger
<1>27. ASSUME NEW c \in Commands, Reload(c) PROVE TypeOK'
  BY <1>27 DEF Reload, Goto, rest, publication, repositories, preparation, ledger
<1>28. ASSUME NEW c \in Commands, RecordPublished(c) PROVE TypeOK'
  BY <1>28 DEF RecordPublished, Write, CanAppend, Goto, rest, repositories, preparation
<1>29. ASSUME NEW c \in Commands, Recorded(c) PROVE TypeOK'
  <2>1. event.completed + 1 \in 0..N
    BY <1>29, N \in Nat DEF Recorded, Written, Goto, rest, repositories, preparation,
       Inv,
         EventOK, CommandOK, WriteSteps
  <2>2. pc' \in [Commands -> Steps]
    BY <1>29 DEF Recorded, Written, Goto, rest, repositories, preparation, Inv, EventOK,
         CommandOK, WriteSteps
  <2>3. at' \in [Commands -> Members]
    BY <1>29 DEF Recorded, Written, Goto, rest, repositories, preparation, Inv, EventOK,
         CommandOK, WriteSteps
  <2>4. event' \in [status : PublicationStatuses, completed : 0..N, active : 0..N]
    BY <1>29, <2>1 DEF Recorded, Written, Goto, rest, repositories, preparation, Inv,
       EventOK,
         CommandOK, WriteSteps
  <2> QED
    BY <1>29, <2>1, <2>2, <2>3, <2>4 DEF Recorded, Written, Goto, rest, repositories,
         preparation, Inv, EventOK, CommandOK, WriteSteps
<1>30. ASSUME NEW c \in Commands, RecordFailure(c) PROVE TypeOK'
  BY <1>30 DEF RecordFailure, Write, CanAppend, Goto, rest, repositories, preparation
<1>31. ASSUME NEW c \in Commands, FailureRecorded(c) PROVE TypeOK'
  <2>1. pc' \in [Commands -> Steps]
    BY <1>31 DEF FailureRecorded, End, rest, GotoAt, repositories, preparation, Goto
  <2>2. at' \in [Commands -> Members]
    BY <1>31 DEF FailureRecorded, End, rest, GotoAt, repositories, preparation, Goto
  <2>3. event' \in [status : PublicationStatuses, completed : 0..N, active : 0..N]
    BY <1>31, Zenon DEF FailureRecorded, End, rest, GotoAt, repositories, preparation,
       Goto
  <2>4. lock' \in Commands \cup {None}
    BY <1>31 DEF FailureRecorded, End, rest, GotoAt, repositories, preparation, Goto
  <2> QED
    BY <1>31, <2>1, <2>2, <2>3, <2>4 DEF FailureRecorded, End, rest, GotoAt,
       repositories,
         preparation, Goto
<1>32. ASSUME NEW c \in Commands, ClockSteppedBack(c) PROVE TypeOK'
  BY <1>32 DEF ClockSteppedBack, Fault, Leave, rest, End, repositories, preparation,
     GotoAt,
       Goto
<1>33. ASSUME NEW c \in Commands, Crash(c) PROVE TypeOK'
  BY <1>33 DEF Crash, Fault, Leave, repositories, preparation, End, GotoAt, Goto
<1>34. ASSUME NEW m \in Members, Report(m) PROVE TypeOK'
  BY <1>34 DEF Report, SaveRun, repositories, preparation, publication, ledger
<1>35. ASSUME NEW m \in Members, ExecutorDies(m) PROVE TypeOK'
  BY <1>35 DEF ExecutorDies, Fault, repositories, preparation, publication, ledger
<1>36. ASSUME NEW m \in Members, Cancel(m) PROVE TypeOK'
  BY <1>36 DEF Cancel, Fault, SaveRun, repositories, preparation, publication, ledger
<1>37. ASSUME NEW m \in Members, Resume(m) PROVE TypeOK'
  <2>1. PICK status \in {"WorktreeRecoveryRequired", "Created"} : SaveRun(m, status)
    BY <1>37 DEF Resume
  <2>2. run' \in [Members -> Statuses \cup {"absent"}] /\ copy' \subseteq Commands
    BY <2>1 DEF SaveRun, Statuses
  <2>3. executor' = executor \/ executor' = executor \cup {m}
    BY <1>37 DEF Resume
  <2>4. executor' \subseteq Members
    <3>1. executor \subseteq Members
      OBVIOUS
    <3> QED
      BY <2>3, <3>1, ZenonT(20)
  <2>5. faults' \in 0..MaxFaults
    BY <1>37 DEF Resume, Fault
  <2> QED
    BY <1>37, <2>2, <2>4, <2>5 DEF Resume, repositories, preparation, publication,
       ledger
<1>38. ASSUME NEW m \in Members, CloseSession(m) PROVE TypeOK'
  BY <1>38 DEF CloseSession, Fault, runs, preparation, publication, ledger
<1>39. ASSUME NEW m \in Members, OwnerCommit(m) PROVE TypeOK'
  BY <1>39 DEF OwnerCommit, Fault, runs, preparation, publication, ledger
<1>40. CASE CloseWorkspace
  <2>1. open' \in BOOLEAN
    BY <1>40, Zenon DEF CloseWorkspace
  <2>2. faults' \in 0..MaxFaults
    BY <1>40 DEF CloseWorkspace, Fault
  <2> QED
    BY <1>40, <2>1, <2>2 DEF CloseWorkspace, runs, preparation, publication, ledger
<1>41. CASE UNCHANGED vars
  BY <1>41 DEF vars, repositories, runs, preparation, publication, ledger
<1> QED
  BY <1>1, <1>2, <1>3, <1>4, <1>5, <1>6, <1>7, <1>8, <1>9, <1>10, <1>11, <1>12, <1>13,
     <1>14,
       <1>15, <1>16, <1>17, <1>18, <1>19, <1>20, <1>21, <1>22, <1>23, <1>24, <1>25,
       <1>26,
       <1>27, <1>28, <1>29, <1>30, <1>31, <1>32, <1>33, <1>34, <1>35, <1>36, <1>37,
       <1>38,
       <1>39, <1>40, <1>41, Zenon DEF Next, PrepareStep, PublishStep, World
\* The steps that seal the order, write an event or move a branch; no other step touches
\* what OrderedPublication speaks of.
LEMMA Frame ==
  ASSUME [Next]_vars
  PROVE  \/ UNCHANGED <<authority, event, moved>>
         \/ \E c \in Commands :
              Seal(c) \/ Begun(c) \/ MoveBranch(c) \/ Recorded(c) \/ FailureRecorded(c)
<1> DEFINE Same == UNCHANGED <<authority, event, moved>>
<1>1. ASSUME NEW c \in Commands, Prepare(c) PROVE Same
  BY <1>1 DEF Prepare, repositories, runs, preparation, publication, ledger
<1>2. ASSUME NEW c \in Commands, Admit(c) PROVE Same
  BY <1>2 DEF Admit, repositories, runs, publication, ledger
<1>3. ASSUME NEW c \in Commands, Attach(c) PROVE Same
  BY <1>3 DEF Attach, repositories, runs, preparation, publication, ledger
<1>4. ASSUME NEW c \in Commands, StartRun(c) PROVE Same
  BY <1>4 DEF StartRun, repositories, preparation, publication, ledger
<1>5. ASSUME NEW c \in Commands, SessionClosed(c) PROVE Same
  BY <1>5 DEF SessionClosed, repositories, runs, preparation, publication, ledger
<1>6. ASSUME NEW c \in Commands, Spawn(c) PROVE Same
  BY <1>6 DEF Spawn, repositories, preparation, publication, ledger
<1>7. ASSUME NEW c \in Commands, Observe(c) PROVE Same
  BY <1>7 DEF Observe, repositories, runs, preparation, publication, ledger
<1>8. ASSUME NEW c \in Commands, Finalize(c) PROVE Same
  BY <1>8 DEF Finalize, repositories, runs, publication, ledger
<1>9. ASSUME NEW c \in Commands, Resolve(c) PROVE Same
  BY <1>9 DEF Resolve, rest, repositories, preparation
<1>10. ASSUME NEW c \in Commands, Continue(c) PROVE Same
  BY <1>10 DEF Continue, rest, publication, repositories, preparation, ledger
<1>11. ASSUME NEW c \in Commands, WriteOrigin(c) PROVE Same
  BY <1>11 DEF WriteOrigin, rest, repositories, preparation
<1>12. ASSUME NEW c \in Commands, OriginWritten(c) PROVE Same
  BY <1>12 DEF OriginWritten, rest, repositories, preparation
<1>13. ASSUME NEW c \in Commands, Turn(c) PROVE Same
  BY <1>13 DEF Turn, rest, repositories, preparation
<1>14. ASSUME NEW c \in Commands, LoadFails(c) PROVE Same
  BY <1>14 DEF LoadFails, rest, repositories, preparation
<1>15. ASSUME NEW c \in Commands, BeginNext(c) PROVE Same
  BY <1>15 DEF BeginNext, Write, rest, repositories, preparation
<1>16. ASSUME NEW c \in Commands, Conflict(c) PROVE Same
  BY <1>16 DEF Conflict, rest, repositories, preparation
<1>17. ASSUME NEW c \in Commands, Choose(c) PROVE Same
  BY <1>17 DEF Choose, rest, ledger, repositories, preparation
<1>18. ASSUME NEW c \in Commands, AlreadyPublished(c) PROVE Same
  BY <1>18 DEF AlreadyPublished, rest, publication, repositories, preparation, ledger
<1>19. ASSUME NEW c \in Commands, PublishRun(c) PROVE Same
  BY <1>19 DEF PublishRun, rest, publication, repositories, preparation, ledger
<1>20. ASSUME NEW c \in Commands, RecoverRun(c) PROVE Same
  BY <1>20 DEF RecoverRun, rest, publication, repositories, preparation, ledger
<1>21. ASSUME NEW c \in Commands, Refused(c) PROVE Same
  BY <1>21 DEF Refused, rest, publication, repositories, preparation, ledger
<1>22. ASSUME NEW c \in Commands, SaveResult(c) PROVE Same
  BY <1>22 DEF SaveResult, rest, publication, repositories, preparation, ledger
<1>23. ASSUME NEW c \in Commands, SaveConflict(c) PROVE Same
  BY <1>23 DEF SaveConflict, rest, publication, repositories, preparation, ledger
<1>24. ASSUME NEW c \in Commands, Reload(c) PROVE Same
  BY <1>24 DEF Reload, rest, publication, repositories, preparation, ledger
<1>25. ASSUME NEW c \in Commands, RecordPublished(c) PROVE Same
  BY <1>25 DEF RecordPublished, Write, rest, repositories, preparation
<1>26. ASSUME NEW c \in Commands, RecordFailure(c) PROVE Same
  BY <1>26 DEF RecordFailure, Write, rest, repositories, preparation
<1>27. ASSUME NEW c \in Commands, ClockSteppedBack(c) PROVE Same
  BY <1>27 DEF ClockSteppedBack, rest, repositories, preparation
<1>28. ASSUME NEW c \in Commands, Crash(c) PROVE Same
  BY <1>28 DEF Crash, repositories, preparation
<1>29. ASSUME NEW m \in Members, Report(m) PROVE Same
  BY <1>29 DEF Report, repositories, preparation, publication, ledger
<1>30. ASSUME NEW m \in Members, ExecutorDies(m) PROVE Same
  BY <1>30 DEF ExecutorDies, repositories, preparation, publication, ledger
<1>31. ASSUME NEW m \in Members, Cancel(m) PROVE Same
  BY <1>31 DEF Cancel, repositories, preparation, publication, ledger
<1>32. ASSUME NEW m \in Members, Resume(m) PROVE Same
  BY <1>32 DEF Resume, repositories, preparation, publication, ledger
<1>33. ASSUME NEW m \in Members, CloseSession(m) PROVE Same
  BY <1>33 DEF CloseSession, runs, preparation, publication, ledger
<1>34. ASSUME NEW m \in Members, OwnerCommit(m) PROVE Same
  BY <1>34 DEF OwnerCommit, runs, preparation, publication, ledger
<1>35. CASE CloseWorkspace \/ UNCHANGED vars
  BY <1>35 DEF CloseWorkspace, vars, runs, preparation, publication, ledger
<1> QED
  BY <1>1, <1>2, <1>3, <1>4, <1>5, <1>6, <1>7, <1>8, <1>9, <1>10, <1>11, <1>12, <1>13,
     <1>14,
       <1>15, <1>16, <1>17, <1>18, <1>19, <1>20, <1>21, <1>22, <1>23, <1>24, <1>25,
       <1>26,
       <1>27, <1>28, <1>29, <1>30, <1>31, <1>32, <1>33, <1>34, <1>35
       DEF Next, PrepareStep, PublishStep, World

\* The last event: its status fits its counts, and each member it counts as published
\* has its branch moved (PublicationState::validate, record_published).
LEMMA EventStep ==
  ASSUME Inv, [Next]_vars
  PROVE  EventOK'
<1> USE WorkspaceAssumption DEF Members
<1>a. /\ event \in [status : PublicationStatuses, completed : 0..N, active : 0..N]
      /\ at \in [Commands -> Members] /\ moved \subseteq Members
      /\ EventOK /\ (\A c \in Commands : CommandOK(c))
  BY DEF Inv, TypeOK
<1> USE <1>a DEF EventOK
<1>1. ASSUME NEW c \in Commands, Seal(c) PROVE EventOK'
  BY <1>1 DEF Seal, rest, repositories, preparation
<1>2. ASSUME NEW c \in Commands, Begun(c) PROVE EventOK'
  <2>1. event.status # "PublishedAll"
    BY <1>2 DEF Begun, CommandOK, WriteSteps
  <2>2. event' = [status |-> "Publishing", completed |-> event.completed,
                  active |-> event.completed + 1]
    BY <1>2, Zenon DEF Begun, Written
  <2> QED
    BY <1>2, <2>1, <2>2 DEF Begun
<1>3. ASSUME NEW c \in Commands, MoveBranch(c) PROVE EventOK'
  BY <1>3 DEF MoveBranch, ledger
<1>4. ASSUME NEW c \in Commands, Recorded(c) PROVE EventOK'
  <2>1. /\ event.status # "PublishedAll" /\ event.active = at[c] /\ event.status = "Publishing"
        /\ at[c] \in moved
    BY <1>4 DEF Recorded, CommandOK, WriteSteps, MemberSteps
  <2>2. event' = [status |-> IF event.completed + 1 = N THEN "PublishedAll"
                             ELSE "PartiallyPublished",
                  completed |-> event.completed + 1, active |-> 0]
    BY <1>4 DEF Recorded, Written
  <2> QED
    BY <1>4, <2>1, <2>2 DEF Recorded
<1>5. ASSUME NEW c \in Commands, FailureRecorded(c) PROVE EventOK'
  <2>1. event.status # "PublishedAll"
    BY <1>5 DEF FailureRecorded, CommandOK, WriteSteps
  <2>2. event' = [status |-> "RecoveryRequired", completed |-> event.completed,
                  active |-> event.active]
    BY <1>5 DEF FailureRecorded
  <2> QED
    BY <1>5, <2>1, <2>2 DEF FailureRecorded
<1>6. CASE UNCHANGED <<authority, event, moved>>
  BY <1>6
<1> QED
  BY Frame, <1>1, <1>2, <1>3, <1>4, <1>5, <1>6

\* A command that acts for a member either has the current ledger, or one in which that
\* member was already active (transition and its expected_ledger_head).
LEMMA CommandStep ==
  ASSUME Inv, [Next]_vars, NEW d \in Commands
  PROVE  CommandOK(d)'
<1> USE WorkspaceAssumption DEF Members
<1>a. /\ event \in [status : PublicationStatuses, completed : 0..N, active : 0..N]
      /\ at \in [Commands -> Members] /\ moved \subseteq Members
      /\ pc \in [Commands -> Steps] /\ head \subseteq Commands
      /\ result \in [Commands -> {"ok", "recovery", "other"}]
      /\ EventOK /\ RunOK /\ (\A c \in Commands : CommandOK(c))
  BY DEF Inv, TypeOK
<1> USE <1>a DEF CommandOK, SealedSteps, MemberSteps, WriteSteps, LockSteps
<1>1. ASSUME NEW c \in Commands, Prepare(c) PROVE CommandOK(d)'
  <2>1. CASE d = c
    BY <1>1, <2>1 DEF Prepare, Fresh, Goto, repositories, runs, preparation,
       publication, ledger
  <2>2. CASE d # c
    BY <1>1, <2>2 DEF Prepare, Fresh, Goto, repositories, runs, preparation,
       publication, ledger
  <2> QED
    BY <2>1, <2>2
<1>2. ASSUME NEW c \in Commands, Admit(c) PROVE CommandOK(d)'
  <2>1. CASE d = c
    BY <1>2, <2>1 DEF Admit, Goto, repositories, runs, publication, ledger
  <2>2. CASE d # c
    BY <1>2, <2>2 DEF Admit, Goto, repositories, runs, publication, ledger
  <2> QED
    BY <2>1, <2>2
<1>3. ASSUME NEW c \in Commands, Attach(c) PROVE CommandOK(d)'
  <2>1. CASE d = c
    BY <1>3, <2>1 DEF Attach, StartNext, repositories, runs, preparation, publication,
       GotoAt,
         ledger, Goto
  <2>2. CASE d # c
    BY <1>3, <2>2 DEF Attach, StartNext, repositories, runs, preparation, publication,
       GotoAt,
         ledger, Goto
  <2> QED
    BY <2>1, <2>2
<1>4. ASSUME NEW c \in Commands, StartRun(c) PROVE CommandOK(d)'
  <2>1. CASE d = c
    BY <1>4, <2>1 DEF StartRun, SaveRun, Goto, repositories, preparation, publication,
       ledger
  <2>2. CASE d # c
    BY <1>4, <2>2 DEF StartRun, SaveRun, Goto, repositories, preparation, publication,
       ledger
  <2> QED
    BY <2>1, <2>2
<1>5. ASSUME NEW c \in Commands, SessionClosed(c) PROVE CommandOK(d)'
  <2>1. CASE d = c
    BY <1>5, <2>1 DEF SessionClosed, GotoAt, repositories, runs, preparation,
       publication, Goto,
         ledger
  <2>2. CASE d # c
    BY <1>5, <2>2 DEF SessionClosed, GotoAt, repositories, runs, preparation,
       publication, Goto,
         ledger
  <2> QED
    BY <2>1, <2>2
<1>6. ASSUME NEW c \in Commands, Spawn(c) PROVE CommandOK(d)'
  <2>1. CASE d = c
    BY <1>6, <2>1 DEF Spawn, StartNext, repositories, preparation, publication, GotoAt,
       ledger,
         Goto
  <2>2. CASE d # c
    BY <1>6, <2>2 DEF Spawn, StartNext, repositories, preparation, publication, GotoAt,
       ledger,
         Goto
  <2> QED
    BY <2>1, <2>2
<1>7. ASSUME NEW c \in Commands, Observe(c) PROVE CommandOK(d)'
  <2>1. CASE d = c
    BY <1>7, <2>1 DEF Observe, Pending, Prepared, GotoAt, SawAll, repositories, runs,
         preparation, publication, Goto, ledger
  <2>2. CASE d # c
    BY <1>7, <2>2 DEF Observe, Pending, Prepared, GotoAt, SawAll, repositories, runs,
         preparation, publication, Goto, ledger
  <2> QED
    BY <2>1, <2>2
<1>8. ASSUME NEW c \in Commands, Finalize(c) PROVE CommandOK(d)'
  <2>1. CASE d = c
    BY <1>8, <2>1 DEF Finalize, Fresh, Goto, repositories, runs, publication, ledger
  <2>2. CASE d # c
    BY <1>8, <2>2 DEF Finalize, Fresh, Goto, repositories, runs, publication, ledger
  <2> QED
    BY <2>1, <2>2
<1>9. ASSUME NEW c \in Commands, Resolve(c) PROVE CommandOK(d)'
  <2>1. CASE d = c
    BY <1>9, <2>1 DEF Resolve, Fresh, Goto, rest, repositories, preparation
  <2>2. CASE d # c
    BY <1>9, <2>2 DEF Resolve, Fresh, Goto, rest, repositories, preparation
  <2> QED
    BY <2>1, <2>2
<1>10. ASSUME NEW c \in Commands, Continue(c) PROVE CommandOK(d)'
  <2>1. CASE d = c
    BY <1>10, <2>1 DEF Continue, Goto, rest, publication, repositories, preparation,
       ledger
  <2>2. CASE d # c
    BY <1>10, <2>2 DEF Continue, Goto, rest, publication, repositories, preparation,
       ledger
  <2> QED
    BY <2>1, <2>2
<1>11. ASSUME NEW c \in Commands, Seal(c) PROVE CommandOK(d)'
  <2>1. CASE d = c
    BY <1>11, <2>1 DEF Seal, Goto, rest, repositories, preparation
  <2>2. CASE d # c
    BY <1>11, <2>2 DEF Seal, Goto, rest, repositories, preparation
  <2> QED
    BY <2>1, <2>2
<1>12. ASSUME NEW c \in Commands, WriteOrigin(c) PROVE CommandOK(d)'
  <2>1. CASE d = c
    BY <1>12, <2>1 DEF WriteOrigin, Goto, rest, repositories, preparation
  <2>2. CASE d # c
    BY <1>12, <2>2 DEF WriteOrigin, Goto, rest, repositories, preparation
  <2> QED
    BY <2>1, <2>2
<1>13. ASSUME NEW c \in Commands, OriginWritten(c) PROVE CommandOK(d)'
  <2>1. CASE d = c
    BY <1>13, <2>1 DEF OriginWritten, Goto, rest, repositories, preparation
  <2>2. CASE d # c
    BY <1>13, <2>2 DEF OriginWritten, Goto, rest, repositories, preparation
  <2> QED
    BY <2>1, <2>2
<1>14. ASSUME NEW c \in Commands, Turn(c) PROVE CommandOK(d)'
  <2>1. CASE d = c
    <3>1. CASE event.status = "Publishing"
      <4>1. /\ event' = event /\ authority' = authority /\ lock' = lock /\ moved' = moved
            /\ pc'[c] = "choose" /\ at'[c] = event.active /\ head' = head \cup {c}
        BY <1>14, <3>1 DEF Turn, GotoAt, Goto
      <4> QED
        BY <1>14, <2>1, <3>1, <4>1 DEF Turn, EventOK
    <3>2. CASE event.status # "Publishing"
      BY <1>14, <2>1, <3>2 DEF Turn, Goto
    <3> QED
      BY <3>1, <3>2
  <2>2. CASE d # c
    BY <1>14, <2>2 DEF Turn, GotoAt, Goto
  <2> QED
    BY <2>1, <2>2
<1>15. ASSUME NEW c \in Commands, LoadFails(c) PROVE CommandOK(d)'
  <2>1. CASE d = c
    BY <1>15, <2>1 DEF LoadFails, Leave, rest, End, repositories, preparation, GotoAt,
       Goto
  <2>2. CASE d # c
    BY <1>15, <2>2 DEF LoadFails, Leave, rest, End, repositories, preparation, GotoAt,
       Goto
  <2> QED
    BY <2>1, <2>2
<1>16. ASSUME NEW c \in Commands, BeginNext(c) PROVE CommandOK(d)'
  <2>1. CASE d = c
    BY <1>16, <2>1 DEF BeginNext, Write, CanAppend, Goto, rest, repositories,
       preparation
  <2>2. CASE d # c
    BY <1>16, <2>2 DEF BeginNext, Write, CanAppend, Goto, rest, repositories,
       preparation
  <2> QED
    BY <2>1, <2>2
<1>17. ASSUME NEW c \in Commands, Begun(c) PROVE CommandOK(d)'
  <2>1. CASE d = c
    BY <1>17, <2>1 DEF Begun, Written, GotoAt, rest, Goto, repositories, preparation
  <2>2. CASE d # c
    BY <1>17, <2>2 DEF Begun, Written, GotoAt, rest, Goto, repositories, preparation
  <2> QED
    BY <2>1, <2>2
<1>18. ASSUME NEW c \in Commands, Conflict(c) PROVE CommandOK(d)'
  <2>1. CASE d = c
    BY <1>18, <2>1 DEF Conflict, CanAppend, Leave, rest, End, repositories, preparation,
       GotoAt,
         Goto
  <2>2. CASE d # c
    BY <1>18, <2>2 DEF Conflict, CanAppend, Leave, rest, End, repositories, preparation,
       GotoAt,
         Goto
  <2> QED
    BY <2>1, <2>2
<1>19. ASSUME NEW c \in Commands, Choose(c) PROVE CommandOK(d)'
  <2>1. CASE d = c
    BY <1>19, <2>1 DEF Choose, Goto, rest, ledger, repositories, preparation
  <2>2. CASE d # c
    BY <1>19, <2>2 DEF Choose, Goto, rest, ledger, repositories, preparation
  <2> QED
    BY <2>1, <2>2
<1>20. ASSUME NEW c \in Commands, AlreadyPublished(c) PROVE CommandOK(d)'
  <2>1. CASE d = c
    BY <1>20, <2>1 DEF AlreadyPublished, Goto, rest, publication, repositories,
       preparation,
         ledger
  <2>2. CASE d # c
    BY <1>20, <2>2 DEF AlreadyPublished, Goto, rest, publication, repositories,
       preparation,
         ledger
  <2> QED
    BY <2>1, <2>2
<1>21. ASSUME NEW c \in Commands, PublishRun(c) PROVE CommandOK(d)'
  <2>1. CASE d = c
    BY <1>21, <2>1 DEF PublishRun, Goto, rest, publication, repositories, preparation,
       ledger
  <2>2. CASE d # c
    BY <1>21, <2>2 DEF PublishRun, Goto, rest, publication, repositories, preparation,
       ledger
  <2> QED
    BY <2>1, <2>2
<1>22. ASSUME NEW c \in Commands, RecoverRun(c) PROVE CommandOK(d)'
  <2>1. CASE d = c
    BY <1>22, <2>1 DEF RecoverRun, Goto, rest, publication, repositories, preparation,
       ledger
  <2>2. CASE d # c
    BY <1>22, <2>2 DEF RecoverRun, Goto, rest, publication, repositories, preparation,
       ledger
  <2> QED
    BY <2>1, <2>2
<1>23. ASSUME NEW c \in Commands, Refused(c) PROVE CommandOK(d)'
  <2>1. CASE d = c
    BY <1>23, <2>1 DEF Refused, Accepted, Goto, rest, publication, repositories,
       preparation,
         ledger
  <2>2. CASE d # c
    BY <1>23, <2>2 DEF Refused, Accepted, Goto, rest, publication, repositories,
       preparation,
         ledger
  <2> QED
    BY <2>1, <2>2
<1>24. ASSUME NEW c \in Commands, MoveBranch(c) PROVE CommandOK(d)'
  <2>1. CASE d = c
    BY <1>24, <2>1 DEF MoveBranch, Fault, Goto, runs, preparation, ledger
  <2>2. CASE d # c
    BY <1>24, <2>2 DEF MoveBranch, Fault, Goto, runs, preparation, ledger
  <2> QED
    BY <2>1, <2>2
<1>25. ASSUME NEW c \in Commands, SaveResult(c) PROVE CommandOK(d)'
  <2>1. CASE d = c
    BY <1>25, <2>1 DEF SaveResult, SaveRun, Result, Goto, rest, publication,
       repositories,
         preparation, ledger
  <2>2. CASE d # c
    BY <1>25, <2>2 DEF SaveResult, SaveRun, Result, Goto, rest, publication,
       repositories,
         preparation, ledger
  <2> QED
    BY <2>1, <2>2
<1>26. ASSUME NEW c \in Commands, SaveConflict(c) PROVE CommandOK(d)'
  <2>1. CASE d = c
    BY <1>26, <2>1 DEF SaveConflict, Goto, rest, publication, repositories, preparation,
       ledger
  <2>2. CASE d # c
    BY <1>26, <2>2 DEF SaveConflict, Goto, rest, publication, repositories, preparation,
       ledger
  <2> QED
    BY <2>1, <2>2
<1>27. ASSUME NEW c \in Commands, Reload(c) PROVE CommandOK(d)'
  <2>1. CASE d = c
    <3>1. run[at[c]] \in PublishedStatuses /\ at[c] \in moved
      BY <1>27 DEF Reload, RunOK
    <3> QED
      BY <1>27, <2>1, <3>1 DEF Reload, Goto, publication, ledger
  <2>2. CASE d # c
    BY <1>27, <2>2 DEF Reload, Goto, publication, ledger
  <2> QED
    BY <2>1, <2>2
<1>28. ASSUME NEW c \in Commands, RecordPublished(c) PROVE CommandOK(d)'
  <2>1. CASE d = c
    BY <1>28, <2>1 DEF RecordPublished, Write, CanAppend, Goto, rest, repositories,
       preparation
  <2>2. CASE d # c
    BY <1>28, <2>2 DEF RecordPublished, Write, CanAppend, Goto, rest, repositories,
       preparation
  <2> QED
    BY <2>1, <2>2
<1>29. ASSUME NEW c \in Commands, Recorded(c) PROVE CommandOK(d)'
  <2>1. CASE d = c
    BY <1>29, <2>1 DEF Recorded, Written, Goto, rest, repositories, preparation
  <2>2. CASE d # c
    BY <1>29, <2>2 DEF Recorded, Written, Goto, rest, repositories, preparation
  <2> QED
    BY <2>1, <2>2
<1>30. ASSUME NEW c \in Commands, RecordFailure(c) PROVE CommandOK(d)'
  <2>1. CASE d = c
    BY <1>30, <2>1 DEF RecordFailure, Write, CanAppend, Goto, rest, repositories,
       preparation
  <2>2. CASE d # c
    BY <1>30, <2>2 DEF RecordFailure, Write, CanAppend, Goto, rest, repositories,
       preparation
  <2> QED
    BY <2>1, <2>2
<1>31. ASSUME NEW c \in Commands, FailureRecorded(c) PROVE CommandOK(d)'
  <2>1. CASE d = c
    BY <1>31, <2>1 DEF FailureRecorded, End, rest, GotoAt, repositories, preparation,
       Goto
  <2>2. CASE d # c
    BY <1>31, <2>2 DEF FailureRecorded, End, rest, GotoAt, repositories, preparation,
       Goto
  <2> QED
    BY <2>1, <2>2
<1>32. ASSUME NEW c \in Commands, ClockSteppedBack(c) PROVE CommandOK(d)'
  <2>1. CASE d = c
    BY <1>32, <2>1 DEF ClockSteppedBack, Fault, Leave, rest, End, repositories,
       preparation,
         GotoAt, Goto
  <2>2. CASE d # c
    BY <1>32, <2>2 DEF ClockSteppedBack, Fault, Leave, rest, End, repositories,
       preparation,
         GotoAt, Goto
  <2> QED
    BY <2>1, <2>2
<1>33. ASSUME NEW c \in Commands, Crash(c) PROVE CommandOK(d)'
  <2>1. CASE d = c
    BY <1>33, <2>1 DEF Crash, Fault, Leave, repositories, preparation, End, GotoAt, Goto
  <2>2. CASE d # c
    BY <1>33, <2>2 DEF Crash, Fault, Leave, repositories, preparation, End, GotoAt, Goto
  <2> QED
    BY <2>1, <2>2
<1>34. ASSUME NEW m \in Members, Report(m) PROVE CommandOK(d)'
  BY <1>34 DEF Report, SaveRun, repositories, preparation, publication, ledger
<1>35. ASSUME NEW m \in Members, ExecutorDies(m) PROVE CommandOK(d)'
  BY <1>35 DEF ExecutorDies, Fault, repositories, preparation, publication, ledger
<1>36. ASSUME NEW m \in Members, Cancel(m) PROVE CommandOK(d)'
  BY <1>36 DEF Cancel, Fault, SaveRun, repositories, preparation, publication, ledger
<1>37. ASSUME NEW m \in Members, Resume(m) PROVE CommandOK(d)'
  BY <1>37 DEF Resume, Fault, SaveRun, repositories, preparation, publication, ledger
<1>38. ASSUME NEW m \in Members, CloseSession(m) PROVE CommandOK(d)'
  BY <1>38 DEF CloseSession, Fault, runs, preparation, publication, ledger
<1>39. ASSUME NEW m \in Members, OwnerCommit(m) PROVE CommandOK(d)'
  BY <1>39 DEF OwnerCommit, Fault, runs, preparation, publication, ledger
<1>40. CASE CloseWorkspace
  BY <1>40 DEF CloseWorkspace, Fault, runs, preparation, publication, ledger
<1>41. CASE UNCHANGED vars
  BY <1>41 DEF vars, repositories, runs, preparation, publication, ledger
<1> QED
  BY <1>1, <1>2, <1>3, <1>4, <1>5, <1>6, <1>7, <1>8, <1>9, <1>10, <1>11, <1>12, <1>13,
     <1>14,
       <1>15, <1>16, <1>17, <1>18, <1>19, <1>20, <1>21, <1>22, <1>23, <1>24, <1>25,
       <1>26,
       <1>27, <1>28, <1>29, <1>30, <1>31, <1>32, <1>33, <1>34, <1>35, <1>36, <1>37,
       <1>38,
       <1>39, <1>40, <1>41, Zenon DEF Next, PrepareStep, PublishStep, World

\* A run is published only after its branch moved, and stays published.
LEMMA RunStep ==
  ASSUME Inv, [Next]_vars
  PROVE  RunOK'
<1> USE WorkspaceAssumption DEF Members
<1>a. /\ at \in [Commands -> Members] /\ moved \subseteq Members
      /\ pc \in [Commands -> Steps] /\ copy \subseteq Commands
      /\ run \in [Members -> Statuses \cup {"absent"}]
      /\ result \in [Commands -> {"ok", "recovery", "other"}]
      /\ RunOK /\ (\A c \in Commands : CommandOK(c))
  BY DEF Inv, TypeOK
<1> USE <1>a DEF RunOK, PublishedStatuses
<1>1. ASSUME NEW c \in Commands, Prepare(c) PROVE RunOK'
  BY <1>1 DEF Prepare, Fresh, Goto, repositories, runs, preparation, publication, ledger
<1>2. ASSUME NEW c \in Commands, Admit(c) PROVE RunOK'
  BY <1>2 DEF Admit, Goto, repositories, runs, publication, ledger
<1>3. ASSUME NEW c \in Commands, Attach(c) PROVE RunOK'
  BY <1>3 DEF Attach, StartNext, repositories, runs, preparation, publication, GotoAt,
     ledger,
       Goto
<1>4. ASSUME NEW c \in Commands, StartRun(c) PROVE RunOK'
  BY <1>4 DEF StartRun, SaveRun, Goto, repositories, preparation, publication, ledger
<1>5. ASSUME NEW c \in Commands, SessionClosed(c) PROVE RunOK'
  BY <1>5 DEF SessionClosed, GotoAt, repositories, runs, preparation, publication, Goto,
     ledger
<1>6. ASSUME NEW c \in Commands, Spawn(c) PROVE RunOK'
  BY <1>6 DEF Spawn, StartNext, repositories, preparation, publication, GotoAt, ledger,
     Goto
<1>7. ASSUME NEW c \in Commands, Observe(c) PROVE RunOK'
  <2>1. PICK l \in {"idle", "finalize", "observe"}, m \in Nat : GotoAt(c, l, m)
    BY <1>7 DEF Observe
  <2>2. \A d \in Commands : d # c => pc'[d] = pc[d] /\ at'[d] = at[d]
    BY <2>1 DEF GotoAt, Goto
  <2>3. pc'[c] \in {"idle", "finalize", "observe"}
    BY <2>1 DEF GotoAt, Goto
  <2> QED
    BY <1>7, <2>2, <2>3 DEF Observe, runs, publication
<1>8. ASSUME NEW c \in Commands, Finalize(c) PROVE RunOK'
  BY <1>8 DEF Finalize, Fresh, Goto, repositories, runs, publication, ledger
<1>9. ASSUME NEW c \in Commands, Resolve(c) PROVE RunOK'
  BY <1>9 DEF Resolve, Fresh, Goto, rest, repositories, preparation
<1>10. ASSUME NEW c \in Commands, Continue(c) PROVE RunOK'
  BY <1>10 DEF Continue, Goto, rest, publication, repositories, preparation, ledger
<1>11. ASSUME NEW c \in Commands, Seal(c) PROVE RunOK'
  BY <1>11 DEF Seal, Goto, rest, repositories, preparation
<1>12. ASSUME NEW c \in Commands, WriteOrigin(c) PROVE RunOK'
  BY <1>12 DEF WriteOrigin, Goto, rest, repositories, preparation
<1>13. ASSUME NEW c \in Commands, OriginWritten(c) PROVE RunOK'
  BY <1>13 DEF OriginWritten, Goto, rest, repositories, preparation
<1>14. ASSUME NEW c \in Commands, Turn(c) PROVE RunOK'
  BY <1>14 DEF Turn, GotoAt, Goto, rest, repositories, preparation
<1>15. ASSUME NEW c \in Commands, LoadFails(c) PROVE RunOK'
  BY <1>15 DEF LoadFails, Leave, rest, End, repositories, preparation, GotoAt, Goto
<1>16. ASSUME NEW c \in Commands, BeginNext(c) PROVE RunOK'
  BY <1>16 DEF BeginNext, Write, CanAppend, Goto, rest, repositories, preparation
<1>17. ASSUME NEW c \in Commands, Begun(c) PROVE RunOK'
  BY <1>17 DEF Begun, Written, GotoAt, rest, Goto, repositories, preparation
<1>18. ASSUME NEW c \in Commands, Conflict(c) PROVE RunOK'
  BY <1>18 DEF Conflict, CanAppend, Leave, rest, End, repositories, preparation, GotoAt,
     Goto
<1>19. ASSUME NEW c \in Commands, Choose(c) PROVE RunOK'
  BY <1>19 DEF Choose, Goto, rest, ledger, repositories, preparation
<1>20. ASSUME NEW c \in Commands, AlreadyPublished(c) PROVE RunOK'
  BY <1>20 DEF AlreadyPublished, Goto, rest, publication, repositories, preparation,
     ledger
<1>21. ASSUME NEW c \in Commands, PublishRun(c) PROVE RunOK'
  <2>1. \A m \in Members : m # at[c] => run'[m] = run[m]
    BY <1>21 DEF PublishRun
  <2>2. run'[at[c]] = "Publishing" /\ run[at[c]] \notin PublishedStatuses
    BY <1>21 DEF PublishRun, ReadyStatuses
  <2>3. \A d \in Commands : pc[d] = "reload" => at[d] # at[c]
    BY <2>2
  <2>4. \A d \in Commands : d # c => pc'[d] = pc[d]
    BY <1>21 DEF PublishRun, Goto
  <2>5. pc'[c] = "move" /\ at' = at /\ moved' = moved
    BY <1>21 DEF PublishRun, Goto, publication
  <2>6. \A d \in copy' : d = c \/ (d \in copy /\ at[d] # at[c])
    BY <1>21 DEF PublishRun
  <2> QED
    BY <2>1, <2>2, <2>3, <2>4, <2>5, <2>6
<1>22. ASSUME NEW c \in Commands, RecoverRun(c) PROVE RunOK'
  BY <1>22 DEF RecoverRun, Goto, rest, publication, repositories, preparation, ledger
<1>23. ASSUME NEW c \in Commands, Refused(c) PROVE RunOK'
  BY <1>23 DEF Refused, Accepted, Goto, rest, publication, repositories, preparation,
     ledger
<1>24. ASSUME NEW c \in Commands, MoveBranch(c) PROVE RunOK'
  BY <1>24 DEF MoveBranch, Fault, Goto, runs, preparation, ledger
<1>25. ASSUME NEW c \in Commands, SaveResult(c) PROVE RunOK'
  <2>1. run[at[c]] \notin PublishedStatuses
    BY <1>25 DEF SaveResult
  <2>2. \A n \in Members : n # at[c] => run'[n] = run[n]
    BY <1>25 DEF SaveResult, SaveRun
  <2>3. run'[at[c]] = Result(c)
    BY <1>25 DEF SaveResult, SaveRun
  <2>4. \A d \in copy' : d \in copy /\ at[d] # at[c]
    BY <1>25 DEF SaveResult, SaveRun
  <2>5. at' = at /\ moved' = moved /\ \A d \in Commands : d # c => pc'[d] = pc[d]
    BY <1>25 DEF SaveResult, Goto, publication
  <2>6. pc'[c] = IF result[c] = "ok" THEN "reload" ELSE "fail"
    BY <1>25 DEF SaveResult, Goto
  <2>7. Result(c) \in PublishedStatuses <=> result[c] = "ok"
    BY DEF Result
  <2>8. result[c] = "ok" => at[c] \in moved
    BY <1>25 DEF SaveResult, CommandOK
  <2> QED
    BY <2>1, <2>2, <2>3, <2>4, <2>5, <2>6, <2>7, <2>8
<1>26. ASSUME NEW c \in Commands, SaveConflict(c) PROVE RunOK'
  BY <1>26 DEF SaveConflict, Goto, rest, publication, repositories, preparation, ledger
<1>27. ASSUME NEW c \in Commands, Reload(c) PROVE RunOK'
  BY <1>27 DEF Reload, Goto, rest, publication, repositories, preparation, ledger
<1>28. ASSUME NEW c \in Commands, RecordPublished(c) PROVE RunOK'
  BY <1>28 DEF RecordPublished, Write, CanAppend, Goto, rest, repositories, preparation
<1>29. ASSUME NEW c \in Commands, Recorded(c) PROVE RunOK'
  BY <1>29 DEF Recorded, Written, Goto, rest, repositories, preparation
<1>30. ASSUME NEW c \in Commands, RecordFailure(c) PROVE RunOK'
  BY <1>30 DEF RecordFailure, Write, CanAppend, Goto, rest, repositories, preparation
<1>31. ASSUME NEW c \in Commands, FailureRecorded(c) PROVE RunOK'
  BY <1>31 DEF FailureRecorded, End, rest, GotoAt, repositories, preparation, Goto
<1>32. ASSUME NEW c \in Commands, ClockSteppedBack(c) PROVE RunOK'
  BY <1>32 DEF ClockSteppedBack, Fault, Leave, rest, End, repositories, preparation,
     GotoAt,
       Goto
<1>33. ASSUME NEW c \in Commands, Crash(c) PROVE RunOK'
  BY <1>33 DEF Crash, Fault, Leave, repositories, preparation, End, GotoAt, Goto
<1>34. ASSUME NEW m \in Members, Report(m) PROVE RunOK'
  BY <1>34 DEF Report, SaveRun, repositories, preparation, publication, ledger
<1>35. ASSUME NEW m \in Members, ExecutorDies(m) PROVE RunOK'
  BY <1>35 DEF ExecutorDies, Fault, repositories, preparation, publication, ledger
<1>36. ASSUME NEW m \in Members, Cancel(m) PROVE RunOK'
  <2>1. PICK status \in {"Cancelled"} : SaveRun(m, status)
    BY <1>36 DEF Cancel
  <2>2. run[m] \notin PublishedStatuses
    BY <1>36 DEF Cancel, CancellableStatuses, ReadyStatuses
  <2>3. \A n \in Members : n # m => run'[n] = run[n]
    BY <2>1 DEF SaveRun
  <2>4. run'[m] = status
    BY <2>1 DEF SaveRun
  <2>5. \A d \in copy' : d \in copy /\ at[d] # m
    BY <2>1 DEF SaveRun
  <2>6. pc' = pc /\ at' = at /\ moved' = moved
    BY <1>36 DEF Cancel, publication
  <2> QED
    BY <2>2, <2>3, <2>4, <2>5, <2>6
<1>37. ASSUME NEW m \in Members, Resume(m) PROVE RunOK'
  <2>1. PICK status \in {"WorktreeRecoveryRequired", "Created"} : SaveRun(m, status)
    BY <1>37 DEF Resume
  <2>2. run[m] \notin PublishedStatuses
    BY <1>37 DEF Resume
  <2>3. \A n \in Members : n # m => run'[n] = run[n]
    BY <2>1 DEF SaveRun
  <2>4. run'[m] = status
    BY <2>1 DEF SaveRun
  <2>5. \A d \in copy' : d \in copy /\ at[d] # m
    BY <2>1 DEF SaveRun
  <2>6. pc' = pc /\ at' = at /\ moved' = moved
    BY <1>37 DEF Resume, publication
  <2> QED
    BY <2>2, <2>3, <2>4, <2>5, <2>6
<1>38. ASSUME NEW m \in Members, CloseSession(m) PROVE RunOK'
  BY <1>38 DEF CloseSession, Fault, runs, preparation, publication, ledger
<1>39. ASSUME NEW m \in Members, OwnerCommit(m) PROVE RunOK'
  BY <1>39 DEF OwnerCommit, Fault, runs, preparation, publication, ledger
<1>40. CASE CloseWorkspace
  BY <1>40 DEF CloseWorkspace, Fault, runs, preparation, publication, ledger
<1>41. CASE UNCHANGED vars
  BY <1>41 DEF vars, repositories, runs, preparation, publication, ledger
<1> QED
  BY <1>1, <1>2, <1>3, <1>4, <1>5, <1>6, <1>7, <1>8, <1>9, <1>10, <1>11, <1>12, <1>13,
     <1>14,
       <1>15, <1>16, <1>17, <1>18, <1>19, <1>20, <1>21, <1>22, <1>23, <1>24, <1>25,
       <1>26,
       <1>27, <1>28, <1>29, <1>30, <1>31, <1>32, <1>33, <1>34, <1>35, <1>36, <1>37,
       <1>38,
       <1>39, <1>40, <1>41, Zenon DEF Next, PrepareStep, PublishStep, World

\* What a prepare command has seen of the members remains true of their candidates.
LEMMA CandidateStep ==
  ASSUME Inv, [Next]_vars
  PROVE  CandidateOK'
<1> USE WorkspaceAssumption DEF Members
<1>a. /\ at \in [Commands -> Members] /\ candidate \subseteq Members
      /\ pc \in [Commands -> Steps] /\ whole \in [Commands -> BOOLEAN]
      /\ run \in [Members -> Statuses \cup {"absent"}] /\ after \in BOOLEAN
      /\ result \in [Commands -> {"ok", "recovery", "other"}]
      /\ CandidateOK
  BY DEF Inv, TypeOK
<1> USE <1>a DEF CandidateOK, CandidateStatuses, Prepared, ReadyStatuses, PublishedStatuses
<1>1. ASSUME NEW c \in Commands, Prepare(c) PROVE CandidateOK'
  BY <1>1 DEF Prepare, Fresh, Goto, repositories, runs, preparation, publication, ledger
<1>2. ASSUME NEW c \in Commands, Admit(c) PROVE CandidateOK'
  BY <1>2 DEF Admit, Goto, repositories, runs, publication, ledger
<1>3. ASSUME NEW c \in Commands, Attach(c) PROVE CandidateOK'
  BY <1>3 DEF Attach, StartNext, repositories, runs, preparation, publication, GotoAt,
     ledger,
       Goto
<1>4. ASSUME NEW c \in Commands, StartRun(c) PROVE CandidateOK'
  BY <1>4 DEF StartRun, SaveRun, Goto, repositories, preparation, publication, ledger
<1>5. ASSUME NEW c \in Commands, SessionClosed(c) PROVE CandidateOK'
  BY <1>5 DEF SessionClosed, GotoAt, repositories, runs, preparation, publication, Goto,
     ledger
<1>6. ASSUME NEW c \in Commands, Spawn(c) PROVE CandidateOK'
  BY <1>6 DEF Spawn, StartNext, repositories, preparation, publication, GotoAt, ledger,
     Goto
<1>7. ASSUME NEW c \in Commands, Observe(c) PROVE CandidateOK'
  <2>1. /\ run' = run /\ candidate' = candidate /\ after' = after
        /\ \A d \in Commands : d # c => pc'[d] = pc[d] /\ at'[d] = at[d] /\ whole'[d] = whole[d]
    BY <1>7 DEF Observe, GotoAt, Goto, runs, preparation
  <2>2. run[at[c]] \in Prepared => at[c] \in candidate
    OBVIOUS
  <2>3. CASE SawAll(c)
    <3>1. at[c] = N /\ whole[c] /\ N \in candidate
      BY <2>2, <2>3 DEF SawAll
    <3>2. \A m \in Members : m < N => m \in candidate
      BY <1>7, <3>1 DEF Observe
    <3>3. candidate = Members
      <4>1. \A m \in Members : m \in candidate
        BY <3>1, <3>2
      <4> QED
        BY <4>1, Zenon
    <3>4. pc'[c] \in {"idle", "finalize"}
      BY <1>7, <2>3 DEF Observe, GotoAt, Goto
    <3> QED
      BY <2>1, <3>3, <3>4
  <2>4. CASE ~SawAll(c)
    <3>1. \/ pc'[c] = "idle"
          \/ pc'[c] = "observe" /\ at'[c] = 1
          \/ /\ pc'[c] = "observe" /\ at'[c] = at[c] + 1
             /\ whole'[c] => whole[c] /\ run[at[c]] \in Prepared
      BY <1>7, <2>4, Zenon DEF Observe, GotoAt, Goto
    <3>2. pc'[c] = "observe" /\ whole'[c] => \A m \in Members : m < at'[c] => m \in candidate
      <4>1. CASE at'[c] = 1
        BY <4>1
      <4>2. CASE at'[c] # 1
        <5>1. pc[c] = "observe" /\ at[c] \in Members
          BY <1>7, Zenon DEF Observe
        <5>2. ASSUME pc'[c] = "observe", whole'[c]
              PROVE  /\ at'[c] = at[c] + 1 /\ at[c] \in candidate
                     /\ \A m \in Members : m < at[c] => m \in candidate
          BY <2>2, <3>1, <4>2, <5>1, <5>2, Zenon
        <5>3. \A m \in Members : m < at[c] + 1 => m < at[c] \/ m = at[c]
          BY <5>1 DEF Members
        <5> QED
          BY <5>2, <5>3, Zenon
      <4> QED
        BY <4>1, <4>2
    <3>3. pc'[c] \notin {"move", "save", "finalize"}
      BY <3>1
    <3> QED
      BY <2>1, <3>2, <3>3
  <2> QED
    BY <2>3, <2>4
<1>8. ASSUME NEW c \in Commands, Finalize(c) PROVE CandidateOK'
  BY <1>8 DEF Finalize, Fresh, Goto, repositories, runs, publication, ledger
<1>9. ASSUME NEW c \in Commands, Resolve(c) PROVE CandidateOK'
  BY <1>9 DEF Resolve, Fresh, Goto, rest, repositories, preparation
<1>10. ASSUME NEW c \in Commands, Continue(c) PROVE CandidateOK'
  BY <1>10 DEF Continue, Goto, rest, publication, repositories, preparation, ledger
<1>11. ASSUME NEW c \in Commands, Seal(c) PROVE CandidateOK'
  BY <1>11 DEF Seal, Goto, rest, repositories, preparation
<1>12. ASSUME NEW c \in Commands, WriteOrigin(c) PROVE CandidateOK'
  BY <1>12 DEF WriteOrigin, Goto, rest, repositories, preparation
<1>13. ASSUME NEW c \in Commands, OriginWritten(c) PROVE CandidateOK'
  BY <1>13 DEF OriginWritten, Goto, rest, repositories, preparation
<1>14. ASSUME NEW c \in Commands, Turn(c) PROVE CandidateOK'
  <2>1. /\ pc'[c] \in {"choose", "begin"}
        /\ \A d \in Commands : d # c => pc'[d] = pc[d] /\ at'[d] = at[d]
    BY <1>14 DEF Turn, GotoAt, Goto
  <2>2. run' = run /\ candidate' = candidate /\ whole' = whole /\ after' = after
    BY <1>14 DEF Turn, rest, preparation
  <2> QED
    BY <2>1, <2>2, Zenon
<1>15. ASSUME NEW c \in Commands, LoadFails(c) PROVE CandidateOK'
  BY <1>15 DEF LoadFails, Leave, rest, End, repositories, preparation, GotoAt, Goto
<1>16. ASSUME NEW c \in Commands, BeginNext(c) PROVE CandidateOK'
  BY <1>16 DEF BeginNext, Write, CanAppend, Goto, rest, repositories, preparation
<1>17. ASSUME NEW c \in Commands, Begun(c) PROVE CandidateOK'
  BY <1>17 DEF Begun, Written, GotoAt, rest, Goto, repositories, preparation
<1>18. ASSUME NEW c \in Commands, Conflict(c) PROVE CandidateOK'
  BY <1>18 DEF Conflict, CanAppend, Leave, rest, End, repositories, preparation, GotoAt,
     Goto
<1>19. ASSUME NEW c \in Commands, Choose(c) PROVE CandidateOK'
  BY <1>19 DEF Choose, Goto, rest, ledger, repositories, preparation
<1>20. ASSUME NEW c \in Commands, AlreadyPublished(c) PROVE CandidateOK'
  BY <1>20 DEF AlreadyPublished, Goto, rest, publication, repositories, preparation,
     ledger
<1>21. ASSUME NEW c \in Commands, PublishRun(c) PROVE CandidateOK'
  BY <1>21 DEF PublishRun, Goto, rest, publication, repositories, preparation, ledger
<1>22. ASSUME NEW c \in Commands, RecoverRun(c) PROVE CandidateOK'
  BY <1>22 DEF RecoverRun, Goto, rest, publication, repositories, preparation, ledger
<1>23. ASSUME NEW c \in Commands, Refused(c) PROVE CandidateOK'
  BY <1>23 DEF Refused, Accepted, Goto, rest, publication, repositories, preparation,
     ledger
<1>24. ASSUME NEW c \in Commands, MoveBranch(c) PROVE CandidateOK'
  BY <1>24 DEF MoveBranch, Fault, Goto, runs, preparation, ledger
<1>25. ASSUME NEW c \in Commands, SaveResult(c) PROVE CandidateOK'
  BY <1>25 DEF SaveResult, SaveRun, Result, Goto, rest, publication, repositories,
     preparation,
       ledger
<1>26. ASSUME NEW c \in Commands, SaveConflict(c) PROVE CandidateOK'
  BY <1>26 DEF SaveConflict, Goto, rest, publication, repositories, preparation, ledger
<1>27. ASSUME NEW c \in Commands, Reload(c) PROVE CandidateOK'
  BY <1>27 DEF Reload, Goto, rest, publication, repositories, preparation, ledger
<1>28. ASSUME NEW c \in Commands, RecordPublished(c) PROVE CandidateOK'
  BY <1>28 DEF RecordPublished, Write, CanAppend, Goto, rest, repositories, preparation
<1>29. ASSUME NEW c \in Commands, Recorded(c) PROVE CandidateOK'
  BY <1>29 DEF Recorded, Written, Goto, rest, repositories, preparation
<1>30. ASSUME NEW c \in Commands, RecordFailure(c) PROVE CandidateOK'
  BY <1>30 DEF RecordFailure, Write, CanAppend, Goto, rest, repositories, preparation
<1>31. ASSUME NEW c \in Commands, FailureRecorded(c) PROVE CandidateOK'
  BY <1>31 DEF FailureRecorded, End, rest, GotoAt, repositories, preparation, Goto
<1>32. ASSUME NEW c \in Commands, ClockSteppedBack(c) PROVE CandidateOK'
  BY <1>32 DEF ClockSteppedBack, Fault, Leave, rest, End, repositories, preparation,
     GotoAt,
       Goto
<1>33. ASSUME NEW c \in Commands, Crash(c) PROVE CandidateOK'
  BY <1>33 DEF Crash, Fault, Leave, repositories, preparation, End, GotoAt, Goto
<1>34. ASSUME NEW m \in Members, Report(m) PROVE CandidateOK'
  <2>1. PICK outcome \in Outcomes :
           /\ SaveRun(m, outcome)
           /\ candidate' = IF outcome = "Failed" THEN candidate ELSE candidate \cup {m}
    BY <1>34 DEF Report
  <2>2. candidate \subseteq candidate' /\ candidate' \subseteq Members
    BY <2>1
  <2>3. \A n \in Members : run'[n] \in CandidateStatuses => n \in candidate'
    BY <2>1 DEF SaveRun
  <2>4. pc' = pc /\ at' = at /\ whole' = whole /\ after' = after
    BY <1>34 DEF Report, preparation
  <2> QED
    BY <2>2, <2>3, <2>4, Zenon
<1>35. ASSUME NEW m \in Members, ExecutorDies(m) PROVE CandidateOK'
  BY <1>35 DEF ExecutorDies, Fault, repositories, preparation, publication, ledger
<1>36. ASSUME NEW m \in Members, Cancel(m) PROVE CandidateOK'
  BY <1>36 DEF Cancel, Fault, SaveRun, repositories, preparation, publication, ledger
<1>37. ASSUME NEW m \in Members, Resume(m) PROVE CandidateOK'
  BY <1>37 DEF Resume, Fault, SaveRun, repositories, preparation, publication, ledger
<1>38. ASSUME NEW m \in Members, CloseSession(m) PROVE CandidateOK'
  BY <1>38 DEF CloseSession, Fault, runs, preparation, publication, ledger
<1>39. ASSUME NEW m \in Members, OwnerCommit(m) PROVE CandidateOK'
  BY <1>39 DEF OwnerCommit, Fault, runs, preparation, publication, ledger
<1>40. CASE CloseWorkspace
  BY <1>40 DEF CloseWorkspace, Fault, runs, preparation, publication, ledger
<1>41. CASE UNCHANGED vars
  BY <1>41 DEF vars, repositories, runs, preparation, publication, ledger
<1> QED
  BY <1>1, <1>2, <1>3, <1>4, <1>5, <1>6, <1>7, <1>8, <1>9, <1>10, <1>11, <1>12, <1>13,
     <1>14,
       <1>15, <1>16, <1>17, <1>18, <1>19, <1>20, <1>21, <1>22, <1>23, <1>24, <1>25,
       <1>26,
       <1>27, <1>28, <1>29, <1>30, <1>31, <1>32, <1>33, <1>34, <1>35, <1>36, <1>37,
       <1>38,
       <1>39, <1>40, <1>41, Zenon DEF Next, PrepareStep, PublishStep, World
\* Nothing is prepared, sealed or published at first.
LEMMA InitInv == Init => Inv
<1> USE WorkspaceAssumption
<1> SUFFICES ASSUME Init PROVE Inv
  OBVIOUS
<1>1. TypeOK
  <2>1. /\ pc \in [Commands -> Steps] /\ at \in [Commands -> Members]
        /\ whole \in [Commands -> BOOLEAN]
    BY DEF Init, Steps, Members
  <2>2. /\ run \in [Members -> Statuses \cup {"absent"}]
        /\ branch \in [Members -> {"base", "candidate", "owner"}]
    BY DEF Init
  <2>3. event \in [status : PublicationStatuses, completed : 0..N, active : 0..N]
    BY DEF Init, Origin, PublicationStatuses
  <2>4. /\ call \in [Commands -> {"publish", "recover"}]
        /\ result \in [Commands -> {"ok", "recovery", "other"}]
    BY DEF Init
  <2>5. /\ open \in BOOLEAN /\ admitted \in BOOLEAN /\ after \in BOOLEAN
        /\ authority \in BOOLEAN /\ file \in {"none", "partial", "whole", "invalid"}
    BY Zenon DEF Init
  <2>6. /\ closed \subseteq Members /\ executor \subseteq Members /\ candidate \subseteq Members
        /\ moved \subseteq Members /\ copy \subseteq Commands /\ head \subseteq Commands
        /\ lock \in Commands \cup {None}
    BY DEF Init
  <2>7. faults \in 0..MaxFaults
    BY DEF Init
  <2> QED
    BY <2>1, <2>2, <2>3, <2>4, <2>5, <2>6, <2>7 DEF TypeOK
<1>2. EventOK
  BY DEF Init, EventOK, Origin, Members
<1>3. \A c \in Commands : CommandOK(c)
  BY DEF Init, CommandOK, SealedSteps, LockSteps, WriteSteps, MemberSteps
<1>4. RunOK
  BY DEF Init, RunOK, PublishedStatuses
<1>5. CandidateOK
  BY DEF Init, CandidateOK, CandidateStatuses, Prepared, ReadyStatuses,
     PublishedStatuses
<1> QED
  BY <1>1, <1>2, <1>3, <1>4, <1>5 DEF Inv

\* The inductive invariant holds throughout.
LEMMA Invariance == Spec => []Inv
<1>1. Inv /\ [Next]_vars => Inv'
  <2> SUFFICES ASSUME Inv, [Next]_vars PROVE Inv'
    OBVIOUS
  <2>1. \A c \in Commands : CommandOK(c)'
    BY CommandStep
  <2> QED
    BY <2>1, TypeStep, EventStep, RunStep, CandidateStep DEF Inv
<1> QED
  BY <1>1, InitInv, PTL DEF Spec

\* Type correctness: whatever the commands, the owner and the crashes do, every record
\* has one of the shapes its reader accepts.
THEOREM TypeCorrect == Spec => []TypeOK
<1>1. Inv => TypeOK
  BY DEF Inv
<1> QED
  BY <1>1, Invariance, PTL

\* AfterWorkspace is written only when each member has a candidate, for any number of
\* members and of concurrent prepare commands (observe_and_finalize).
THEOREM PreparedOnceFinal == Spec => []AfterMeansPrepared
<1>1. Inv => AfterMeansPrepared
  BY DEF Inv, CandidateOK, AfterMeansPrepared
<1> QED
  BY <1>1, Invariance, PTL

\* A command that gets back to the head of the loop has recorded a member.
LEMMA TurnStep ==
  ASSUME Inv, [Next]_vars, NEW d \in Commands,
         pc[d] \notin {"idle", "origin-written", "turn"}, pc'[d] = "turn"
  PROVE  event'.completed = event.completed + 1
<1>a. pc \in [Commands -> Steps]
  BY DEF Inv, TypeOK
<1> USE <1>a
<1>1. ASSUME NEW c \in Commands, Prepare(c) PROVE event'.completed = event.completed + 1
  BY <1>1 DEF Prepare, Fresh, Goto, repositories, runs, preparation, publication, ledger
<1>2. ASSUME NEW c \in Commands, Admit(c) PROVE event'.completed = event.completed + 1
  BY <1>2 DEF Admit, Goto, repositories, runs, publication, ledger
<1>3. ASSUME NEW c \in Commands, Attach(c) PROVE event'.completed = event.completed + 1
  BY <1>3 DEF Attach, StartNext, repositories, runs, preparation, publication, GotoAt,
     ledger,
       Goto
<1>4. ASSUME NEW c \in Commands, StartRun(c) PROVE event'.completed = event.completed + 1
  BY <1>4 DEF StartRun, SaveRun, Goto, repositories, preparation, publication, ledger
<1>5. ASSUME NEW c \in Commands, SessionClosed(c) PROVE event'.completed = event.completed + 1
  BY <1>5 DEF SessionClosed, GotoAt, repositories, runs, preparation, publication, Goto,
     ledger
<1>6. ASSUME NEW c \in Commands, Spawn(c) PROVE event'.completed = event.completed + 1
  BY <1>6 DEF Spawn, StartNext, repositories, preparation, publication, GotoAt, ledger,
     Goto
<1>7. ASSUME NEW c \in Commands, Observe(c) PROVE event'.completed = event.completed + 1
  BY <1>7 DEF Observe, Pending, Prepared, GotoAt, SawAll, repositories, runs,
     preparation,
       publication, Goto, ledger
<1>8. ASSUME NEW c \in Commands, Finalize(c) PROVE event'.completed = event.completed + 1
  BY <1>8 DEF Finalize, Fresh, Goto, repositories, runs, publication, ledger
<1>9. ASSUME NEW c \in Commands, Resolve(c) PROVE event'.completed = event.completed + 1
  BY <1>9 DEF Resolve, Fresh, Goto, rest, repositories, preparation
<1>10. ASSUME NEW c \in Commands, Continue(c) PROVE event'.completed = event.completed + 1
  BY <1>10 DEF Continue, Goto, rest, publication, repositories, preparation, ledger
<1>11. ASSUME NEW c \in Commands, Seal(c) PROVE event'.completed = event.completed + 1
  BY <1>11 DEF Seal, Goto, rest, repositories, preparation
<1>12. ASSUME NEW c \in Commands, WriteOrigin(c) PROVE event'.completed = event.completed + 1
  BY <1>12 DEF WriteOrigin, Goto, rest, repositories, preparation
<1>13. ASSUME NEW c \in Commands, OriginWritten(c) PROVE event'.completed = event.completed + 1
  BY <1>13 DEF OriginWritten, Goto, rest, repositories, preparation
<1>14. ASSUME NEW c \in Commands, Turn(c) PROVE event'.completed = event.completed + 1
  BY <1>14 DEF Turn, GotoAt, Goto, rest, repositories, preparation
<1>15. ASSUME NEW c \in Commands, LoadFails(c) PROVE event'.completed = event.completed + 1
  BY <1>15 DEF LoadFails, Leave, rest, End, repositories, preparation, GotoAt, Goto
<1>16. ASSUME NEW c \in Commands, BeginNext(c) PROVE event'.completed = event.completed + 1
  BY <1>16 DEF BeginNext, Write, CanAppend, Goto, rest, repositories, preparation
<1>17. ASSUME NEW c \in Commands, Begun(c) PROVE event'.completed = event.completed + 1
  BY <1>17 DEF Begun, Written, GotoAt, rest, Goto, repositories, preparation
<1>18. ASSUME NEW c \in Commands, Conflict(c) PROVE event'.completed = event.completed + 1
  BY <1>18 DEF Conflict, CanAppend, Leave, rest, End, repositories, preparation, GotoAt,
     Goto
<1>19. ASSUME NEW c \in Commands, Choose(c) PROVE event'.completed = event.completed + 1
  BY <1>19 DEF Choose, Goto, rest, ledger, repositories, preparation
<1>20. ASSUME NEW c \in Commands, AlreadyPublished(c) PROVE event'.completed = event.completed + 1
  BY <1>20 DEF AlreadyPublished, Goto, rest, publication, repositories, preparation,
     ledger
<1>21. ASSUME NEW c \in Commands, PublishRun(c) PROVE event'.completed = event.completed + 1
  BY <1>21 DEF PublishRun, Goto, rest, publication, repositories, preparation, ledger
<1>22. ASSUME NEW c \in Commands, RecoverRun(c) PROVE event'.completed = event.completed + 1
  BY <1>22 DEF RecoverRun, Goto, rest, publication, repositories, preparation, ledger
<1>23. ASSUME NEW c \in Commands, Refused(c) PROVE event'.completed = event.completed + 1
  BY <1>23 DEF Refused, Accepted, Goto, rest, publication, repositories, preparation,
     ledger
<1>24. ASSUME NEW c \in Commands, MoveBranch(c) PROVE event'.completed = event.completed + 1
  BY <1>24 DEF MoveBranch, Fault, Goto, runs, preparation, ledger
<1>25. ASSUME NEW c \in Commands, SaveResult(c) PROVE event'.completed = event.completed + 1
  BY <1>25 DEF SaveResult, SaveRun, Result, Goto, rest, publication, repositories,
     preparation,
       ledger
<1>26. ASSUME NEW c \in Commands, SaveConflict(c) PROVE event'.completed = event.completed + 1
  BY <1>26 DEF SaveConflict, Goto, rest, publication, repositories, preparation, ledger
<1>27. ASSUME NEW c \in Commands, Reload(c) PROVE event'.completed = event.completed + 1
  BY <1>27 DEF Reload, Goto, Inv, RunOK
<1>28. ASSUME NEW c \in Commands, RecordPublished(c) PROVE event'.completed = event.completed + 1
  BY <1>28 DEF RecordPublished, Write, CanAppend, Goto, rest, repositories, preparation
<1>29. ASSUME NEW c \in Commands, Recorded(c) PROVE event'.completed = event.completed + 1
  BY <1>29 DEF Recorded, Written, Goto, rest, repositories, preparation
<1>30. ASSUME NEW c \in Commands, RecordFailure(c) PROVE event'.completed = event.completed + 1
  BY <1>30 DEF RecordFailure, Write, CanAppend, Goto, rest, repositories, preparation
<1>31. ASSUME NEW c \in Commands, FailureRecorded(c) PROVE event'.completed = event.completed + 1
  BY <1>31 DEF FailureRecorded, End, rest, GotoAt, repositories, preparation, Goto
<1>32. ASSUME NEW c \in Commands, ClockSteppedBack(c) PROVE event'.completed = event.completed + 1
  BY <1>32 DEF ClockSteppedBack, Fault, Leave, rest, End, repositories, preparation,
     GotoAt,
       Goto
<1>33. ASSUME NEW c \in Commands, Crash(c) PROVE event'.completed = event.completed + 1
  BY <1>33 DEF Crash, Fault, Leave, repositories, preparation, End, GotoAt, Goto
<1>34. ASSUME NEW m \in Members, Report(m) PROVE event'.completed = event.completed + 1
  BY <1>34 DEF Report, SaveRun, repositories, preparation, publication, ledger
<1>35. ASSUME NEW m \in Members, ExecutorDies(m) PROVE event'.completed = event.completed + 1
  BY <1>35 DEF ExecutorDies, Fault, repositories, preparation, publication, ledger
<1>36. ASSUME NEW m \in Members, Cancel(m) PROVE event'.completed = event.completed + 1
  BY <1>36 DEF Cancel, Fault, SaveRun, repositories, preparation, publication, ledger
<1>37. ASSUME NEW m \in Members, Resume(m) PROVE event'.completed = event.completed + 1
  BY <1>37 DEF Resume, Fault, SaveRun, repositories, preparation, publication, ledger
<1>38. ASSUME NEW m \in Members, CloseSession(m) PROVE event'.completed = event.completed + 1
  BY <1>38 DEF CloseSession, Fault, runs, preparation, publication, ledger
<1>39. ASSUME NEW m \in Members, OwnerCommit(m) PROVE event'.completed = event.completed + 1
  BY <1>39 DEF OwnerCommit, Fault, runs, preparation, publication, ledger
<1>40. CASE CloseWorkspace
  BY <1>40 DEF CloseWorkspace, Fault, runs, preparation, publication, ledger
<1>41. CASE UNCHANGED vars
  BY <1>41 DEF vars, repositories, runs, preparation, publication, ledger
<1> QED
  BY <1>1, <1>2, <1>3, <1>4, <1>5, <1>6, <1>7, <1>8, <1>9, <1>10, <1>11, <1>12, <1>13,
     <1>14,
       <1>15, <1>16, <1>17, <1>18, <1>19, <1>20, <1>21, <1>22, <1>23, <1>24, <1>25,
       <1>26,
       <1>27, <1>28, <1>29, <1>30, <1>31, <1>32, <1>33, <1>34, <1>35, <1>36, <1>37,
       <1>38,
       <1>39, <1>40, <1>41, Zenon DEF Next, PrepareStep, PublishStep, World

\* The loop of publish_workspace makes progress in each turn that does not end it, for
\* any number of members and of concurrent commands.
THEOREM TurnsComplete == Spec => EveryTurnCompletes
<1>1. Inv /\ [Next]_vars
        => [\A c \in Commands :
              pc[c] \notin {"idle", "origin-written", "turn"} /\ pc'[c] = "turn"
                => event'.completed = event.completed + 1]_vars
  BY TurnStep
<1> QED
  BY <1>1, Invariance, PTL DEF Spec, EveryTurnCompletes

\* Each step of a command is a step of OrderedPublication, or changes nothing of it: a
\* command that is late moves a branch that is already there.
LEMMA SagaStep ==
  ASSUME Inv, [Next]_vars
  PROVE  [Saga!Next]_Saga!vars
<1> USE WorkspaceAssumption DEF Members, Saga!Next, Saga!vars
<1>a. /\ event \in [status : PublicationStatuses, completed : 0..N, active : 0..N]
      /\ at \in [Commands -> Members] /\ moved \subseteq Members
      /\ EventOK /\ (\A c \in Commands : CommandOK(c))
  BY DEF Inv, TypeOK
<1>1. ASSUME NEW c \in Commands, Seal(c) PROVE [Saga!Next]_Saga!vars
  <2>1. authority' = TRUE /\ moved' = moved /\ event' = event
    BY <1>1 DEF Seal
  <2>2. authority = TRUE \/ authority = FALSE
    BY DEF Inv, TypeOK
  <2> QED
    BY <2>1, <2>2, Zenon DEF Saga!Seal
<1>2. ASSUME NEW c \in Commands, Begun(c) PROVE [Saga!Next]_Saga!vars
  <2>1. authority' = authority /\ moved' = moved /\ event'.completed = event.completed
    BY <1>a, <1>2 DEF Begun, Written
  <2> QED
    BY <2>1
<1>3. ASSUME NEW c \in Commands, MoveBranch(c) PROVE [Saga!Next]_Saga!vars
  <2>1. event' = event /\ authority' = authority
    BY <1>3 DEF MoveBranch, ledger
  <2>2. authority = TRUE /\ at[c] \in Members /\ at[c] <= event.completed + 1
    BY <1>a, <1>3 DEF MoveBranch, CommandOK, SealedSteps, MemberSteps
  <2>3. moved' = moved \/ moved' = moved \cup {at[c]}
    BY <1>3, Zenon DEF MoveBranch
  <2>4. CASE at[c] = event.completed + 1
    <3>1. event.completed < N
      BY <1>a, <2>2, <2>4
    <3> QED
      BY <2>1, <2>2, <2>3, <2>4, <3>1 DEF Saga!Move
  <2>5. CASE at[c] <= event.completed
    <3>1. at[c] \in moved
      BY <1>a, <2>2, <2>5 DEF EventOK
    <3>2. moved' = moved
      BY <2>3, <3>1
    <3> QED
      BY <2>1, <3>2
  <2>6. at[c] = event.completed + 1 \/ at[c] <= event.completed
    BY <1>a, <2>2
  <2> QED
    BY <2>4, <2>5, <2>6
<1>4. ASSUME NEW c \in Commands, Recorded(c) PROVE [Saga!Next]_Saga!vars
  <2>1. authority = TRUE /\ at[c] \in moved /\ at[c] = event.active /\ event.status = "Publishing"
    BY <1>a, <1>4 DEF Recorded, CommandOK, SealedSteps, MemberSteps, WriteSteps
  <2>2. event.completed + 1 \in moved
    BY <1>a, <2>1 DEF EventOK
  <2>3. authority' = authority /\ moved' = moved /\ event'.completed = event.completed + 1
    BY <1>4 DEF Recorded, Written
  <2> QED
    BY <2>1, <2>2, <2>3 DEF Saga!Complete
<1>5. ASSUME NEW c \in Commands, FailureRecorded(c) PROVE [Saga!Next]_Saga!vars
  <2>1. authority' = authority /\ moved' = moved /\ event'.completed = event.completed
    BY <1>a, <1>5 DEF FailureRecorded
  <2> QED
    BY <2>1
<1>6. CASE UNCHANGED <<authority, event, moved>>
  BY <1>6
<1> QED
  BY Frame, <1>1, <1>2, <1>3, <1>4, <1>5, <1>6

\* The publication saga implements OrderedPublication, for every number of members and
\* of concurrent commands: the order is sealed first, the branches move in it, and no
\* member is recorded as published before its branch moved.
THEOREM ImplementsOrderedPublication == Spec => ImplementsSaga
<1>1. Init => Saga!Init
  BY DEF Init, Saga!Init, Origin
<1>2. Inv /\ [Next]_vars => [Saga!Next]_Saga!vars
  BY SagaStep
<1> QED
  BY <1>1, <1>2, Invariance, PTL DEF Spec, ImplementsSaga, Saga!Spec
=============================================================================
