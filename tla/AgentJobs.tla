----------------------------- MODULE AgentJobs ------------------------------
(***************************************************************************)
(* Author and reviewer jobs of the documentation subsystem:                *)
(* crates/clew/src/documentation/agent_jobs.rs with agent_jobs/recovery.rs *)
(* and the publication of their result in render.rs.                       *)
(*                                                                         *)
(* A run asks an author for a proposal and a reviewer for its verdict,     *)
(* repairs a few times, turns to a fallback author, and publishes what was *)
(* approved.  Every call is paid from an account: all calls a run may need *)
(* are reserved before the first, and what they cost is reconciled one by  *)
(* one.  Account, saved results, the run's checkpoint and the published    *)
(* index are separate files.  The writer lock of the repository is tried,  *)
(* never waited for.  A coordinator may die between any two locked steps   *)
(* and the run is then taken up again by calling the command once more.    *)
(***************************************************************************)
EXTENDS Integers, FiniteSets, FiniteSetsExt

CONSTANTS
  Runs, None,
  RepairAttempts, Expansions,                \* Config
  AuthorCalls, ReviewerCalls, FallbackCalls, \* Config
  Maximum,       \* upper bound of a single call
  StopLoss,      \* what the account may be charged with
  Represented,   \* roles whose driver speaks a model representation
  Replies,       \* answers drivers may give, among all Answers
  Reports,       \* what they may report of the cost: "less" than the bound,
                 \* "unknown", or "more"
  MaxFaults      \* bound on crashes, cancellations and refused locks

Roles == {"author", "reviewer", "fallback"}

\* validate_config
ASSUME ConfigAssumption ==
  /\ RepairAttempts \in Nat \ {0} /\ Expansions \in Nat
  /\ AuthorCalls \in Nat /\ ReviewerCalls \in Nat /\ FallbackCalls \in Nat
  /\ AuthorCalls >= RepairAttempts + 1 + Expansions
  /\ ReviewerCalls >= AuthorCalls + FallbackCalls + Expansions
  /\ Maximum \in Nat \ {0} /\ StopLoss \in Nat
  /\ Represented \subseteq Roles /\ Reports \subseteq {"less", "unknown", "more"}
  /\ None \notin Runs

Calls == [author |-> AuthorCalls, reviewer |-> ReviewerCalls, fallback |-> FallbackCalls]

\* A call that may be made: the ordinal in its role.  A reservation is named
\* by the digest of the three.
Slots == {s \in Runs \X Roles \X (1 .. AuthorCalls + ReviewerCalls + FallbackCalls) :
            s[3] <= Calls[s[2]]}
SlotsOf(r) == {s \in Slots : s[1] = r}

VARIABLES
  account,    \* execution/accounts: status and charge of every slot
  asked,      \* immutable input of the call a slot was used for
  raw,        \* wire output kept before it is decoded
  result,     \* decoded result of a call
  saved,      \* report and checkpoint of a run, as on disk
  drift,      \* Work reads were recorded that the checkpoint does not know
  cancelled,  \* cancel marker of a run
  index,      \* docs/index.html: what is published
  holder,     \* who holds the writer lock over several steps
  pc, mem,    \* step of a run's coordinator, its copy of report and checkpoint
  reply,      \* what the driver has just returned
  base,       \* publication the renderer started from
  error,      \* why the run fails
  spent,      \* history: what the calls of a slot have really cost
  faults      \* history: how many crashes, cancellations and refused locks

calls == <<account, asked, raw, result, spent>>
local == <<mem, reply, base, error>>
vars == <<calls, saved, drift, cancelled, index, holder, pc, local, faults>>

Goto(r, l) == pc' = [pc EXCEPT ![r] = l]

-----------------------------------------------------------------------------
(* Checkpoint and report.                                                  *)

\* RunReport and RunCheckpoint as created.  pages: the initial pages are read.
NewRun ==
  [status |-> "PREPARED", phase |-> "AUTHOR", pages |-> FALSE, attempts |-> FALSE,
   repairs |-> 0, expansions |-> 0, fallback |-> FALSE, candidates |-> 0,
   pending |-> None, proposal |-> None, baseline |-> None, receipt |-> None]

NoRun == [NewRun EXCEPT !.status = "NONE"]

Failures == {"CANCELLED", "EXHAUSTED", "GENERATION_GAP"}
Terminal(m) == m.status \in Failures \cup {"ACCEPTED"}

\* save_run_checkpoint: an immutable checkpoint, then the report that names it.
Save(r, m) ==
  /\ holder = None
  /\ saved' = [saved EXCEPT ![r] = m]
  /\ mem' = [mem EXCEPT ![r] = m]

\* persist_phase: the checkpoint takes the reads in, no call is pending.
Persist(r, m) ==
  /\ Save(r, [m EXCEPT !.pending = None])
  /\ drift' = [drift EXCEPT ![r] = FALSE]

Pending(r, slot, status) == [mem[r] EXCEPT !.pending = [slot |-> slot, status |-> status]]
Slot(r) == mem[r].pending.slot

\* The command is over; whatever it held in memory is gone.
Leave(r) ==
  /\ Goto(r, "idle")
  /\ mem' = [mem EXCEPT ![r] = NoRun]
  /\ reply' = [reply EXCEPT ![r] = None]
  /\ base' = [base EXCEPT ![r] = None]
  /\ error' = [error EXCEPT ![r] = "none"]

\* An error that makes the run final ...
Throw(r, e) ==
  /\ Goto(r, "release")
  /\ error' = [error EXCEPT ![r] = e]
  /\ UNCHANGED <<mem, reply, base>>

\* ... and one that starts with RECOVERY_, which leaves it as it is.
Refuse(r) == Leave(r)

-----------------------------------------------------------------------------
(* The account.                                                            *)

Charged == MapThenSumSet(LAMBDA s : account[s].charged, Slots)
Violated == \E s \in Slots : account[s].status = "BOUND_VIOLATED"

Entry(status, charged) == [status |-> status, charged |-> charged]

\* Usage as reported, transport overhead included; None if it is unknown.
Reconciliation(usage) ==
  CASE usage = None    -> Entry("UNRECONCILED", Maximum)
    [] usage > Maximum -> Entry("BOUND_VIOLATED", usage)
    [] OTHER           -> Entry("RECONCILED", usage)

Reconcile(s, usage) == account' = [account EXCEPT ![s] = Reconciliation(usage)]

Init ==
  /\ account = [s \in Slots |-> Entry("NONE", 0)]
  /\ asked = [s \in Slots |-> None]
  /\ raw = [s \in Slots |-> None] /\ result = [s \in Slots |-> None]
  /\ saved = [r \in Runs |-> NoRun]
  /\ drift = [r \in Runs |-> FALSE] /\ cancelled = [r \in Runs |-> FALSE]
  /\ index = [accepted |-> {}, gaps |-> {}]
  /\ holder = None
  /\ pc = [r \in Runs |-> "idle"] /\ mem = [r \in Runs |-> NoRun]
  /\ reply = [r \in Runs |-> None] /\ base = [r \in Runs |-> None]
  /\ error = [r \in Runs |-> "none"]
  /\ spent = [s \in Slots |-> 0]
  /\ faults = 0

-----------------------------------------------------------------------------
(* Starting a run, or taking it up again.                                  *)

\* Where execute_run goes on from a checkpoint.
Resumed(r, m) ==
  IF m.phase = "PUBLISH"
    THEN Goto(r, IF m.baseline = None THEN "baseline" ELSE "classify")
    ELSE Goto(r, IF m.pages THEN "reserve" ELSE "read")

\* No checkpoint yet, or a failure without any attempt: the command makes a run
\* of its own.  The name is used again as long as no slot bears it.
Unused(r) ==
  \/ saved[r].status = "NONE"
  \/ saved[r].status \in Failures /\ ~saved[r].attempts
       /\ \A s \in SlotsOf(r) : account[s].status = "NONE"

Start(r) ==
  /\ pc[r] = "idle" /\ Unused(r)
  /\ mem' = [mem EXCEPT ![r] = NewRun]
  /\ Goto(r, "begin")
  /\ UNCHANGED <<calls, saved, drift, cancelled, faults, index, holder, reply, base, error>>

\* The new run has an identity of its own, and so no cancel marker.
Begin(r) ==
  /\ pc[r] = "begin"
  /\ Save(r, mem[r])
  /\ cancelled' = [cancelled EXCEPT ![r] = FALSE]
  /\ Goto(r, "read")
  /\ UNCHANGED <<calls, drift, faults, index, holder, reply, base, error>>

\* A run that ended with attempts is not repeated; reads that the checkpoint
\* does not know are refused.
Resume(r) ==
  /\ pc[r] = "idle" /\ saved[r].status # "NONE"
  /\ ~Terminal(saved[r])
  /\ (saved[r].pages /\ saved[r].phase # "PUBLISH") => ~drift[r]
  /\ mem' = [mem EXCEPT ![r] = saved[r]]
  /\ Resumed(r, saved[r])
  /\ UNCHANGED <<calls, saved, drift, cancelled, faults, index, holder, reply, base, error>>

\* An accepted run is looked at again, which completes its accounting.
ResumeAccepted(r) ==
  /\ pc[r] = "idle" /\ saved[r].status = "ACCEPTED"
  /\ mem' = [mem EXCEPT ![r] = saved[r]]
  /\ Goto(r, "classify")
  /\ UNCHANGED <<calls, saved, drift, cancelled, faults, index, holder, reply, base, error>>

\* Reading the initial pages records Work reads; they may be incomplete.
ReadPages(r) ==
  /\ pc[r] = "read"
  /\ drift' = [drift EXCEPT ![r] = TRUE]
  /\ \/ Goto(r, "enter") /\ UNCHANGED local
     \/ Throw(r, "GENERATION_GAP")
  /\ UNCHANGED <<calls, saved, cancelled, faults, index, holder>>

Enter(r) ==
  /\ pc[r] = "enter"
  /\ Persist(r, [mem[r] EXCEPT !.pages = TRUE, !.repairs = RepairAttempts,
                               !.expansions = Expansions])
  /\ Goto(r, "reserve")
  /\ UNCHANGED <<calls, cancelled, faults, index, holder, reply, base, error>>

\* ensure_reserved: all the calls of the run at once, or those of before.
EnsureReserved(r) ==
  /\ pc[r] = "reserve" /\ holder = None
  /\ IF \A s \in SlotsOf(r) : account[s].status = "NONE"
       THEN CASE Violated ->
                   Throw(r, "GENERATION_GAP") /\ UNCHANGED account
              [] ~Violated /\ Charged + Maximum * Cardinality(SlotsOf(r)) > StopLoss ->
                   Throw(r, "EXHAUSTED") /\ UNCHANGED account
              [] OTHER ->
                   /\ account' = [s \in Slots |-> IF s[1] = r THEN Entry("RESERVED", Maximum)
                                                              ELSE account[s]]
                   /\ Goto(r, "current") /\ UNCHANGED local
       ELSE /\ IF \E s \in SlotsOf(r) : account[s].status = "RELEASED"
                 THEN Refuse(r)
                 ELSE Goto(r, "current") /\ UNCHANGED local
            /\ UNCHANGED account
  /\ UNCHANGED <<asked, raw, result, spent, saved, drift, cancelled, faults, index, holder>>

\* proposals::current: evidence or declarations may have changed meanwhile.
Current(r) ==
  /\ pc[r] = "current"
  /\ \/ Goto(r, "call") /\ UNCHANGED local
     \/ Throw(r, "GENERATION_GAP")
  /\ UNCHANGED <<calls, saved, drift, cancelled, faults, index, holder>>

-----------------------------------------------------------------------------
(* A call.                                                                 *)

Role(m) ==
  IF m.phase = "REVIEWER" THEN "reviewer"
                         ELSE IF m.fallback THEN "fallback" ELSE "author"

\* What the call is about.  The same question gets the same input.
Question(m) ==
  IF m.phase = "REVIEWER"
    THEN [about |-> m.proposal, expansions |-> m.expansions]
    ELSE [about |-> <<m.repairs, m.candidates>>, expansions |-> m.expansions]

Reserved(r) ==
  {s \in SlotsOf(r) : s[2] = Role(mem[r]) /\ account[s].status = "RESERVED"}

\* Without a pending call: a reserved slot is chosen and the input written.
Prepare(r) ==
  /\ pc[r] = "call" /\ mem[r].pending = None
  /\ ~cancelled[r] /\ Reserved(r) # {}
  /\ LET s == CHOOSE t \in Reserved(r) : \A u \in Reserved(r) : t[3] <= u[3] IN
       /\ asked' = [asked EXCEPT ![s] = Question(mem[r])]
       /\ Save(r, [Pending(r, s, "PREPARED") EXCEPT !.attempts = TRUE])
  /\ Goto(r, "dispatch")
  /\ UNCHANGED <<account, raw, result, spent, drift, cancelled, faults, index, holder,
                 reply, base, error>>

CannotPrepare(r) ==
  /\ pc[r] = "call" /\ mem[r].pending = None
  /\ \/ cancelled[r] /\ Throw(r, "CANCELLED")
     \/ ~cancelled[r] /\ Reserved(r) = {} /\ Throw(r, "CALLS_EXHAUSTED")
  /\ UNCHANGED <<calls, saved, drift, cancelled, faults, index, holder>>

\* Mutant: a saved result is used only if the checkpoint mentions it.
TakeUpByCheckpoint(r) ==
  /\ pc[r] = "call" /\ mem[r].pending # None
  /\ LET s == Slot(r)
         status == mem[r].pending.status
     IN CASE status = "FAILED" -> Throw(r, "GENERATION_GAP")
          [] status = "RESULT_SAVED" -> Goto(r, "finish") /\ UNCHANGED local
          [] status \notin {"FAILED", "RESULT_SAVED"} /\ account[s].status = "RESERVED" ->
               Goto(r, "dispatch") /\ UNCHANGED local
          [] OTHER -> Goto(r, "uncertain") /\ UNCHANGED local
  /\ UNCHANGED <<calls, saved, drift, cancelled, faults, index, holder>>

\* A call that is pending on resumption: what is known of it decides.
TakeUp(r) ==
  /\ pc[r] = "call" /\ mem[r].pending # None
  /\ LET s == Slot(r)
         failed == mem[r].pending.status = "FAILED"
         To(l) == Goto(r, l) /\ UNCHANGED local
     IN \/ failed /\ Throw(r, "GENERATION_GAP")
        \/ ~failed /\ result[s] # None /\ To("finish")
        \/ ~failed /\ result[s] = None /\ raw[s] # None
             /\ To(IF raw[s].failure THEN "failed" ELSE "decode")
        \/ ~failed /\ result[s] = None /\ raw[s] = None
             /\ CASE account[s].status = "RESERVED"     -> To("dispatch")
                  [] account[s].status = "DISPATCHED"   -> To("uncertain")
                  [] account[s].status = "UNRECONCILED" -> To("retry")
                  [] OTHER                              -> Refuse(r)
  /\ UNCHANGED <<calls, saved, drift, cancelled, faults, index, holder>>

Decoded(output) == [answer |-> output.answer, usage |-> output.usage]

\* The wire output that was kept becomes the result.
Decode(r) ==
  /\ pc[r] = "decode" /\ holder = None
  /\ result' = [result EXCEPT ![Slot(r)] = Decoded(raw[Slot(r)])]
  /\ Goto(r, "finish")
  /\ UNCHANGED <<account, asked, raw, spent, saved, drift, cancelled, faults, index, holder, local>>

\* Dispatched and never answered: the maximum stays charged, and the question
\* is asked again from another slot.
ChargeUncertain(r) ==
  /\ pc[r] = "uncertain" /\ holder = None
  /\ Reconcile(Slot(r), None)
  /\ Goto(r, "retry")
  /\ UNCHANGED <<asked, raw, result, spent, saved, drift, cancelled, faults, index, holder, local>>

\* Mutant: the call stays pending.
RetryKeepsPending(r) ==
  /\ pc[r] = "retry"
  /\ Save(r, mem[r])
  /\ Goto(r, "call")
  /\ UNCHANGED <<calls, drift, cancelled, faults, index, holder, reply, base, error>>

Retry(r) ==
  /\ pc[r] = "retry"
  /\ Save(r, [mem[r] EXCEPT !.pending = None])
  /\ Goto(r, "call")
  /\ UNCHANGED <<calls, drift, cancelled, faults, index, holder, reply, base, error>>

Dispatch(r) ==
  /\ pc[r] = "dispatch" /\ ~cancelled[r] /\ ~Violated /\ holder = None
  /\ account' = [account EXCEPT ![Slot(r)].status = "DISPATCHED"]
  /\ Goto(r, "sent")
  /\ UNCHANGED <<asked, raw, result, spent, saved, drift, cancelled, faults, index, holder, local>>

CannotDispatch(r) ==
  /\ pc[r] = "dispatch"
  /\ \/ cancelled[r] /\ Throw(r, "CANCELLED")
     \/ ~cancelled[r] /\ Violated /\ holder = None /\ Throw(r, "GENERATION_GAP")
  /\ UNCHANGED <<calls, saved, drift, cancelled, faults, index, holder>>

Sent(r) ==
  /\ pc[r] = "sent"
  /\ Save(r, Pending(r, Slot(r), "DISPATCHED"))
  /\ Goto(r, "execute")
  /\ UNCHANGED <<calls, drift, cancelled, faults, index, holder, reply, base, error>>

Answers(role) ==
  Replies \cap (IF role = "reviewer" THEN {"approve", "reject", "expand", "invalid"}
                                    ELSE {"proposal", "defect", "expand", "invalid"})

\* What a call costs, and what the driver reports of it.
Bill == [less    |-> [cost |-> Maximum - 1, usage |-> Maximum - 1],
         unknown |-> [cost |-> Maximum,     usage |-> None],
         more    |-> [cost |-> Maximum + 1, usage |-> Maximum + 1]]

\* agent_adapter::execute: output or none, and perhaps a failure (time-out,
\* cancellation, exit code) on top.  No output is a failure.
Execute(r) ==
  /\ pc[r] = "execute"
  /\ \E a \in Answers(Role(mem[r])) \cup {None}, u \in Reports \cup {"unknown"}, f \in BOOLEAN :
       /\ IF a = None THEN f /\ u = "unknown" ELSE u \in Reports
       /\ spent' = [spent EXCEPT ![Slot(r)] = @ + Bill[u].cost]
       /\ reply' = [reply EXCEPT ![r] = [answer |-> a, usage |-> Bill[u].usage, failure |-> f]]
       /\ Goto(r, CASE a = None                                     -> "failed"
                    [] a # None /\ Role(mem[r]) \in Represented     -> "raw"
                    [] a # None /\ Role(mem[r]) \notin Represented  -> "store")
  /\ UNCHANGED <<account, asked, raw, result, saved, drift, cancelled, faults, index, holder,
                 mem, base, error>>

\* Wire output is kept as it is, with the failure or without.
SaveRaw(r) ==
  /\ pc[r] = "raw" /\ holder = None
  /\ raw' = [raw EXCEPT ![Slot(r)] = reply[r]]
  /\ Goto(r, IF reply[r].failure THEN "failed" ELSE "store")
  /\ UNCHANGED <<account, asked, result, spent, saved, drift, cancelled, faults, index, holder,
                 local>>

\* The result is on disk before the checkpoint says so.
SaveResult(r) ==
  /\ pc[r] = "store" /\ holder = None
  /\ result' = [result EXCEPT ![Slot(r)] = Decoded(reply[r])]
  /\ Goto(r, "stored")
  /\ UNCHANGED <<account, asked, raw, spent, saved, drift, cancelled, faults, index, holder, local>>

Stored(r) ==
  /\ pc[r] = "stored"
  /\ Save(r, Pending(r, Slot(r), "RESULT_SAVED"))
  /\ Goto(r, IF reply[r].failure THEN "failed" ELSE "finish")
  /\ reply' = [reply EXCEPT ![r] = None]
  /\ UNCHANGED <<calls, drift, cancelled, faults, index, holder, base, error>>

\* Mutant: the call is charged before its failure is recorded.
FailCallLate(r) ==
  /\ pc[r] = "failed" /\ holder = None
  /\ IF account[Slot(r)].status = "DISPATCHED"
       THEN Reconcile(Slot(r), None) /\ UNCHANGED <<saved, mem, pc>>
       ELSE /\ UNCHANGED account
            /\ Save(r, Pending(r, Slot(r), "FAILED")) /\ Goto(r, "charge")
  /\ UNCHANGED <<asked, raw, result, spent, drift, cancelled, faults, index, holder, reply,
                 base, error>>

\* fail_call: the failure is recorded, then the maximum is charged.
FailCall(r) ==
  /\ pc[r] = "failed"
  /\ Save(r, Pending(r, Slot(r), "FAILED"))
  /\ Goto(r, "charge")
  /\ UNCHANGED <<calls, drift, cancelled, faults, index, holder, reply, base, error>>

ChargeFailed(r) ==
  /\ pc[r] = "charge" /\ holder = None
  /\ Reconcile(Slot(r), None)
  /\ Throw(r, "GENERATION_GAP")
  /\ UNCHANGED <<asked, raw, result, spent, saved, drift, cancelled, faults, index, holder>>

\* The account agrees with a saved result: it does not know the call's cost
\* yet, or it knows the very same.
Agrees(s) ==
  account[s].status = "DISPATCHED" \/ account[s] = Reconciliation(result[s].usage)

\* finish_saved_result: reconcile; a call beyond its bound fails the run.
FinishSavedResult(r) ==
  /\ pc[r] = "finish" /\ holder = None
  /\ LET s == Slot(r)
         sound == Agrees(s) /\ Reconciliation(result[s].usage).status # "BOUND_VIOLATED"
     IN /\ IF Agrees(s) THEN Reconcile(s, result[s].usage) ELSE UNCHANGED account
        /\ Goto(r, IF sound THEN "handle" ELSE "spoil")
  /\ UNCHANGED <<asked, raw, result, spent, saved, drift, cancelled, faults, index, holder, local>>

Spoil(r) ==
  /\ pc[r] = "spoil"
  /\ holder = None
  /\ saved' = [saved EXCEPT ![r] = Pending(r, Slot(r), "FAILED")]
  /\ mem' = [mem EXCEPT ![r] = Pending(r, Slot(r), "FAILED")]
  /\ Goto(r, "release")
  /\ error' = [error EXCEPT ![r] = "GENERATION_GAP"]
  /\ UNCHANGED <<calls, drift, cancelled, faults, index, holder, reply, base>>

-----------------------------------------------------------------------------
(* What follows from an answer.                                            *)

Answer(r) == result[Slot(r)].answer

\* The author's proposal passed the machine checks and goes to the reviewer.
Propose(r) ==
  /\ pc[r] = "handle" /\ Answer(r) = "proposal"
  /\ Persist(r, [mem[r] EXCEPT !.phase = "REVIEWER", !.proposal = Slot(r)])
  /\ Goto(r, "call")
  /\ UNCHANGED <<calls, cancelled, faults, index, holder, reply, base, error>>

Approve(r) ==
  /\ pc[r] = "handle" /\ Answer(r) = "approve"
  /\ Persist(r, [mem[r] EXCEPT !.phase = "PUBLISH"])
  /\ Goto(r, "baseline")
  /\ UNCHANGED <<calls, cancelled, faults, index, holder, reply, base, error>>

\* add_expansion: further reads are recorded at once, the checkpoint follows.
Expand(r) ==
  /\ pc[r] = "handle" /\ Answer(r) = "expand"
  /\ IF mem[r].expansions > 0
       THEN /\ drift' = [drift EXCEPT ![r] = TRUE]
            /\ Goto(r, "expand") /\ UNCHANGED local
       ELSE Throw(r, "EXHAUSTED") /\ UNCHANGED drift
  /\ UNCHANGED <<calls, saved, cancelled, faults, index, holder>>

Expanded(r) ==
  /\ pc[r] = "expand"
  /\ Persist(r, [mem[r] EXCEPT !.expansions = @ - 1])
  /\ Goto(r, "call")
  /\ UNCHANGED <<calls, cancelled, faults, index, holder, reply, base, error>>

\* advance_after_feedback: a repair, then the fallback author, then no more.
CanRepair(m) == ~m.fallback /\ m.repairs > 0
CanFallBack(m) ==
  ~CanRepair(m) /\ FallbackCalls > 0 /\ (~m.fallback \/ m.candidates + 1 < FallbackCalls)

\* Mutant: the last candidate is published when the repairs are used up.
AdvanceRegardless(r) ==
  /\ pc[r] = "handle" /\ Answer(r) \in {"defect", "reject"}
  /\ Persist(r, IF CanRepair(mem[r])
                  THEN [mem[r] EXCEPT !.phase = "AUTHOR", !.repairs = @ - 1]
                  ELSE [mem[r] EXCEPT !.phase = "PUBLISH"])
  /\ Goto(r, IF CanRepair(mem[r]) THEN "call" ELSE "baseline")
  /\ UNCHANGED <<calls, cancelled, faults, index, holder, reply, base, error>>

\* Mutant: a rejected proposal does not use up a repair.
AdvanceFreely(r) ==
  /\ pc[r] = "handle" /\ Answer(r) \in {"defect", "reject"}
  /\ Persist(r, [mem[r] EXCEPT !.phase = "AUTHOR",
                               !.repairs = IF Answer(r) = "defect" THEN @ - 1 ELSE @])
  /\ Goto(r, "call")
  /\ UNCHANGED <<calls, cancelled, faults, index, holder, reply, base, error>>

Advance(r) ==
  /\ pc[r] = "handle" /\ Answer(r) \in {"defect", "reject"}
  /\ \/ /\ CanRepair(mem[r])
        /\ Persist(r, [mem[r] EXCEPT !.phase = "AUTHOR", !.repairs = @ - 1])
        /\ Goto(r, "call") /\ UNCHANGED <<reply, base, error>>
     \/ /\ CanFallBack(mem[r])
        /\ Persist(r, [mem[r] EXCEPT !.phase = "AUTHOR", !.fallback = TRUE,
                                     !.candidates = @ + 1])
        /\ Goto(r, "call") /\ UNCHANGED <<reply, base, error>>
     \/ /\ ~CanRepair(mem[r]) /\ ~CanFallBack(mem[r])
        /\ Throw(r, "EXHAUSTED") /\ UNCHANGED <<saved, drift>>
  /\ UNCHANGED <<calls, cancelled, faults, index, holder>>

\* A result that is not admitted, or a reviewer that lacks evidence.
Reject(r) ==
  /\ pc[r] = "handle" /\ Answer(r) = "invalid"
  /\ Throw(r, "GENERATION_GAP")
  /\ UNCHANGED <<calls, saved, drift, cancelled, faults, index, holder>>

-----------------------------------------------------------------------------
(* Publication of an approved proposal.                                    *)

CaptureBaseline(r) ==
  /\ pc[r] = "baseline"
  /\ Save(r, [mem[r] EXCEPT !.baseline = index])
  /\ Goto(r, "classify")
  /\ UNCHANGED <<calls, drift, cancelled, faults, index, holder, reply, base, error>>

\* Mutant: a saved receipt is taken for an executed publication.
AppliedByReceipt(m) == m.receipt # None

Applied(m) == m.receipt # None /\ m.receipt = index
NotApplied(m) == ~Applied(m) /\ m.baseline = index

\* classify_publication_locked, before the renderer works and after it.
\* finish_applied_locked makes the run an accepted one.
Classify(r) ==
  /\ pc[r] \in {"classify", "settle"} /\ holder = None
  /\ \/ /\ Applied(mem[r])
        /\ Save(r, [mem[r] EXCEPT !.status = "ACCEPTED", !.phase = "TERMINAL"])
        /\ Goto(r, "release") /\ UNCHANGED <<reply, base, error>>
     \/ /\ NotApplied(mem[r]) /\ pc[r] = "classify" /\ ~Terminal(mem[r])
        /\ Goto(r, "render") /\ UNCHANGED <<local, saved>>
     \/ /\ ~Applied(mem[r])
        /\ NotApplied(mem[r]) => pc[r] = "settle" \/ Terminal(mem[r])
        /\ Refuse(r) /\ UNCHANGED saved
  /\ UNCHANGED <<calls, drift, cancelled, faults, index, holder>>

\* proposals::current once more, and whatever the renderer cannot do.
StalePublication(r) ==
  /\ \/ pc[r] = "baseline" /\ Refuse(r)
     \/ pc[r] = "classify" /\ NotApplied(mem[r]) /\ Refuse(r)
     \/ pc[r] = "render" /\ Goto(r, "settle") /\ UNCHANGED local
  /\ UNCHANGED <<calls, saved, drift, cancelled, faults, index, holder>>

\* The renderer takes what is published as its starting point, without lock.
Render(r) ==
  /\ pc[r] \in {"render", "gap"}
  /\ base' = [base EXCEPT ![r] = index]
  /\ Goto(r, IF pc[r] = "render" THEN "commit" ELSE "commitGap")
  /\ UNCHANGED <<calls, saved, drift, cancelled, faults, index, holder, mem, reply, error>>

\* Mutant: the starting point is not compared once more.
UnmovedUnchecked(r) == TRUE

Unmoved(r) == index = base[r]

\* commit_bundle and its hook: under the lock the starting point and the
\* baseline of the run still hold, and the receipt is saved before the switch.
CommitBundle(r) ==
  /\ pc[r] = "commit" /\ holder = None
  /\ IF Unmoved(r) /\ index = mem[r].baseline
       THEN /\ Save(r, [mem[r] EXCEPT !.receipt =
                          [base[r] EXCEPT !.accepted = @ \cup {mem[r].proposal}]])
            /\ holder' = r /\ Goto(r, "switch")
       ELSE Goto(r, "settle") /\ UNCHANGED <<mem, saved, holder>>
  /\ UNCHANGED <<calls, drift, cancelled, faults, index, reply, base, error>>

SwitchIndex(r) ==
  /\ pc[r] = "switch"
  /\ index' = mem[r].receipt /\ holder' = None
  /\ Goto(r, "settle")
  /\ UNCHANGED <<calls, saved, drift, cancelled, faults, local>>

-----------------------------------------------------------------------------
(* The end of a run.                                                       *)

\* Mutant: a failed run keeps its reservations.
ReleaseOnSuccess(r) ==
  /\ pc[r] = "release" /\ holder = None
  /\ account' = [s \in Slots |-> IF s \in SlotsOf(r) /\ account[s].status = "RESERVED"
                                      /\ error[r] = "none"
                                   THEN Entry("RELEASED", 0) ELSE account[s]]
  /\ IF error[r] = "none" THEN Leave(r) ELSE Goto(r, "close") /\ UNCHANGED local
  /\ UNCHANGED <<asked, raw, result, spent, saved, drift, cancelled, faults, index, holder>>

\* Mutant: a call of unknown cost counts as unused.
ReleaseUnaccounted(r) ==
  /\ pc[r] = "release" /\ holder = None
  /\ account' = [s \in Slots |-> IF s \in SlotsOf(r)
                                      /\ account[s].status \in {"RESERVED", "UNRECONCILED"}
                                   THEN Entry("RELEASED", 0) ELSE account[s]]
  /\ IF error[r] = "none" THEN Leave(r) ELSE Goto(r, "close") /\ UNCHANGED local
  /\ UNCHANGED <<asked, raw, result, spent, saved, drift, cancelled, faults, index, holder>>

\* release_unused; after it an accepted run is done.
ReleaseUnused(r) ==
  /\ pc[r] = "release" /\ holder = None
  /\ account' = [s \in Slots |-> IF s \in SlotsOf(r) /\ account[s].status = "RESERVED"
                                   THEN Entry("RELEASED", 0) ELSE account[s]]
  /\ IF error[r] = "none" THEN Leave(r) ELSE Goto(r, "close") /\ UNCHANGED local
  /\ UNCHANGED <<asked, raw, result, spent, saved, drift, cancelled, faults, index, holder>>

\* finalize_failed_run: status and terminal phase; a gap is then published, but
\* not of a cancelled run, nor of a context that did not fit.
Close(r) ==
  /\ pc[r] = "close" /\ holder = None
  /\ saved' = [saved EXCEPT ![r] =
       [mem[r] EXCEPT !.phase = "TERMINAL",
                      !.status = IF error[r] = "CALLS_EXHAUSTED" THEN "EXHAUSTED" ELSE error[r]]]
  /\ \/ error[r] # "CANCELLED" /\ Goto(r, "gap") /\ UNCHANGED local
     \/ error[r] \in {"CANCELLED", "GENERATION_GAP"} /\ Leave(r)
  /\ UNCHANGED <<calls, drift, cancelled, faults, index, holder>>

CommitGap(r) ==
  /\ pc[r] = "commitGap" /\ holder = None
  /\ index' = IF Unmoved(r) THEN [base[r] EXCEPT !.gaps = @ \cup {r}] ELSE index
  /\ Leave(r)
  /\ UNCHANGED <<calls, saved, drift, cancelled, faults, holder>>

-----------------------------------------------------------------------------
(* What else happens.                                                      *)

\* cancel: a marker beside the run, written without any lock.
Cancel(r) ==
  /\ saved[r].status # "NONE" /\ ~cancelled[r] /\ faults < MaxFaults
  /\ faults' = faults + 1
  /\ cancelled' = [cancelled EXCEPT ![r] = TRUE]
  /\ UNCHANGED <<calls, saved, drift, index, holder, pc, local>>

\* The writer lock may be taken while another coordinator is at work.  It is
\* not waited for: the step fails, and with it what the step is part of.
Tries(r) ==
  CASE pc[r] = "call"     -> mem[r].pending = None /\ ~cancelled[r] /\ Reserved(r) # {}
    [] pc[r] = "dispatch" -> ~cancelled[r]
    [] pc[r] = "reserve"  -> \A s \in SlotsOf(r) : account[s].status = "NONE"
    [] OTHER              -> TRUE

InRun == {"enter", "reserve", "call", "decode", "uncertain", "retry", "dispatch", "sent",
          "raw", "store", "stored", "failed", "charge", "spoil", "handle", "expand"}

Busy(r) ==
  /\ \E q \in Runs \ {r} : pc[q] # "idle"
  /\ faults < MaxFaults /\ faults' = faults + 1
  /\ \/ pc[r] \in InRun /\ Tries(r) /\ Throw(r, "GENERATION_GAP")
     \/ pc[r] = "finish" /\ Goto(r, "spoil") /\ UNCHANGED local
     \/ pc[r] = "commit" /\ Goto(r, "settle") /\ UNCHANGED local
     \/ pc[r] \in {"begin", "baseline", "classify", "settle", "release", "close", "commitGap"}
          /\ Leave(r)
  /\ UNCHANGED <<calls, saved, drift, cancelled, index, holder>>

Crash(r) ==
  /\ pc[r] # "idle" /\ faults < MaxFaults
  /\ Leave(r)
  /\ faults' = faults + 1
  /\ holder' = IF holder = r THEN None ELSE holder
  /\ UNCHANGED <<calls, saved, drift, cancelled, index>>

Call(r) ==
  \/ Prepare(r) \/ CannotPrepare(r) \/ TakeUp(r) \/ Decode(r) \/ ChargeUncertain(r) \/ Retry(r)
  \/ Dispatch(r) \/ CannotDispatch(r) \/ Sent(r) \/ Execute(r) \/ SaveRaw(r) \/ SaveResult(r)
  \/ Stored(r) \/ FailCall(r) \/ ChargeFailed(r) \/ FinishSavedResult(r) \/ Spoil(r)

Handle(r) == Propose(r) \/ Approve(r) \/ Expand(r) \/ Expanded(r) \/ Advance(r) \/ Reject(r)

Publish(r) ==
  \/ CaptureBaseline(r) \/ Classify(r) \/ StalePublication(r)
  \/ Render(r) \/ CommitBundle(r) \/ SwitchIndex(r)

\* What a coordinator does once it runs ...
Step(r) ==
  \/ Begin(r) \/ ReadPages(r) \/ Enter(r) \/ EnsureReserved(r) \/ Current(r)
  \/ Call(r) \/ Handle(r) \/ Publish(r) \/ ReleaseUnused(r) \/ Close(r) \/ CommitGap(r)

\* ... and what others do to it.
Next ==
  \E r \in Runs :
    \/ Step(r) \/ Start(r) \/ Resume(r) \/ ResumeAccepted(r)
    \/ Busy(r) \/ Cancel(r) \/ Crash(r)

Spec == Init /\ [][Next]_vars

\* A coordinator that runs goes on: no step of it waits for another process.
FairSpec == Spec /\ \A r \in Runs : WF_vars(Step(r))

-----------------------------------------------------------------------------
(* Properties.                                                             *)

Statuses == {"NONE", "RESERVED", "DISPATCHED", "RECONCILED", "UNRECONCILED",
             "BOUND_VIOLATED", "RELEASED"}

TypeOK ==
  /\ account \in [Slots -> [status : Statuses, charged : 0 .. Maximum + 1]]
  /\ holder \in Runs \cup {None}
  /\ \A r \in Runs : saved[r].status \in {"NONE", "PREPARED", "ACCEPTED"} \cup Failures

\* reserve promises a finite spend: as long as no call exceeds what it was
\* admitted for, all calls of all runs together cost no more than the
\* stop-loss, however the runs were interrupted and repeated.
SpendBelowStopLoss ==
  (\A s \in Slots : spent[s] <= Maximum) => MapThenSumSet(LAMBDA s : spent[s], Slots) <= StopLoss

\* field-documentation.md:399, "saved role results are reused": no question of
\* a run has two answers on disk, so none was bought twice that was kept once.
RepliesBoughtOnce ==
  \A s, t \in Slots :
    (s # t /\ s[1] = t[1] /\ {raw[s], result[s]} # {None} /\ {raw[t], result[t]} # {None})
      => asked[s] # asked[t]

\* A saved result and the account never disagree about a call, whatever was
\* interrupted between them: RECOVERY_ACCOUNTING_MISMATCH does not occur.
BooksAgree == \A r \in Runs : pc[r] = "finish" => Agrees(Slot(r))

\* Only what a reviewer approved is published: for each proposal in the index
\* there is a saved approval that was asked for about that proposal.
ApprovedBeforePublished ==
  \A p \in index.accepted :
    \E s \in SlotsOf(p[1]) : s[2] = "reviewer" /\ result[s] # None
      /\ result[s].answer = "approve" /\ asked[s].about = p

\* A run that counts as accepted is in the published index.
AcceptedIsPublished ==
  \A r \in Runs : saved[r].status = "ACCEPTED" => saved[r].proposal \in index.accepted

\* A publication, of another run or of a gap, never loses a published proposal.
PublishedStays == [][index.accepted \subseteq index'.accepted]_vars

\* A run that ended in failure holds no reservation.
FailedRunsHoldNothing ==
  \A r \in Runs : saved[r].status \in Failures =>
    \A s \in SlotsOf(r) : account[s].status # "RESERVED"

\* validate_config demands calls for every repair, review and expansion: an
\* author or reviewer runs out of calls only after an interrupted one.
EnoughCalls ==
  \A r \in Runs : (error[r] = "CALLS_EXHAUSTED" /\ ~mem[r].fallback) =>
    \E s \in SlotsOf(r) : account[s].status = "UNRECONCILED" /\ result[s] = None

\* Every command comes to an end, although the lock is never waited for and
\* work is repeated.
CommandsEnd == \A r \in Runs : pc[r] # "idle" ~> pc[r] = "idle"

\* Every interrupted run can be taken up again.  Does not hold.
RetryAccepted ==
  \A r \in Runs : (pc[r] = "idle" /\ saved[r].pages /\ ~Terminal(saved[r])) =>
    /\ saved[r].phase # "PUBLISH" =>
         ~drift[r] /\ \A s \in SlotsOf(r) : account[s].status # "RELEASED"
    /\ (saved[r].phase = "PUBLISH" /\ saved[r].baseline # None) =>
         index \in {saved[r].baseline, saved[r].receipt}
=============================================================================
