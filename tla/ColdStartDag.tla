----------------------------- MODULE ColdStartDag -----------------------------
(***************************************************************************)
(* The scheduler of a cold start (crates/clew/src/cold_start.rs).          *)
(*                                                                         *)
(* A plan is a graph of stages.  It is validated, and then one coordinator *)
(* thread admits ready stages within the budget of the host, hands them to *)
(* a thread pool and takes their results from a bounded channel, until all *)
(* are done or, after a first failure, none runs any more.  What a stage   *)
(* computes and how long it takes is left out, and with it the report.     *)
(***************************************************************************)
EXTENDS Naturals, Sequences, FiniteSets

CONSTANTS
  Stages,             \* stage ids; the code orders them as strings, here as numbers
  Plans,              \* the dependencies a plan may give them
  Hosts,              \* resources a host may have: cpu and rss
  Cpu, Rss,           \* max_cpu and max_rss_bytes of a stage
  Class, Instances,   \* class of a stage, and the limit it sets for it
  Key, NoKey,         \* exclusivity_key of a stage, or NoKey
  TotalCpu, TotalRss, \* what a set of stages needs together
  MaxWait             \* bound: heartbeats stop when a stage has waited so long

\* ResourceDescriptor::validate, DagScheduler::new and HostResources::bounded; and
\* what it means to be a total.
ASSUME DagAssumption ==
  /\ Stages \subseteq Nat /\ IsFiniteSet(Stages)
  /\ Plans \subseteq [Stages -> SUBSET Nat]
  /\ Hosts \subseteq [cpu : Nat \ {0}, rss : Nat \ {0}]
  /\ Cpu \in [Stages -> Nat \ {0}] /\ Rss \in [Stages -> Nat]
  /\ Instances \in [Stages -> Nat \ {0}]
  /\ DOMAIN Class = Stages /\ DOMAIN Key = Stages
  /\ MaxWait \in Nat

ASSUME TotalAssumption ==
  /\ TotalCpu \in [SUBSET Stages -> Nat] /\ TotalRss \in [SUBSET Stages -> Nat]
  /\ TotalCpu[{}] = 0 /\ TotalRss[{}] = 0
  /\ \A S \in SUBSET Stages : \A s \in Stages \ S :
       /\ TotalCpu[S \cup {s}] = TotalCpu[S] + Cpu[s]
       /\ TotalRss[S \cup {s}] = TotalRss[S] + Rss[s]
  /\ \A S, T \in SUBSET Stages :
       S \subseteq T => TotalCpu[S] <= TotalCpu[T] /\ TotalRss[S] <= TotalRss[T]

VARIABLES
  deps, host,           \* the plan, and where it is to run
  queue, counts, seen,  \* of the search for cycles
  popped,               \* history: the stages it has taken from the queue
  remaining, ready, wait, running, done, failed,
  admittedCpu, admittedRss, classes, exclusive,   \* Coordinator
  pc,                   \* step of execute
  firstError,           \* a stage has failed
  cancelled,            \* the flag shared with the stages
  job,                  \* what the pool does for each stage
  channel,              \* results on their way
  outcome               \* what execute returned

plan == <<deps, host>>
search == <<queue, counts, seen, popped>>
order == <<remaining, ready, wait, done, failed>>
admission == <<running, admittedCpu, admittedRss, classes, exclusive>>
pool == <<job, channel, cancelled>>
vars == <<plan, search, order, admission, pool, pc, firstError, outcome>>

Classes == {Class[s] : s \in Stages}

Return(o) == pc' = "returned" /\ outcome' = o

\* Execution goes on at l, unless the observer cannot write its event.
Emit(l) ==
  \/ pc' = l /\ UNCHANGED outcome
  \/ Return("unobserved")

Init ==
  /\ deps \in Plans /\ host \in Hosts
  /\ queue = {} /\ counts = [s \in Stages |-> 0] /\ seen = 0 /\ popped = {}
  /\ remaining = [s \in Stages |-> 0] /\ ready = {} /\ wait = [s \in Stages |-> 0]
  /\ running = {} /\ done = {} /\ failed = {}
  /\ admittedCpu = 0 /\ admittedRss = 0
  /\ classes = [c \in Classes |-> 0] /\ exclusive = {}
  /\ pc = "plan" /\ firstError = FALSE /\ cancelled = FALSE
  /\ job = [s \in Stages |-> "none"] /\ channel = <<>> /\ outcome = "none"

-----------------------------------------------------------------------------
(* ValidatedDag::new.                                                      *)

Fits(s) == Cpu[s] <= host.cpu /\ Rss[s] <= host.rss

WellFormed ==
  /\ Stages # {}
  /\ \A s \in Stages : Fits(s) /\ s \notin deps[s] /\ deps[s] \subseteq Stages

BeginSearch ==
  /\ pc = "plan" /\ WellFormed
  /\ remaining' = [s \in Stages |-> Cardinality(deps[s])]
  /\ counts' = remaining'
  /\ queue' = {s \in Stages : remaining'[s] = 0}
  /\ pc' = "search"
  /\ UNCHANGED <<plan, seen, popped, ready, wait, done, failed, admission, pool, firstError, outcome>>

Reject ==
  /\ pc = "plan" /\ ~WellFormed
  /\ Return("rejected")
  /\ UNCHANGED <<plan, search, order, admission, pool, firstError>>

\* The counts of the stages that depend on s go down by one.
Less(count, s) == [t \in Stages |-> IF s \in deps[t] THEN count[t] - 1 ELSE count[t]]

\* Those that s was the last to hold up.
Released(count, s) == {t \in Stages : s \in deps[t] /\ count[t] = 1}

\* The result does not depend on the order of the queue, a set here.
Pop(s) ==
  /\ pc = "search" /\ s \in queue
  /\ seen' = seen + 1 /\ popped' = popped \cup {s}
  /\ counts' = Less(counts, s)
  /\ queue' = (queue \ {s}) \cup Released(counts, s)
  /\ UNCHANGED <<plan, order, admission, pool, pc, firstError, outcome>>

\* Mutant: the search ends when the queue is empty, and that is that.
EndSearchContent ==
  /\ pc = "search" /\ queue = {}
  /\ ready' = {s \in Stages : remaining[s] = 0}
  /\ Emit("admit")
  /\ UNCHANGED <<plan, search, remaining, wait, done, failed, admission, pool, firstError>>

\* All stages were reached, or there is a cycle.  Coordinator::new
EndSearch ==
  /\ pc = "search" /\ queue = {}
  /\ IF seen = Cardinality(Stages)
       THEN ready' = {s \in Stages : remaining[s] = 0} /\ Emit("admit")
       ELSE Return("rejected") /\ UNCHANGED ready
  /\ UNCHANGED <<plan, search, remaining, wait, done, failed, admission, pool, firstError>>

-----------------------------------------------------------------------------
(* DagScheduler::execute: admission.                                       *)

\* Mutant: the limit of the class is not looked up.
CanAdmitAnyClass(s) ==
  /\ admittedCpu + Cpu[s] <= host.cpu
  /\ admittedRss + Rss[s] <= host.rss
  /\ Key[s] # NoKey => Key[s] \notin exclusive

CanAdmit(s) ==
  /\ admittedCpu + Cpu[s] <= host.cpu
  /\ admittedRss + Rss[s] <= host.rss
  /\ classes[Class[s]] < Instances[s]
  /\ Key[s] # NoKey => Key[s] \notin exclusive

\* ready goes before s: it has waited for more rounds, or as long and its id is less.
Before(w, r, s) == w[r] > w[s] \/ (w[r] = w[s] /\ r < s)

\* next_admissible: every ready stage has waited for one more round.
Waited == [s \in Stages |-> wait[s] + (IF s \in ready THEN 1 ELSE 0)]

\* start, its event, and spawn_stage.
Admit(s) ==
  /\ pc = "admit" /\ done # Stages /\ ~firstError
  /\ s \in ready /\ CanAdmit(s)
  /\ \A r \in ready : Before(Waited, r, s) => ~CanAdmit(r)
  /\ wait' = Waited
  /\ ready' = ready \ {s} /\ running' = running \cup {s}
  /\ admittedCpu' = admittedCpu + Cpu[s] /\ admittedRss' = admittedRss + Rss[s]
  /\ classes' = [classes EXCEPT ![Class[s]] = @ + 1]
  /\ exclusive' = exclusive \cup ({Key[s]} \ {NoKey})
  /\ \/ job' = [job EXCEPT ![s] = "queued"] /\ UNCHANGED <<pc, outcome>>
     \/ Return("unobserved") /\ UNCHANGED job
  /\ UNCHANGED <<plan, search, remaining, done, failed, channel, cancelled, firstError>>

Admissible == ~firstError /\ \E s \in ready : CanAdmit(s)

\* Mutant: the first failure is returned at once.
StopAdmittingHasty ==
  /\ pc = "admit" /\ done # Stages /\ ~Admissible
  /\ wait' = IF firstError THEN wait ELSE Waited
  /\ IF firstError THEN Return("failed")
     ELSE IF running = {} THEN Return("stalled")
     ELSE pc' = "receive" /\ UNCHANGED outcome
  /\ UNCHANGED <<plan, search, remaining, ready, done, failed, admission, pool, firstError>>

\* Nothing more can be admitted; if nothing runs either, that is the end.
StopAdmitting ==
  /\ pc = "admit" /\ done # Stages /\ ~Admissible
  /\ wait' = IF firstError THEN wait ELSE Waited
  /\ IF running # {} THEN pc' = "receive" /\ UNCHANGED outcome
     ELSE Return(IF firstError THEN "failed" ELSE "stalled")
  /\ UNCHANGED <<plan, search, remaining, ready, done, failed, admission, pool, firstError>>

AllDone ==
  /\ pc = "admit" /\ done = Stages
  /\ \/ Return(IF firstError THEN "failed" ELSE "ready")
     \/ ~firstError /\ Return("unobserved")
  /\ UNCHANGED <<plan, search, order, admission, pool, firstError>>

-----------------------------------------------------------------------------
(* DagScheduler::execute: results.                                         *)

Heartbeat ==
  /\ pc = "receive" /\ channel = <<>>
  /\ \A s \in ready : wait[s] < MaxWait
  /\ Emit("admit")
  /\ UNCHANGED <<plan, search, order, admission, pool, firstError>>

\* saturating_sub
Minus(a, b) == IF a > b THEN a - b ELSE 0

\* Mutant: the exclusivity key is kept.
ReleaseNoKey(s) ==
  /\ running' = running \ {s}
  /\ admittedCpu' = Minus(admittedCpu, Cpu[s]) /\ admittedRss' = Minus(admittedRss, Rss[s])
  /\ classes' = [classes EXCEPT ![Class[s]] = Minus(@, 1)]
  /\ UNCHANGED exclusive

Release(s) ==
  /\ running' = running \ {s}
  /\ admittedCpu' = Minus(admittedCpu, Cpu[s]) /\ admittedRss' = Minus(admittedRss, Rss[s])
  /\ classes' = [classes EXCEPT ![Class[s]] = Minus(@, 1)]
  /\ exclusive' = exclusive \ {Key[s]}

\* The errors finish and release give for results that make no sense.
Senseless(m) ==
  \/ m.id \notin running
  \/ m.ok /\ \E t \in Stages : m.id \in deps[t] /\ remaining[t] = 0

\* Mutant: a stage is ready when a first dependency is done.
FinishEager(s) ==
  /\ Release(s)
  /\ done' = done \cup {s}
  /\ remaining' = Less(remaining, s)
  /\ ready' = ready \cup {t \in Stages : s \in deps[t] /\ t \notin running \cup done}
  /\ UNCHANGED <<failed, cancelled, firstError>>

Finish(s) ==
  /\ Release(s)
  /\ done' = done \cup {s}
  /\ remaining' = Less(remaining, s)
  /\ ready' = ready \cup Released(remaining, s)
  /\ UNCHANGED <<failed, cancelled, firstError>>

\* Mutant: a failed stage keeps its place among the running ones.
FailUnreleased(s) ==
  /\ failed' = failed \cup {s}
  /\ cancelled' = TRUE /\ firstError' = TRUE
  /\ UNCHANGED <<admission, remaining, ready, done>>

Fail(s) ==
  /\ Release(s)
  /\ failed' = failed \cup {s}
  /\ cancelled' = TRUE /\ firstError' = TRUE
  /\ UNCHANGED <<remaining, ready, done>>

Receive ==
  /\ pc = "receive" /\ channel # <<>>
  /\ channel' = Tail(channel)
  /\ IF Senseless(Head(channel))
       THEN Return("senseless") /\ UNCHANGED <<order, admission, cancelled, firstError>>
       ELSE /\ IF Head(channel).ok THEN Finish(Head(channel).id) ELSE Fail(Head(channel).id)
            /\ Emit("admit")
            /\ UNCHANGED wait
  /\ UNCHANGED <<plan, search, job>>

Coordinate ==
  \/ BeginSearch \/ Reject \/ (\E s \in Stages : Pop(s)) \/ EndSearch
  \/ (\E s \in Stages : Admit(s)) \/ StopAdmitting \/ AllDone
  \/ Heartbeat \/ Receive

-----------------------------------------------------------------------------
(* spawn_stage: the pool has a thread per cpu.                             *)

Busy == {s \in Stages : job[s] \in {"executing", "ok", "error"}}

\* Mutant: a channel for one result.
CapacityOne == 1

Capacity == 2 * host.cpu

BeginJob(s) ==
  /\ job[s] = "queued" /\ Cardinality(Busy) < host.cpu
  /\ job' = [job EXCEPT ![s] = IF cancelled THEN "error" ELSE "executing"]
  /\ UNCHANGED <<plan, search, order, admission, channel, cancelled, pc, firstError, outcome>>

EndJob(s) ==
  /\ job[s] = "executing"
  /\ \E result \in {"ok", "error"} : job' = [job EXCEPT ![s] = result]
  /\ UNCHANGED <<plan, search, order, admission, channel, cancelled, pc, firstError, outcome>>

\* Once execute has returned there is no receiver, and the result is dropped.
Send(s) ==
  /\ job[s] \in {"ok", "error"}
  /\ \/ /\ pc # "returned" /\ Len(channel) < Capacity
        /\ channel' = Append(channel, [id |-> s, ok |-> job[s] = "ok"])
     \/ pc = "returned" /\ UNCHANGED channel
  /\ job' = [job EXCEPT ![s] = "sent"]
  /\ UNCHANGED <<plan, search, order, admission, cancelled, pc, firstError, outcome>>

Job(s) == BeginJob(s) \/ EndJob(s) \/ Send(s)

Next == Coordinate \/ \E s \in Stages : Job(s)

Spec == Init /\ [][Next]_vars

\* The threads are scheduled, and what a stage executes comes to an end.
FairSpec ==
  /\ Spec
  /\ WF_vars(Coordinate)
  /\ \A s \in Stages : WF_vars(Job(s))

-----------------------------------------------------------------------------
(* Properties.                                                             *)

\* The stages that hold resources of the host: spawned, and not yet reported.
Active == {s \in Stages : job[s] \in {"queued", "executing", "ok", "error"}}

\* Type correctness of plan, Coordinator and pool.
TypeOK ==
  /\ deps \in Plans /\ host \in Hosts
  /\ queue \subseteq Stages /\ popped \subseteq Stages /\ seen \in Nat
  /\ counts \in [Stages -> Nat] /\ remaining \in [Stages -> Nat] /\ wait \in [Stages -> Nat]
  /\ ready \subseteq Stages /\ running \subseteq Stages
  /\ done \subseteq Stages /\ failed \subseteq Stages
  /\ admittedCpu \in Nat /\ admittedRss \in Nat
  /\ classes \in [Classes -> Nat] /\ exclusive \subseteq {Key[s] : s \in Stages}
  /\ pc \in {"plan", "search", "admit", "receive", "returned"}
  /\ firstError \in BOOLEAN /\ cancelled \in BOOLEAN
  /\ job \in [Stages -> {"none", "queued", "executing", "ok", "error", "sent"}]
  /\ channel \in Seq([id : Stages, ok : BOOLEAN])
  /\ outcome \in {"none", "rejected", "unobserved", "stalled", "senseless", "failed", "ready"}

\* A set of stages each of which waits for another one of it.
Circular(S) == S # {} /\ \A s \in S : deps[s] \cap S # {}

\* A plan gets past ValidatedDag::new only if nothing in it waits for itself, and a
\* well-formed plan without such a circle is never turned away.
AcceptedIffAcyclic ==
  /\ pc \in {"admit", "receive"} => \A S \in SUBSET Stages : ~Circular(S)
  /\ outcome = "rejected" /\ WellFormed => \E S \in SUBSET Stages : Circular(S)

\* What the stages at work may use together stays within the budget of the host, no
\* two of them hold the same exclusivity key, and a class has no more instances than
\* the most any of its stages allows (can_admit, release).
WithinBudget ==
  /\ TotalCpu[Active] <= host.cpu /\ TotalRss[Active] <= host.rss
  /\ \A s, t \in Active : s # t /\ Key[s] = Key[t] => Key[s] = NoKey
  /\ \A s \in Active : \E t \in Stages :
       /\ Class[t] = Class[s]
       /\ Cardinality({r \in Active : Class[r] = Class[s]}) <= Instances[t]

\* A stage is spawned only when all it depends on has been done.
DependenciesFirst == \A s \in Stages : job[s] # "none" => deps[s] \subseteq done

\* The errors that execute, finish and release keep for a scheduler gone wrong are
\* never returned: with nothing running something is admissible, every result is of
\* a running stage, and no count of dependencies drops below zero.
NeverLost == outcome \notin {"stalled", "senseless"}

\* When execute returns a report or the error of a stage, nothing it has spawned is
\* still at work; with a report every stage is done, with an error one has failed.
QuietAtReturn ==
  /\ outcome \in {"ready", "failed"} => Active = {} /\ channel = <<>>
  /\ outcome = "ready" => done = Stages
  /\ outcome = "failed" => failed # {}

\* No thread of the pool is ever held up by a full channel, and no stage by a lack
\* of threads: admission counts the cpus of the host.
NobodyBlocks ==
  pc # "returned" =>
    \A s \in Stages :
      /\ job[s] = "queued" => Cardinality(Busy) < host.cpu
      /\ job[s] \in {"ok", "error"} => Len(channel) < Capacity

\* execute returns.
Returns == <>(pc = "returned")
=============================================================================
