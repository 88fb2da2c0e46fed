-------------------------- MODULE ColdStartDagProofs --------------------------
(***************************************************************************)
(* The scheduler of a cold start never gets lost, for every plan, host and *)
(* needs of the stages.                                                    *)
(***************************************************************************)
EXTENDS ColdStartDag, FiniteSetTheorems, TLAPS

Acyclic == \A S \in SUBSET Stages : ~Circular(S)

\* Nothing has been started yet.
Quiet ==
  /\ ready = {} /\ running = {} /\ done = {} /\ failed = {}
  /\ job = [s \in Stages |-> "none"] /\ channel = <<>> /\ firstError = FALSE
  /\ admittedCpu = 0 /\ admittedRss = 0
  /\ classes = [c \in Classes |-> 0] /\ exclusive = {}

\* What the search for cycles knows: a stage is in the queue or was taken from it
\* when all it depends on was taken, and no circle is among those.
Searched ==
  /\ popped \cap queue = {}
  /\ \A s \in popped \cup queue : deps[s] \subseteq popped
  /\ \A s \in Stages : deps[s] \subseteq popped => s \in popped \cup queue
  /\ \A s \in Stages : counts[s] = Cardinality(deps[s] \ popped)
  /\ seen = Cardinality(popped)
  /\ \A S \in SUBSET popped : ~Circular(S)

\* Where the stages are.
Placed ==
  /\ ready \cap (running \cup done \cup failed) = {}
  /\ running \cap (done \cup failed) = {}
  /\ done \cap failed = {}
  /\ \A s \in ready \cup running \cup done \cup failed : deps[s] \subseteq done
  /\ \A s \in Stages : job[s] # "none" => s \in running \cup done \cup failed
  /\ Active \subseteq running

\* How many stages of S are of class c.
InClass(S, c) == Cardinality({s \in S : Class[s] = c})

\* The accounts of the coordinator are those of the running stages.
Accounted ==
  /\ admittedCpu = TotalCpu[running] /\ admittedCpu <= host.cpu
  /\ admittedRss = TotalRss[running] /\ admittedRss <= host.rss
  /\ \A c \in Classes :
       /\ classes[c] = InClass(running, c)
       /\ classes[c] # 0 => \E t \in Stages : Class[t] = c /\ classes[c] <= Instances[t]
  /\ exclusive = {Key[s] : s \in running} \ {NoKey}
  /\ \A s, t \in running : s # t /\ Key[s] = Key[t] => Key[s] = NoKey

\* The coordinator at work.
Working ==
  /\ WellFormed /\ Acyclic
  /\ \A s \in Stages : remaining[s] = Cardinality(deps[s] \ done)
  /\ \A s \in Stages : deps[s] \subseteq done => s \in ready \cup running \cup done \cup failed
  /\ firstError <=> failed # {}
  /\ pc = "receive" => running # {}
  /\ \A s \in running : job[s] # "none"
  /\ \A i \in DOMAIN channel :
       channel[i].id \in running /\ job[channel[i].id] = "sent"
  /\ \A i, j \in DOMAIN channel : channel[i].id = channel[j].id => i = j

\* What may be returned.
Returned ==
  /\ outcome \in {"rejected", "unobserved", "failed", "ready"}
  /\ outcome = "rejected" /\ WellFormed => \E S \in SUBSET Stages : Circular(S)
  /\ outcome \in {"ready", "failed"} => Active = {} /\ channel = <<>>
  /\ outcome = "ready" => done = Stages
  /\ outcome = "failed" => failed # {}

\* The inductive invariant.
IInv ==
  /\ TypeOK /\ Placed /\ Accounted
  /\ pc = "plan" => Quiet /\ popped = {} /\ seen = 0
  /\ pc = "search" =>
       /\ Quiet /\ WellFormed /\ Searched
       /\ remaining = [s \in Stages |-> Cardinality(deps[s])]
  /\ pc \in {"admit", "receive"} => Working
  /\ pc = "returned" => Returned
  /\ pc # "returned" => outcome = "none"

-----------------------------------------------------------------------------
(* Counting.                                                               *)

\* A finite set without P loses one element when P takes one of its elements in.
LEMMA CountLess ==
  ASSUME NEW T, IsFiniteSet(T), NEW P, NEW s \in T, s \notin P
  PROVE  /\ Cardinality(T \ P) \in Nat \ {0}
         /\ Cardinality(T \ (P \cup {s})) = Cardinality(T \ P) - 1
         /\ Cardinality(T \ P) = 1 <=> T \subseteq P \cup {s}
<1>1. IsFiniteSet(T \ P)
  BY FS_Difference, Zenon
<1>2. /\ Cardinality(T \ P) \in Nat
      /\ IsFiniteSet((T \ P) \ {s})
      /\ Cardinality((T \ P) \ {s}) = Cardinality(T \ P) - 1
      /\ Cardinality((T \ P) \ {s}) \in Nat
  BY <1>1, FS_RemoveElement, FS_CardinalityType, Zenon
<1>3. (T \ P) \ {s} = T \ (P \cup {s})
  OBVIOUS
<1>4. Cardinality((T \ P) \ {s}) = 0 <=> (T \ P) \ {s} = {}
  BY <1>2, FS_EmptySet
<1> QED
  BY <1>2, <1>3, <1>4

\* What Less and Released make of the counts of what is missing besides P, when s is
\* added to P.
LEMMA CountsLess ==
  ASSUME NEW f, NEW s \in Stages, NEW P, s \notin P, NEW t \in Stages,
         IsFiniteSet(deps[t]), f[t] = Cardinality(deps[t] \ P)
  PROVE  /\ Less(f, s)[t] = Cardinality(deps[t] \ (P \cup {s}))
         /\ Less(f, s)[t] \in Nat
         /\ t \in Released(f, s) <=> s \in deps[t] /\ deps[t] \subseteq P \cup {s}
         /\ s \in deps[t] => f[t] # 0
<1>0. IsFiniteSet(deps[t]) /\ f[t] = Cardinality(deps[t] \ P)
  OBVIOUS
<1>1. CASE s \in deps[t]
  <2>1. /\ Cardinality(deps[t] \ P) \in Nat \ {0}
        /\ Cardinality(deps[t] \ (P \cup {s})) = Cardinality(deps[t] \ P) - 1
        /\ Cardinality(deps[t] \ P) = 1 <=> deps[t] \subseteq P \cup {s}
    BY <1>0, <1>1, CountLess
  <2>2. Less(f, s)[t] = f[t] - 1
    BY <1>1 DEF Less
  <2>3. t \in Released(f, s) <=> f[t] = 1
    BY <1>1 DEF Released
  <2> QED
    BY <1>0, <1>1, <2>1, <2>2, <2>3
<1>2. CASE s \notin deps[t]
  <2>1. deps[t] \ (P \cup {s}) = deps[t] \ P
    BY <1>2
  <2>2. Cardinality(deps[t] \ P) \in Nat
    BY <1>0, FS_Difference, FS_CardinalityType, Zenon
  <2>3. Less(f, s)[t] = f[t] /\ t \notin Released(f, s)
    BY <1>2 DEF Less, Released
  <2> QED
    BY <1>0, <1>2, <2>1, <2>2, <2>3
<1> QED
  BY <1>1, <1>2

\* The stages of a well-formed plan have finitely many dependencies, all stages.
LEMMA FiniteDependencies ==
  ASSUME WellFormed
  PROVE  \A s \in Stages : deps[s] \subseteq Stages /\ IsFiniteSet(deps[s])
BY DagAssumption, FS_Subset DEF WellFormed

\* A stage whose dependencies are all in a set without circles completes no circle.
LEMMA NoNewCircle ==
  ASSUME NEW P \in SUBSET Stages, NEW s \in Stages \ P,
         \A t \in P \cup {s} : deps[t] \subseteq P,
         \A S \in SUBSET P : ~Circular(S)
  PROVE  \A S \in SUBSET (P \cup {s}) : ~Circular(S)
<1> SUFFICES ASSUME NEW S \in SUBSET (P \cup {s}), Circular(S) PROVE FALSE
  OBVIOUS
<1>1. \A t \in S : deps[t] \cap (S \ {s}) # {}
  BY DEF Circular
<1>2. S \ {s} # {}
  BY <1>1 DEF Circular
<1>3. Circular(S \ {s})
  BY <1>1, <1>2, Zenon DEF Circular
<1> QED
  BY <1>3

-----------------------------------------------------------------------------
(* The accounts.                                                           *)

\* Types of the resources, for the steps below.
LEMMA Resources ==
  /\ Cpu \in [Stages -> Nat \ {0}] /\ Rss \in [Stages -> Nat]
  /\ Instances \in [Stages -> Nat \ {0}]
  /\ TotalCpu \in [SUBSET Stages -> Nat] /\ TotalRss \in [SUBSET Stages -> Nat]
  /\ TotalCpu[{}] = 0 /\ TotalRss[{}] = 0
  /\ \A S \in SUBSET Stages : IsFiniteSet(S) /\ Cardinality(S) \in Nat
  /\ \A h \in Hosts : h.cpu \in Nat /\ h.rss \in Nat
<1>1. \A S \in SUBSET Stages : IsFiniteSet(S) /\ Cardinality(S) \in Nat
  BY DagAssumption, FS_Subset, FS_CardinalityType, Zenon
<1> QED
  BY <1>1, DagAssumption, TotalAssumption

\* The number of stages of a class, when a stage comes or goes.
LEMMA ClassCount ==
  ASSUME NEW S \in SUBSET Stages, NEW s \in Stages \ S, NEW c
  PROVE  /\ InClass(S, c) \in Nat
         /\ InClass(S \cup {s}, c) = InClass(S, c) + (IF Class[s] = c THEN 1 ELSE 0)
<1> DEFINE A == {r \in S : Class[r] = c}
           B == {r \in S \cup {s} : Class[r] = c}
<1>1. IsFiniteSet(A) /\ Cardinality(A) \in Nat
  BY Resources
<1>2. CASE Class[s] = c
  <2>1. B = A \cup {s} /\ s \notin A
    BY <1>2
  <2>2. Cardinality(A \cup {s}) = Cardinality(A) + 1
    BY <1>1, <2>1, FS_AddElement
  <2> QED
    BY <1>1, <1>2, <2>1, <2>2 DEF InClass
<1>3. CASE Class[s] # c
  <2>1. B = A
    BY <1>3
  <2> QED
    BY <1>1, <1>3, <2>1 DEF InClass
<1> QED
  BY <1>2, <1>3

\* Admission keeps the accounts.
LEMMA AdmissionAccounted ==
  ASSUME TypeOK, Accounted, NEW s \in Stages \ running, CanAdmit(s), host' = host,
         running' = running \cup {s},
         admittedCpu' = admittedCpu + Cpu[s], admittedRss' = admittedRss + Rss[s],
         classes' = [classes EXCEPT ![Class[s]] = @ + 1],
         exclusive' = exclusive \cup ({Key[s]} \ {NoKey})
  PROVE  /\ Accounted'
         /\ admittedCpu' \in Nat /\ admittedRss' \in Nat /\ classes' \in [Classes -> Nat]
         /\ running' \subseteq Stages /\ exclusive' \subseteq {Key[r] : r \in Stages}
<1>0. /\ running \in SUBSET Stages /\ host \in Hosts /\ admittedCpu \in Nat /\ admittedRss \in Nat
      /\ classes \in [Classes -> Nat] /\ exclusive \subseteq {Key[r] : r \in Stages}
      /\ Class[s] \in Classes
  BY DEF TypeOK, Classes
<1>1. /\ admittedCpu' = TotalCpu[running'] /\ admittedCpu' <= host'.cpu
      /\ admittedRss' = TotalRss[running'] /\ admittedRss' <= host'.rss
  BY <1>0, TotalAssumption DEF Accounted, CanAdmit
<1>2. ASSUME NEW c \in Classes
      PROVE  /\ classes'[c] = InClass(running', c)
             /\ classes'[c] # 0 =>
                  \E t \in Stages : Class[t] = c /\ classes'[c] <= Instances[t]
  <2>1. InClass(running', c) = classes[c] + (IF Class[s] = c THEN 1 ELSE 0)
    BY <1>0, ClassCount DEF Accounted
  <2>2. classes'[c] = classes[c] + (IF Class[s] = c THEN 1 ELSE 0)
    BY <1>0
  <2>3. CASE Class[s] = c
    <3>1. classes[c] < Instances[s] /\ classes[c] \in Nat /\ Instances[s] \in Nat
      BY <1>0, <2>3, Resources DEF CanAdmit
    <3> QED
      BY <2>1, <2>2, <2>3, <3>1
  <2>4. CASE Class[s] # c
    <3>1. classes'[c] = classes[c] /\ classes[c] \in Nat
      BY <1>0, <2>2, <2>4
    <3> QED
      BY <2>1, <2>4, <3>1, <1>0 DEF Accounted
  <2> QED
    BY <2>3, <2>4
<1>3. exclusive' = {Key[r] : r \in running'} \ {NoKey}
  BY DEF Accounted
<1>4. \A r, t \in running' : r # t /\ Key[r] = Key[t] => Key[r] = NoKey
  BY DEF Accounted, CanAdmit
<1>5. /\ admittedCpu' \in Nat /\ admittedRss' \in Nat /\ classes' \in [Classes -> Nat]
      /\ running' \subseteq Stages /\ exclusive' \subseteq {Key[r] : r \in Stages}
  BY <1>0, <1>3, Resources
<1> QED
  BY <1>1, <1>2, <1>3, <1>4, <1>5, Zenon DEF Accounted

\* release keeps the accounts.
LEMMA ReleaseAccounted ==
  ASSUME TypeOK, Accounted, NEW s \in running, Release(s), host' = host
  PROVE  /\ Accounted'
         /\ admittedCpu' \in Nat /\ admittedRss' \in Nat /\ classes' \in [Classes -> Nat]
         /\ running' = running \ {s} /\ exclusive' \subseteq exclusive
<1> DEFINE S == running \ {s}
<1>0. /\ host \in Hosts /\ admittedCpu \in Nat /\ admittedRss \in Nat
      /\ classes \in [Classes -> Nat]
      /\ S \in SUBSET Stages /\ s \in Stages \ S /\ running = S \cup {s}
      /\ running' = S /\ Class[s] \in Classes
  BY DEF TypeOK, Classes, Release
<1> HIDE DEF S
<1>2. /\ TotalCpu[running] = TotalCpu[S] + Cpu[s] /\ TotalRss[running] = TotalRss[S] + Rss[s]
  BY <1>0, TotalAssumption
<1>3. /\ TotalCpu[S] \in Nat /\ TotalRss[S] \in Nat /\ Cpu[s] \in Nat /\ Rss[s] \in Nat
      /\ host.cpu \in Nat /\ host.rss \in Nat
  BY <1>0, Resources
<1>4. /\ admittedCpu' = TotalCpu[running'] /\ admittedCpu' <= host'.cpu
      /\ admittedRss' = TotalRss[running'] /\ admittedRss' <= host'.rss
  <2>1. /\ admittedCpu = TotalCpu[S] + Cpu[s] /\ admittedCpu <= host.cpu
        /\ admittedRss = TotalRss[S] + Rss[s] /\ admittedRss <= host.rss
    BY <1>2 DEF Accounted
  <2>2. admittedCpu' = Minus(admittedCpu, Cpu[s]) /\ admittedRss' = Minus(admittedRss, Rss[s])
    BY DEF Release
  <2>3. admittedCpu' = TotalCpu[S] /\ admittedRss' = TotalRss[S]
    BY <1>3, <2>1, <2>2 DEF Minus
  <2> QED
    BY <1>0, <1>3, <2>1, <2>3
<1>5. ASSUME NEW c \in Classes
      PROVE  /\ classes'[c] = InClass(running', c)
             /\ classes'[c] \in Nat /\ classes'[c] <= classes[c]
  <2>1. /\ InClass(S, c) \in Nat
        /\ classes[c] = InClass(S, c) + (IF Class[s] = c THEN 1 ELSE 0)
    BY <1>0, ClassCount DEF Accounted
  <2>2. classes'[c] = IF Class[s] = c THEN Minus(classes[c], 1) ELSE classes[c]
    BY <1>0 DEF Release
  <2> QED
    BY <1>0, <2>1, <2>2 DEF Minus
<1>6. ASSUME NEW c \in Classes, classes'[c] # 0
      PROVE  \E t \in Stages : Class[t] = c /\ classes'[c] <= Instances[t]
  <2>1. PICK t \in Stages : Class[t] = c /\ classes[c] <= Instances[t]
    BY <1>0, <1>5, <1>6 DEF Accounted
  <2> QED
    BY <1>0, <1>5, <2>1, Resources
<1>7. exclusive' = {Key[r] : r \in running'} \ {NoKey}
  BY <1>0 DEF Accounted, Release, S
<1>8. \A r, t \in running' : r # t /\ Key[r] = Key[t] => Key[r] = NoKey
  BY <1>0 DEF Accounted
<1>9. classes' \in [Classes -> Nat]
  <2>1. DOMAIN classes' = Classes /\ classes' = [c \in Classes |-> classes'[c]]
    BY <1>0, Zenon DEF Release
  <2> QED
    BY <1>5, <2>1
<1>10. admittedCpu' \in Nat /\ admittedRss' \in Nat
  BY <1>0, <1>3, <1>4
<1> QED
  BY <1>0, <1>4, <1>5, <1>6, <1>7, <1>8, <1>9, <1>10, Zenon DEF Accounted, Release

-----------------------------------------------------------------------------
(* Validation.                                                             *)

\* Before anything is started all accounts are empty.
LEMMA QuietPlaced ==
  ASSUME Quiet, host \in Hosts
  PROVE  Placed /\ Accounted
<1>1. \A c : InClass({}, c) = 0
  <2> SUFFICES ASSUME NEW c PROVE InClass({}, c) = 0
    OBVIOUS
  <2>1. {s \in {} : Class[s] = c} = {}
    OBVIOUS
  <2> QED
    BY <2>1, FS_EmptySet DEF InClass
<1>2. Placed
  BY DEF Quiet, Placed, Active
<1>3. /\ admittedCpu = TotalCpu[running] /\ admittedCpu <= host.cpu
      /\ admittedRss = TotalRss[running] /\ admittedRss <= host.rss
  BY Resources DEF Quiet
<1>4. \A c \in Classes : classes[c] = InClass(running, c) /\ classes[c] = 0
  BY <1>1 DEF Quiet
<1>5. /\ exclusive = {Key[s] : s \in running} \ {NoKey}
      /\ \A s, t \in running : s # t /\ Key[s] = Key[t] => Key[s] = NoKey
  BY DEF Quiet
<1> QED
  BY <1>2, <1>3, <1>4, <1>5 DEF Accounted

\* The invariant holds when execute is called.
LEMMA InitInv == Init => IInv
<1> SUFFICES ASSUME Init PROVE IInv
  OBVIOUS
<1>1. TypeOK
  <2>1. channel \in Seq([id : Stages, ok : BOOLEAN])
    BY DEF Init
  <2>2. /\ counts \in [Stages -> Nat] /\ remaining \in [Stages -> Nat] /\ wait \in [Stages -> Nat]
        /\ classes \in [Classes -> Nat]
        /\ job \in [Stages -> {"none", "queued", "executing", "ok", "error", "sent"}]
    BY DEF Init
  <2> QED
    BY <2>1, <2>2, Zenon DEF Init, TypeOK
<1>2. Quiet
  BY DEF Init, Quiet
<1>3. Placed /\ Accounted
  BY <1>1, <1>2, QuietPlaced DEF TypeOK
<1> QED
  BY <1>1, <1>2, <1>3 DEF Init, IInv

\* The search begins with the stages that depend on nothing.
LEMMA BeginSearchInv == IInv /\ BeginSearch => IInv'
<1> SUFFICES ASSUME IInv, BeginSearch PROVE IInv'
  OBVIOUS
<1> USE DEF plan, pool, admission
<1>1. /\ WellFormed' /\ WellFormed /\ deps' = deps /\ Quiet' /\ popped' = {} /\ seen' = 0
      /\ pc' = "search" /\ outcome' = "none"
  BY DEF IInv, BeginSearch, WellFormed, Fits, Quiet
<1>2. \A s \in Stages : deps[s] \subseteq Stages /\ IsFiniteSet(deps[s])
  BY <1>1, FiniteDependencies
<1>3. \A s \in Stages : Cardinality(deps[s]) \in Nat /\ (Cardinality(deps[s]) = 0 <=> deps[s] = {})
  BY <1>2, FS_CardinalityType, FS_EmptySet
<1>4. /\ remaining' = [s \in Stages |-> Cardinality(deps[s])]
      /\ remaining' \in [Stages -> Nat]
      /\ queue' = {s \in Stages : deps[s] = {}}
      /\ counts' = [s \in Stages |-> Cardinality(deps[s] \ {})]
  <2>1. \A s \in Stages : deps[s] \ {} = deps[s]
    OBVIOUS
  <2> QED
    BY <1>3, <2>1 DEF BeginSearch
<1>5. TypeOK'
  BY <1>4 DEF IInv, TypeOK, BeginSearch
<1>6. Searched'
  <2>1. seen' = Cardinality(popped')
    BY <1>1, FS_EmptySet
  <2>2. \A S \in SUBSET popped' : ~Circular(S)'
    BY <1>1 DEF Circular
  <2>3. \A s \in Stages : counts'[s] = Cardinality(deps'[s] \ popped')
    BY <1>1, <1>4
  <2> QED
    BY <1>1, <1>4, <2>1, <2>2, <2>3 DEF Searched
<1>7. Placed' /\ Accounted'
  BY <1>1, <1>5, QuietPlaced, PTL DEF TypeOK
<1> QED
  BY <1>1, <1>4, <1>5, <1>6, <1>7 DEF IInv

\* Steps that leave the stages where they are.
LEMMA FramePlaced ==
  ASSUME Placed, UNCHANGED <<deps, ready, running, done, failed, job>>
  PROVE  Placed'
BY DEF Placed, Active

\* Steps that leave the accounts as they are.
LEMMA FrameAccounted ==
  ASSUME Accounted, UNCHANGED <<host, admission>>
  PROVE  Accounted'
BY DEF Accounted, admission

\* A plan that is not well-formed is turned away before anything happens.
LEMMA RejectInv == IInv /\ Reject => IInv'
<1> SUFFICES ASSUME IInv, Reject PROVE IInv'
  OBVIOUS
<1> USE DEF Reject, Return, plan, search, order, admission, pool
<1>1. TypeOK'
  BY DEF IInv, TypeOK
<1>2. Placed' /\ Accounted'
  BY FramePlaced, FrameAccounted DEF IInv
<1>3. Returned'
  BY DEF Returned, WellFormed, Fits
<1> QED
  BY <1>1, <1>2, <1>3 DEF IInv

\* A stage taken from the queue releases the stages it was the last to hold up.
LEMMA PopInv == ASSUME NEW s \in Stages, IInv, Pop(s) PROVE IInv'
<1> USE DEF plan, order, admission, pool
<1>1. /\ pc = "search" /\ WellFormed /\ Searched /\ Quiet /\ TypeOK
      /\ remaining = [t \in Stages |-> Cardinality(deps[t])]
  BY DEF IInv, Pop
<1>2. /\ s \in queue /\ s \notin popped /\ popped \in SUBSET Stages /\ queue \subseteq Stages
      /\ deps[s] \subseteq popped
  BY <1>1 DEF Pop, Searched, TypeOK
<1>3. \A t \in Stages : deps[t] \subseteq Stages /\ IsFiniteSet(deps[t])
  BY <1>1, FiniteDependencies
<1>4. popped' = popped \cup {s} /\ deps' = deps /\ seen' = seen + 1
  BY DEF Pop
<1>5. /\ \A t \in Stages : counts'[t] = Cardinality(deps[t] \ popped')
      /\ counts' \in [Stages -> Nat]
      /\ queue' = (queue \ {s}) \cup {t \in Stages : s \in deps[t] /\ deps[t] \subseteq popped'}
  <2>1. \A t \in Stages : IsFiniteSet(deps[t]) /\ counts[t] = Cardinality(deps[t] \ popped)
    BY <1>1, <1>3, Zenon DEF Searched
  <2>2. \A t \in Stages :
           /\ Less(counts, s)[t] = Cardinality(deps[t] \ (popped \cup {s}))
           /\ Less(counts, s)[t] \in Nat
           /\ t \in Released(counts, s) <=> s \in deps[t] /\ deps[t] \subseteq popped \cup {s}
    <3> SUFFICES ASSUME NEW t \in Stages
                 PROVE  /\ Less(counts, s)[t] = Cardinality(deps[t] \ (popped \cup {s}))
                        /\ Less(counts, s)[t] \in Nat
                        /\ t \in Released(counts, s) <=> s \in deps[t] /\ deps[t] \subseteq popped \cup {s}
      OBVIOUS
    <3>1. s \notin popped
      BY <1>2
    <3>2. IsFiniteSet(deps[t])
      BY <2>1, Zenon
    <3>3. counts[t] = Cardinality(deps[t] \ popped)
      BY <2>1
    <3> HIDE <2>1
    <3> QED
      BY <3>1, <3>2, <3>3, CountsLess, SMTT(20)
  <2>3. counts' = Less(counts, s) /\ queue' = (queue \ {s}) \cup Released(counts, s)
    BY DEF Pop
  <2>4. counts' \in [Stages -> Nat]
    BY <2>2, <2>3, Zenon DEF Less
  <2>5. Released(counts, s) = {t \in Stages : s \in deps[t] /\ deps[t] \subseteq popped'}
    BY <1>4, <2>2, Zenon DEF Released
  <2> QED
    BY <1>4, <2>2, <2>3, <2>4, <2>5
<1>6. TypeOK'
  BY <1>1, <1>2, <1>4, <1>5 DEF Pop, TypeOK
<1>7. Searched'
  <2>1. popped' \cap queue' = {}
    <3> SUFFICES ASSUME NEW t \in popped', t \in queue' PROVE FALSE
      OBVIOUS
    <3>1. deps[t] \subseteq popped
      BY <1>2, <1>4 DEF Searched, IInv, Pop
    <3>2. s \notin deps[t]
      BY <1>2, <3>1
    <3> QED
      BY <1>1, <1>4, <1>5, <3>2 DEF Searched
  <2>2. \A t \in popped' \cup queue' : deps[t] \subseteq popped'
    BY <1>1, <1>2, <1>4, <1>5 DEF Searched
  <2>3. \A t \in Stages : deps[t] \subseteq popped' => t \in popped' \cup queue'
    BY <1>1, <1>2, <1>4, <1>5 DEF Searched
  <2>4. seen' = Cardinality(popped')
    BY <1>1, <1>2, <1>4, Resources, FS_AddElement DEF Searched
  <2>5. \A S \in SUBSET popped' : ~Circular(S)
    <3>1. \A t \in popped \cup {s} : deps[t] \subseteq popped
      BY <1>1, <1>2 DEF Searched
    <3>2. \A S \in SUBSET popped : ~Circular(S)
      BY <1>1 DEF Searched
    <3> QED
      BY <1>2, <1>4, <3>1, <3>2, NoNewCircle
  <2>6. \A S \in SUBSET popped' : ~Circular(S)'
    BY <1>4, <2>5 DEF Circular
  <2> QED
    BY <1>4, <1>5, <2>1, <2>2, <2>3, <2>4, <2>6 DEF Searched
<1>8. Quiet' /\ WellFormed' /\ pc' = "search" /\ outcome' = "none" /\ remaining' = remaining
  BY <1>1 DEF Quiet, WellFormed, Fits, Pop, IInv
<1>9. Placed' /\ Accounted'
  BY FramePlaced, FrameAccounted DEF IInv, Pop
<1> QED
  BY <1>1, <1>4, <1>6, <1>7, <1>8, <1>9, Zenon DEF IInv

\* The queue is empty and not all stages came through it: the others wait for each other.
LEMMA EndSearchInv == IInv /\ EndSearch => IInv'
<1> SUFFICES ASSUME IInv, EndSearch PROVE IInv'
  OBVIOUS
<1> USE DEF plan, search, admission, pool
<1>1. /\ pc = "search" /\ WellFormed /\ Searched /\ Quiet /\ TypeOK /\ queue = {}
      /\ remaining = [t \in Stages |-> Cardinality(deps[t])] /\ outcome = "none"
  BY Zenon DEF IInv, EndSearch
<1>2. /\ deps' = deps /\ UNCHANGED <<plan, search, remaining, wait, done, failed, admission, pool, firstError>>
  BY DEF EndSearch
<1>3. \A t \in Stages : deps[t] \subseteq Stages /\ IsFiniteSet(deps[t])
  BY <1>1, FiniteDependencies
<1>4. popped \subseteq Stages /\ IsFiniteSet(Stages) /\ IsFiniteSet(popped)
  BY <1>1, DagAssumption, Resources DEF TypeOK
<1>5. seen = Cardinality(Stages) <=> popped = Stages
  BY <1>1, <1>4, FS_Subset DEF Searched
<1>6. Accounted'
  BY <1>2, FrameAccounted DEF IInv
<1>7. CASE seen # Cardinality(Stages)
  <2>1. pc' = "returned" /\ outcome' = "rejected" /\ ready' = ready
    BY <1>7 DEF EndSearch, Return
  <2>2. Circular(Stages \ popped)
    <3>1. Stages \ popped # {}
      BY <1>4, <1>5, <1>7
    <3>2. ASSUME NEW t \in Stages \ popped PROVE deps[t] \cap (Stages \ popped) # {}
      BY <1>1, <1>3 DEF Searched
    <3> QED
      BY <3>1, <3>2 DEF Circular
  <2>3. \E S \in SUBSET Stages : Circular(S)'
    <3>1. Circular(Stages \ popped)'
      BY <1>2, <2>2 DEF Circular
    <3>2. (Stages \ popped)' = Stages \ popped
      BY <1>2
    <3> QED
      BY <1>2, <3>1, <3>2, Zenon DEF Circular
  <2>4. Returned'
    BY <2>1, <2>3 DEF Returned
  <2>5. TypeOK'
    BY <1>1, <1>2, <2>1 DEF TypeOK
  <2>6. Placed'
    BY <1>2, <2>1, FramePlaced DEF IInv
  <2> QED
    BY <1>6, <2>1, <2>4, <2>5, <2>6 DEF IInv
<1>8. CASE seen = Cardinality(Stages)
  <2>1. /\ ready' = {s \in Stages : remaining[s] = 0}
        /\ \/ pc' = "admit" /\ outcome' = "none"
           \/ pc' = "returned" /\ outcome' = "unobserved"
    BY <1>1, <1>8 DEF EndSearch, Emit, Return
  <2>2. ready' = {s \in Stages : deps[s] = {}}
    <3>1. \A s \in Stages : Cardinality(deps[s]) = 0 <=> deps[s] = {}
      BY <1>3, FS_EmptySet
    <3> QED
      BY <1>1, <2>1, <3>1
  <2>3. TypeOK'
    BY <1>1, <1>2, <2>1 DEF TypeOK
  <2>4. Placed'
    BY <1>1, <1>2, <2>2 DEF Placed, Quiet, Active
  <2>5. CASE pc' = "admit"
    <3>1. WellFormed' /\ Acyclic'
      <4>1. \A S \in SUBSET Stages : ~Circular(S)
        BY <1>1, <1>5, <1>8 DEF Searched
      <4>2. WellFormed'
        BY <1>1, <1>2 DEF WellFormed, Fits
      <4> QED
        BY <1>2, <4>1, <4>2 DEF Acyclic, Circular
    <3>2. \A s \in Stages : remaining'[s] = Cardinality(deps'[s] \ done')
      <4>1. \A s \in Stages : deps[s] \ {} = deps[s]
        OBVIOUS
      <4>2. done' = {} /\ remaining' = remaining
        BY <1>1, <1>2 DEF Quiet
      <4> QED
        BY <1>1, <1>2, <4>1, <4>2
    <3>3. /\ \A s \in Stages : deps'[s] \subseteq done' => s \in ready'
          /\ running' = {} /\ failed' = {} /\ channel' = <<>> /\ firstError' = FALSE
      BY <1>1, <1>2, <2>2 DEF Quiet
    <3>4. Working'
      BY <2>5, <3>1, <3>2, <3>3 DEF Working
    <3> QED
      BY <1>6, <2>1, <2>3, <2>4, <2>5, <3>4 DEF IInv
  <2>6. CASE pc' = "returned"
    BY <1>6, <2>1, <2>3, <2>4, <2>6 DEF IInv, Returned
  <2> QED
    BY <2>1, <2>5, <2>6
<1> QED
  BY <1>7, <1>8

-----------------------------------------------------------------------------
(* Admission.                                                              *)

\* The plan stays valid.
LEMMA FramePlan ==
  ASSUME UNCHANGED <<deps, host>>
  PROVE  (WellFormed' <=> WellFormed) /\ (Acyclic' <=> Acyclic)
BY DEF WellFormed, Fits, Acyclic, Circular

\* Waiting rounds are counted in natural numbers.
LEMMA WaitedType ==
  ASSUME wait \in [Stages -> Nat]
  PROVE  Waited \in [Stages -> Nat]
BY DEF Waited

\* An admitted stage moves from ready to running with all it depends on done.
LEMMA AdmitInv == ASSUME NEW s \in Stages, IInv, Admit(s) PROVE IInv'
<1> USE DEF plan, search
<1>1. /\ TypeOK /\ Placed /\ Accounted /\ Working /\ outcome = "none" /\ pc = "admit"
      /\ s \in ready /\ CanAdmit(s)
  BY DEF IInv, Admit
<1>2. /\ UNCHANGED <<deps, host, queue, counts, seen, popped, remaining, done, failed, channel, cancelled, firstError>>
      /\ ready' = ready \ {s} /\ running' = running \cup {s} /\ wait' = Waited
  BY DEF Admit
<1>3. s \notin running /\ s \notin done /\ s \notin failed /\ deps[s] \subseteq done
  BY <1>1 DEF Placed
<1>4. /\ Accounted'
      /\ admittedCpu' \in Nat /\ admittedRss' \in Nat /\ classes' \in [Classes -> Nat]
      /\ running' \subseteq Stages /\ exclusive' \subseteq {Key[r] : r \in Stages}
  <2>1. /\ admittedCpu' = admittedCpu + Cpu[s] /\ admittedRss' = admittedRss + Rss[s]
        /\ classes' = [classes EXCEPT ![Class[s]] = @ + 1]
        /\ exclusive' = exclusive \cup ({Key[s]} \ {NoKey})
    BY Zenon DEF Admit
  <2> QED
    BY <1>1, <1>2, <1>3, <2>1, AdmissionAccounted, Zenon
<1>5. \/ job' = [job EXCEPT ![s] = "queued"] /\ pc' = "admit" /\ outcome' = "none"
      \/ job' = job /\ pc' = "returned" /\ outcome' = "unobserved"
  BY <1>1 DEF Admit, Return
<1>6. TypeOK'
  <2>1. Waited \in [Stages -> Nat]
    BY <1>1, WaitedType DEF TypeOK
  <2>2. job' \in [Stages -> {"none", "queued", "executing", "ok", "error", "sent"}]
    BY <1>1, <1>5, Zenon DEF TypeOK
  <2> QED
    BY <1>1, <1>2, <1>4, <1>5, <2>1, <2>2 DEF TypeOK
<1>7. \A t \in Stages : t # s => job'[t] = job[t]
  BY <1>1, <1>5 DEF TypeOK
<1>8. Placed'
  <2>1. /\ ready' \cap (running' \cup done' \cup failed') = {}
        /\ running' \cap (done' \cup failed') = {}
        /\ done' \cap failed' = {}
        /\ \A t \in ready' \cup running' \cup done' \cup failed' : deps'[t] \subseteq done'
    BY <1>1, <1>2, <1>3, Zenon DEF Placed
  <2>2. \A t \in Stages : job'[t] # "none" => t \in running' \cup done' \cup failed'
    BY <1>1, <1>2, <1>7 DEF Placed
  <2>3. Active' \subseteq running'
    BY <1>1, <1>2, <1>7, Zenon DEF Placed, Active
  <2> QED
    BY <2>1, <2>2, <2>3 DEF Placed
<1>9. CASE pc' = "admit"
  <2>1. WellFormed' /\ Acyclic'
    BY <1>1, <1>2, FramePlan, Zenon DEF Working
  <2>2. job'[s] = "queued"
    BY <1>1, <1>5, <1>9, Zenon DEF TypeOK
  <2>3. /\ \A t \in Stages : remaining'[t] = Cardinality(deps'[t] \ done')
        /\ \A t \in Stages : deps'[t] \subseteq done' => t \in ready' \cup running' \cup done' \cup failed'
        /\ firstError' <=> failed' # {}
    BY <1>1, <1>2 DEF Working
  <2>4. \A t \in running' : job'[t] # "none"
    BY <1>1, <1>2, <1>7, <2>2 DEF Working, TypeOK
  <2>5. /\ \A i \in DOMAIN channel' : channel'[i].id \in running' /\ job'[channel'[i].id] = "sent"
        /\ \A i, j \in DOMAIN channel' : channel'[i].id = channel'[j].id => i = j
    <3>1. \A i \in DOMAIN channel : channel[i].id \in running /\ job[channel[i].id] = "sent"
      BY <1>1 DEF Working
    <3>2. \A i, j \in DOMAIN channel : channel[i].id = channel[j].id => i = j
      BY <1>1 DEF Working
    <3>3. running \subseteq Stages
      BY <1>1 DEF TypeOK
    <3> QED
      BY <1>2, <1>3, <1>7, <3>1, <3>2, <3>3
  <2>6. Working'
    BY <1>9, <2>1, <2>3, <2>4, <2>5 DEF Working
  <2> QED
    BY <1>4, <1>5, <1>6, <1>8, <1>9, <2>6 DEF IInv
<1>10. CASE pc' = "returned"
  BY <1>4, <1>5, <1>6, <1>8, <1>10 DEF IInv, Returned
<1> QED
  BY <1>5, <1>9, <1>10, Zenon

\* While nothing runs and nothing has failed, some stage can be admitted or all are
\* done: among the stages that are not done one depends on none of the others, so it
\* is ready, and with empty accounts it fits.
LEMMA SomeAdmissible ==
  ASSUME TypeOK, Placed, Accounted, Working, running = {}, failed = {}, done # Stages
  PROVE  \E s \in ready : CanAdmit(s)
<1>1. PICK s \in Stages \ done : deps[s] \cap (Stages \ done) = {}
  <2>1. ~Circular(Stages \ done)
    BY DEF Working, Acyclic
  <2>2. Stages \ done # {}
    BY Zenon DEF TypeOK
  <2> QED
    BY <2>1, <2>2 DEF Circular
<1>2. deps[s] \subseteq done
  BY <1>1 DEF Working, WellFormed
<1>3. s \in ready
  BY <1>1, <1>2 DEF Working
<1>4. admittedCpu = 0 /\ admittedRss = 0 /\ exclusive = {}
  BY Resources DEF Accounted
<1>5. classes[Class[s]] = 0
  <2>1. {r \in {} : Class[r] = Class[s]} = {}
    OBVIOUS
  <2>2. InClass({}, Class[s]) = 0
    BY <2>1, FS_EmptySet DEF InClass
  <2>3. Class[s] \in Classes
    BY <1>1 DEF Classes
  <2> QED
    BY <2>2, <2>3 DEF Accounted
<1>6. Fits(s)
  BY <1>1 DEF Working, WellFormed
<1>7. Cpu[s] \in Nat /\ Rss[s] \in Nat /\ Instances[s] \in Nat \ {0}
  BY <1>1, Resources
<1>8. CanAdmit(s)
  BY <1>4, <1>5, <1>6, <1>7 DEF CanAdmit, Fits
<1> QED
  BY <1>3, <1>8

\* The coordinator waits for a running stage, or returns the first error.
LEMMA StopAdmittingInv == ASSUME IInv, StopAdmitting PROVE IInv'
<1> USE DEF plan, search, admission, pool
<1>1. /\ TypeOK /\ Placed /\ Accounted /\ Working /\ outcome = "none" /\ pc = "admit"
      /\ done # Stages /\ ~Admissible
  BY DEF IInv, StopAdmitting
<1>2. /\ UNCHANGED <<deps, host, queue, counts, seen, popped, remaining, ready, done, failed,
                     running, admittedCpu, admittedRss, classes, exclusive, job, channel,
                     cancelled, firstError>>
      /\ wait' \in {wait, Waited}
  BY DEF StopAdmitting
<1>3. \/ running # {} /\ pc' = "receive" /\ outcome' = "none"
      \/ running = {} /\ pc' = "returned" /\ outcome' = IF firstError THEN "failed" ELSE "stalled"
  BY <1>1 DEF StopAdmitting, Return
<1>4. TypeOK'
  <2>1. wait' \in [Stages -> Nat]
    BY <1>1, <1>2, WaitedType DEF TypeOK
  <2> QED
    BY <1>1, <1>2, <1>3, <2>1 DEF TypeOK
<1>5. Placed' /\ Accounted'
  BY <1>1, <1>2, FramePlaced, FrameAccounted
<1>6. CASE pc' = "receive"
  <2>1. WellFormed' /\ Acyclic'
    BY <1>1, <1>2, FramePlan DEF Working
  <2>2. Working'
    BY <1>1, <1>2, <1>3, <1>6, <2>1, Zenon DEF Working
  <2> QED
    BY <1>3, <1>4, <1>5, <1>6, <2>2 DEF IInv
<1>7. CASE pc' = "returned"
  <2>1. running = {} /\ firstError /\ outcome' = "failed"
    BY <1>1, <1>3, <1>7, SomeAdmissible DEF Working, Admissible
  <2>2. failed' # {}
    BY <1>1, <1>2, <2>1 DEF Working
  <2>3. Active' = {} /\ channel' = <<>>
    <3>1. Active' = {}
      BY <1>2, <1>5, <2>1 DEF Placed
    <3>2. DOMAIN channel = {}
      BY <1>1, <2>1 DEF Working
    <3>3. channel = <<>>
      BY <1>1, <3>2 DEF TypeOK
    <3> QED
      BY <1>2, <3>1, <3>3
  <2> QED
    BY <1>4, <1>5, <1>7, <2>1, <2>2, <2>3 DEF IInv, Returned
<1> QED
  BY <1>3, <1>6, <1>7

\* With all stages done nothing runs, and no result is on its way.
LEMMA AllDoneInv == ASSUME IInv, AllDone PROVE IInv'
<1> USE DEF plan, search, order, admission, pool
<1>1. TypeOK /\ Placed /\ Accounted /\ Working /\ outcome = "none" /\ pc = "admit" /\ done = Stages
  BY Zenon DEF IInv, AllDone
<1>2. /\ UNCHANGED <<plan, search, order, admission, pool, firstError>>
      /\ pc' = "returned"
      /\ outcome' \in {IF firstError THEN "failed" ELSE "ready", "unobserved"}
  BY DEF AllDone, Return
<1>3. TypeOK'
  BY <1>1, <1>2 DEF TypeOK
<1>4. Placed' /\ Accounted'
  BY <1>1, <1>2, FramePlaced, FrameAccounted
<1>5. running = {}
  BY <1>1 DEF Placed, TypeOK
<1>6. Active' = {} /\ channel' = <<>>
  <2>1. Active' = {}
    BY <1>2, <1>4, <1>5 DEF Placed
  <2>2. DOMAIN channel = {}
    BY <1>1, <1>5 DEF Working
  <2>3. channel = <<>>
    BY <1>1, <2>2 DEF TypeOK
  <2> QED
    BY <1>2, <2>1, <2>3
<1>7. outcome' = "failed" => failed' # {}
  BY <1>1, <1>2 DEF Working
<1> QED
  BY <1>1, <1>2, <1>3, <1>4, <1>6, <1>7 DEF IInv, Returned

-----------------------------------------------------------------------------
(* Results.                                                                *)

\* A heartbeat changes nothing but the step of execute.
LEMMA HeartbeatInv == ASSUME IInv, Heartbeat PROVE IInv'
<1> USE DEF plan, search, order, admission, pool
<1>1. TypeOK /\ Placed /\ Accounted /\ Working /\ outcome = "none" /\ pc = "receive"
  BY DEF IInv, Heartbeat
<1>2. /\ UNCHANGED <<plan, search, order, admission, pool, firstError>>
      /\ \/ pc' = "admit" /\ outcome' = "none"
         \/ pc' = "returned" /\ outcome' = "unobserved"
  BY <1>1 DEF Heartbeat, Emit, Return
<1>3. TypeOK'
  BY <1>1, <1>2 DEF TypeOK
<1>4. Placed' /\ Accounted'
  BY <1>1, <1>2, FramePlaced, FrameAccounted
<1>5. CASE pc' = "admit"
  <2>1. WellFormed' /\ Acyclic'
    BY <1>1, <1>2, FramePlan DEF Working
  <2>2. Working'
    BY <1>1, <1>2, <1>5, <2>1 DEF Working
  <2> QED
    BY <1>2, <1>3, <1>4, <1>5, <2>2 DEF IInv
<1>6. CASE pc' = "returned"
  BY <1>2, <1>3, <1>4, <1>6 DEF IInv, Returned
<1> QED
  BY <1>2, <1>5, <1>6

\* What is left in the channel when a result has been taken from it.
LEMMA TailOfChannel ==
  ASSUME TypeOK, Working, channel # <<>>
  PROVE  /\ Head(channel) \in [id : Stages, ok : BOOLEAN]
         /\ Head(channel).id \in running /\ job[Head(channel).id] = "sent"
         /\ Tail(channel) \in Seq([id : Stages, ok : BOOLEAN])
         /\ \A i \in DOMAIN Tail(channel) :
              /\ Tail(channel)[i].id \in running \ {Head(channel).id}
              /\ job[Tail(channel)[i].id] = "sent"
         /\ \A i, j \in DOMAIN Tail(channel) :
              Tail(channel)[i].id = Tail(channel)[j].id => i = j
<1>1. channel \in Seq([id : Stages, ok : BOOLEAN])
  BY DEF TypeOK
<1>2. /\ Len(channel) \in Nat \ {0} /\ DOMAIN channel = 1 .. Len(channel)
      /\ Head(channel) = channel[1] /\ 1 \in DOMAIN channel
      /\ Tail(channel) \in Seq([id : Stages, ok : BOOLEAN])
      /\ DOMAIN Tail(channel) = 1 .. Len(channel) - 1
      /\ \A i \in DOMAIN Tail(channel) : Tail(channel)[i] = channel[i + 1] /\ i + 1 \in DOMAIN channel
  BY <1>1
<1>3. \A i \in DOMAIN channel : channel[i].id \in running /\ job[channel[i].id] = "sent"
  BY DEF Working
<1>4. \A i, j \in DOMAIN channel : channel[i].id = channel[j].id => i = j
  BY DEF Working
<1>5. Head(channel) \in [id : Stages, ok : BOOLEAN]
  <2>1. \A M : \A q \in Seq(M) : q # <<>> => Head(q) \in M
    OBVIOUS
  <2> QED
    BY <1>1, <2>1, Zenon
<1>6. ASSUME NEW i \in DOMAIN Tail(channel)
      PROVE  /\ Tail(channel)[i].id \in running /\ Tail(channel)[i].id # Head(channel).id
             /\ job[Tail(channel)[i].id] = "sent"
  <2>1. i + 1 \in DOMAIN channel /\ Tail(channel)[i] = channel[i + 1] /\ i + 1 # 1
    BY <1>2
  <2> QED
    BY <1>2, <1>3, <1>4, <2>1
<1>7. ASSUME NEW i \in DOMAIN Tail(channel), NEW j \in DOMAIN Tail(channel),
             Tail(channel)[i].id = Tail(channel)[j].id
      PROVE  i = j
  <2>1. i + 1 = j + 1
    BY <1>2, <1>4, <1>7
  <2> QED
    BY <1>2, <2>1
<1> QED
  BY <1>2, <1>3, <1>5, <1>6, <1>7

\* A result that is received makes sense.
LEMMA NeverSenseless ==
  ASSUME TypeOK, Placed, Working, channel # <<>>
  PROVE  ~Senseless(Head(channel))
<1>1. Head(channel).id \in running /\ Head(channel).id \in Stages
  BY TailOfChannel
<1>2. ASSUME NEW t \in Stages, Head(channel).id \in deps[t] PROVE remaining[t] # 0
  <2>1. Head(channel).id \notin done
    BY <1>1 DEF Placed
  <2>2. IsFiniteSet(deps[t])
    BY FiniteDependencies DEF Working
  <2>3. remaining[t] = Cardinality(deps[t] \ done)
    BY Zenon DEF Working
  <2>4. Cardinality(deps[t] \ done) \in Nat \ {0}
    BY <1>2, <2>1, <2>2, CountLess, Zenon
  <2> QED
    BY <2>3, <2>4
<1> QED
  BY <1>1, <1>2 DEF Senseless

\* A result that makes sense is of a running stage; finish and fail put it where it
\* belongs and make ready what waited for nothing else.
LEMMA ReceiveInv == ASSUME IInv, Receive PROVE IInv'
<1> DEFINE s == Head(channel).id
<1> USE DEF plan, search
<1>1. /\ TypeOK /\ Placed /\ Accounted /\ Working /\ outcome = "none" /\ pc = "receive"
      /\ channel # <<>> /\ channel' = Tail(channel)
      /\ UNCHANGED <<deps, host, queue, counts, seen, popped, job>>
  BY DEF IInv, Receive
<1>2. /\ s \in Stages /\ s \in running /\ job[s] = "sent"
      /\ Tail(channel) \in Seq([id : Stages, ok : BOOLEAN])
      /\ \A i \in DOMAIN Tail(channel) :
           Tail(channel)[i].id \in running \ {s} /\ job[Tail(channel)[i].id] = "sent"
      /\ \A i, j \in DOMAIN Tail(channel) : Tail(channel)[i].id = Tail(channel)[j].id => i = j
  BY <1>1, TailOfChannel
<1>3. ~Senseless(Head(channel))
  BY <1>1, NeverSenseless
<1>4. /\ Finish(s) \/ Fail(s)
      /\ UNCHANGED wait
      /\ \/ pc' = "admit" /\ outcome' = "none"
         \/ pc' = "returned" /\ outcome' = "unobserved"
  BY <1>1, <1>3 DEF Receive, Emit, Return
<1> HIDE DEF s
<1>5. Release(s)
  BY <1>4 DEF Finish, Fail
<1>6. /\ Accounted'
      /\ admittedCpu' \in Nat /\ admittedRss' \in Nat /\ classes' \in [Classes -> Nat]
      /\ running' = running \ {s} /\ exclusive' \subseteq exclusive
  BY <1>1, <1>2, <1>5, ReleaseAccounted
<1>7. s \notin done /\ s \notin failed /\ s \notin ready /\ deps[s] \subseteq done
  BY <1>1, <1>2, Zenon DEF Placed
<1>8. ASSUME NEW t \in Stages
      PROVE  /\ Less(remaining, s)[t] = Cardinality(deps[t] \ (done \cup {s}))
             /\ Less(remaining, s)[t] \in Nat
             /\ t \in Released(remaining, s) <=> s \in deps[t] /\ deps[t] \subseteq done \cup {s}
  <2>1. IsFiniteSet(deps[t])
    BY <1>1, FiniteDependencies, Zenon DEF Working
  <2>2. remaining[t] = Cardinality(deps[t] \ done)
    BY <1>1, Zenon DEF Working
  <2>3. s \in Stages /\ s \notin done
    BY <1>2, <1>7, Zenon
  <2> QED
    BY <2>1, <2>2, <2>3, CountsLess, SMTT(20)
<1>9. /\ done' \subseteq Stages /\ failed' \subseteq Stages /\ ready' \subseteq Stages
      /\ remaining' \in [Stages -> Nat] /\ cancelled' \in BOOLEAN /\ firstError' \in BOOLEAN
      /\ firstError' <=> failed' # {}
      /\ \A t \in Stages : remaining'[t] = Cardinality(deps[t] \ done')
      /\ done \subseteq done' /\ ready \subseteq ready'
      /\ done' \cup failed' = done \cup failed \cup {s} /\ done' \cap failed' = {}
      /\ \A t \in ready' : t \in ready \/ (s \in deps[t] /\ s \in done')
      /\ \A t \in ready' : deps[t] \subseteq done'
      /\ \A t \in Stages : deps[t] \subseteq done' => t \in ready' \cup running \cup done \cup failed
  <2>0. /\ done \subseteq Stages /\ failed \subseteq Stages /\ ready \subseteq Stages
        /\ remaining \in [Stages -> Nat] /\ cancelled \in BOOLEAN /\ firstError \in BOOLEAN
        /\ \A t \in Stages : remaining[t] = Cardinality(deps[t] \ done)
        /\ firstError <=> failed # {}
        /\ \A t \in Stages : deps[t] \subseteq done => t \in ready \cup running \cup done \cup failed
        /\ done \cap failed = {} /\ \A t \in ready : deps[t] \subseteq done
    BY <1>1, Zenon DEF TypeOK, Working, Placed
  <2>1. CASE Finish(s)
    <3>1. /\ done' = done \cup {s} /\ failed' = failed /\ ready' = ready \cup Released(remaining, s)
          /\ remaining' = Less(remaining, s) /\ UNCHANGED <<cancelled, firstError>>
      BY <2>1 DEF Finish
    <3>2. remaining' \in [Stages -> Nat]
      BY <1>8, <3>1, Zenon DEF Less
    <3>3. Released(remaining, s) \subseteq Stages
      BY DEF Released
    <3>4. \A t \in Stages : remaining'[t] = Cardinality(deps[t] \ done')
      BY <1>8, <3>1, Zenon
    <3>5. /\ \A t \in ready' : t \in ready \/ (s \in deps[t] /\ s \in done')
          /\ \A t \in ready' : deps[t] \subseteq done'
      BY <1>8, <2>0, <3>1, <3>3, Zenon
    <3>6. \A t \in Stages : deps[t] \subseteq done' => t \in ready' \cup running \cup done \cup failed
      BY <1>8, <2>0, <3>1, Zenon
    <3>7. /\ done' \subseteq Stages /\ failed' \subseteq Stages /\ ready' \subseteq Stages
          /\ cancelled' \in BOOLEAN /\ firstError' \in BOOLEAN /\ (firstError' <=> failed' # {})
          /\ done \subseteq done' /\ ready \subseteq ready'
          /\ done' \cup failed' = done \cup failed \cup {s} /\ done' \cap failed' = {}
      BY <1>2, <1>7, <2>0, <3>1, <3>3, SMTT(30)
    <3> QED
      BY <3>2, <3>4, <3>5, <3>6, <3>7
  <2>2. CASE Fail(s)
    <3>1. /\ failed' = failed \cup {s} /\ done' = done /\ ready' = ready /\ remaining' = remaining
          /\ cancelled' = TRUE /\ firstError' = TRUE
      BY <2>2 DEF Fail
    <3> QED
      BY <1>2, <1>7, <2>0, <3>1
  <2> QED
    BY <1>4, <2>1, <2>2, Zenon
<1>10. TypeOK'
  BY <1>1, <1>2, <1>4, <1>6, <1>9, Zenon DEF TypeOK
<1>11. Placed'
  <2>1. ready' \cap (running' \cup done' \cup failed') = {}
    <3> SUFFICES ASSUME NEW t \in ready', t \in running' \cup done' \cup failed' PROVE FALSE
      OBVIOUS
    <3>1. t \in running \cup done \cup failed
      BY <1>2, <1>6, <1>9, SMTT(30)
    <3>2. deps[t] \subseteq done
      BY <1>1, <3>1, Zenon DEF Placed
    <3>3. t \in ready
      BY <1>7, <1>9, <3>2
    <3> QED
      BY <1>1, <3>1, <3>3, Zenon DEF Placed
  <2>2. running' \cap (done' \cup failed') = {}
    BY <1>1, <1>6, <1>9 DEF Placed
  <2>3. \A t \in ready' \cup running' \cup done' \cup failed' : deps'[t] \subseteq done'
    <3> SUFFICES ASSUME NEW t \in running' \cup done' \cup failed' PROVE deps[t] \subseteq done'
      BY <1>1, <1>9, Zenon
    <3>1. t \in running \cup done \cup failed
      BY <1>2, <1>6, <1>9, SMTT(30)
    <3> QED
      BY <1>1, <1>9, <3>1 DEF Placed
  <2>4. \A t \in Stages : job'[t] # "none" => t \in running' \cup done' \cup failed'
    <3>1. \A t \in Stages : job[t] # "none" => t \in running \cup done \cup failed
      BY <1>1 DEF Placed
    <3>2. running' \cup done' \cup failed' = running \cup done \cup failed
      BY <1>2, <1>6, <1>9
    <3> QED
      BY <1>1, <3>1, <3>2
  <2>5. Active' \subseteq running'
    <3>1. Active \subseteq running /\ Active' = Active /\ s \notin Active
      BY <1>1, <1>2, Zenon DEF Placed, Active
    <3> QED
      BY <1>6, <3>1
  <2> QED
    BY <1>9, <2>1, <2>2, <2>3, <2>4, <2>5, Zenon DEF Placed
<1>12. CASE pc' = "admit"
  <2>1. WellFormed' /\ Acyclic'
    BY <1>1, FramePlan DEF Working
  <2>2. \A t \in Stages : remaining'[t] = Cardinality(deps'[t] \ done')
    BY <1>1, <1>9
  <2>3. \A t \in Stages : deps'[t] \subseteq done' => t \in ready' \cup running' \cup done' \cup failed'
    BY <1>1, <1>6, <1>9
  <2>4. \A t \in running' : job'[t] # "none"
    BY <1>1, <1>6, Zenon DEF Working
  <2>5. /\ \A i \in DOMAIN channel' : channel'[i].id \in running' /\ job'[channel'[i].id] = "sent"
        /\ \A i, j \in DOMAIN channel' : channel'[i].id = channel'[j].id => i = j
    BY <1>1, <1>2, <1>6, Zenon
  <2>6. Working'
    BY <1>9, <1>12, <2>1, <2>2, <2>3, <2>4, <2>5, Zenon DEF Working
  <2> QED
    BY <1>4, <1>6, <1>10, <1>11, <1>12, <2>6 DEF IInv
<1>13. CASE pc' = "returned"
  BY <1>4, <1>6, <1>10, <1>11, <1>13, Zenon DEF IInv, Returned
<1> QED
  BY <1>4, <1>12, <1>13, Zenon

-----------------------------------------------------------------------------
(* The pool.                                                               *)

\* A job is at work only for a running stage, and after a report or an error none is.
LEMMA AtWork ==
  ASSUME IInv, NEW s \in Stages, job[s] \in {"queued", "executing", "ok", "error"}
  PROVE  /\ s \in running
         /\ \/ pc \in {"admit", "receive"} /\ Working
            \/ pc = "returned" /\ outcome \in {"rejected", "unobserved"}
<1>1. s \in Active /\ s \in running
  BY Zenon DEF IInv, Placed, Active
<1>2. pc # "plan" /\ pc # "search"
  BY <1>1 DEF IInv, Quiet
<1>3. pc \in {"plan", "search", "admit", "receive", "returned"}
  BY DEF IInv, TypeOK
<1> QED
  BY <1>1, <1>2, <1>3 DEF IInv, Returned

\* A step of a job, whatever it adds to the channel.
LEMMA JobStep ==
  ASSUME IInv, NEW s \in Stages, job[s] \in {"queued", "executing", "ok", "error"},
         NEW v \in {"executing", "ok", "error", "sent"}, job' = [job EXCEPT ![s] = v],
         UNCHANGED <<plan, search, order, admission, cancelled, pc, firstError, outcome>>,
         channel' \in Seq([id : Stages, ok : BOOLEAN]),
         pc \in {"admit", "receive"} =>
           /\ \A i \in DOMAIN channel' : channel'[i].id \in running /\ job'[channel'[i].id] = "sent"
           /\ \A i, j \in DOMAIN channel' : channel'[i].id = channel'[j].id => i = j
  PROVE  IInv'
<1> USE DEF plan, search, order, admission
<1>1. TypeOK /\ Placed /\ Accounted /\ (pc # "returned" => outcome = "none")
  BY DEF IInv
<1>2. /\ s \in running
      /\ \/ pc \in {"admit", "receive"} /\ Working
         \/ pc = "returned" /\ outcome \in {"rejected", "unobserved"}
  BY AtWork, Zenon
<1>3. /\ job \in [Stages -> {"none", "queued", "executing", "ok", "error", "sent"}]
      /\ job' \in [Stages -> {"none", "queued", "executing", "ok", "error", "sent"}]
      /\ job'[s] = v /\ \A t \in Stages : t # s => job'[t] = job[t]
  BY <1>1 DEF TypeOK
<1>4. TypeOK'
  BY <1>1, <1>3, Zenon DEF TypeOK
<1>5. Accounted'
  BY <1>1, FrameAccounted, Zenon
<1>6. Placed'
  <2>1. \A t \in Stages : job'[t] # "none" => t \in running \cup done \cup failed
    BY <1>1, <1>2, <1>3, Zenon DEF Placed
  <2>2. Active' \subseteq running
    BY <1>1, <1>2, <1>3, Zenon DEF Placed, Active
  <2> QED
    BY <1>1, <2>1, <2>2, Zenon DEF Placed
<1>7. CASE pc \in {"admit", "receive"} /\ Working
  <2>1. WellFormed' /\ Acyclic'
    BY <1>7, FramePlan, Zenon DEF Working
  <2>2. \A t \in running' : job'[t] # "none"
    <3>1. running' = running /\ running \subseteq Stages
      BY <1>1, Zenon DEF TypeOK
    <3>2. \A t \in running : job[t] # "none"
      BY <1>7, Zenon DEF Working
    <3> QED
      BY <1>3, <3>1, <3>2, Zenon
  <2>3. Working'
    BY <1>7, <2>1, <2>2, Zenon DEF Working
  <2> QED
    BY <1>1, <1>4, <1>5, <1>6, <1>7, <2>3, Zenon DEF IInv
<1>8. CASE pc = "returned" /\ outcome \in {"rejected", "unobserved"}
  <2>1. Returned
    BY <1>8 DEF IInv
  <2>2. WellFormed' <=> WellFormed
    BY FramePlan, Zenon
  <2>3. Returned'
    BY <1>8, <2>1, <2>2, Zenon DEF Returned, Circular
  <2> QED
    BY <1>1, <1>4, <1>5, <1>6, <1>8, <2>3, Zenon DEF IInv
<1> QED
  BY <1>2, <1>7, <1>8, Zenon

\* A job begins and ends without touching the channel.
LEMMA BeginEndJobInv == ASSUME IInv, NEW s \in Stages, BeginJob(s) \/ EndJob(s) PROVE IInv'
<1>1. PICK v \in {"executing", "ok", "error"} : job' = [job EXCEPT ![s] = v]
  BY Zenon DEF BeginJob, EndJob
<1>2. /\ job[s] \in {"queued", "executing"}
      /\ UNCHANGED <<plan, search, order, admission, cancelled, pc, firstError, outcome>>
      /\ channel' = channel
  BY DEF BeginJob, EndJob
<1>3. /\ channel \in Seq([id : Stages, ok : BOOLEAN])
      /\ job \in [Stages -> {"none", "queued", "executing", "ok", "error", "sent"}]
      /\ running \subseteq Stages
  BY DEF IInv, TypeOK
<1>4. ASSUME pc \in {"admit", "receive"}
      PROVE  /\ \A i \in DOMAIN channel' : channel'[i].id \in running /\ job'[channel'[i].id] = "sent"
             /\ \A i, j \in DOMAIN channel' : channel'[i].id = channel'[j].id => i = j
  <2>1. /\ \A i \in DOMAIN channel : channel[i].id \in running /\ job[channel[i].id] = "sent"
        /\ \A i, j \in DOMAIN channel : channel[i].id = channel[j].id => i = j
    BY <1>4 DEF IInv, Working
  <2>2. \A t \in running : job[t] = "sent" => job'[t] = "sent"
    BY <1>1, <1>2, <1>3
  <2> QED
    BY <1>2, <2>1, <2>2, Zenon
<1> QED
  BY <1>1, <1>2, <1>3, <1>4, JobStep, Zenon

\* A result is sent once.
LEMMA SendInv == ASSUME IInv, NEW s \in Stages, Send(s) PROVE IInv'
<1> DEFINE m == [id |-> s, ok |-> job[s] = "ok"]
<1>1. /\ job[s] \in {"ok", "error"} /\ job' = [job EXCEPT ![s] = "sent"]
      /\ UNCHANGED <<plan, search, order, admission, cancelled, pc, firstError, outcome>>
      /\ channel' = Append(channel, m) \/ (pc = "returned" /\ channel' = channel)
  BY Zenon DEF Send
<1>2. /\ channel \in Seq([id : Stages, ok : BOOLEAN])
      /\ job \in [Stages -> {"none", "queued", "executing", "ok", "error", "sent"}]
      /\ running \subseteq Stages
  BY DEF IInv, TypeOK
<1>3. m \in [id : Stages, ok : BOOLEAN] /\ m.id = s
  OBVIOUS
<1> HIDE DEF m
<1>4. s \in running
  BY <1>1, AtWork
<1>5. channel' \in Seq([id : Stages, ok : BOOLEAN])
  <2>1. \A M : \A q \in Seq(M) : \A x \in M : Append(q, x) \in Seq(M)
    OBVIOUS
  <2>2. Append(channel, m) \in Seq([id : Stages, ok : BOOLEAN])
    BY <1>2, <1>3, <2>1, Zenon
  <2> QED
    BY <1>1, <1>2, <2>2, Zenon
<1>6. ASSUME pc \in {"admit", "receive"}
      PROVE  /\ \A i \in DOMAIN channel' : channel'[i].id \in running /\ job'[channel'[i].id] = "sent"
             /\ \A i, j \in DOMAIN channel' : channel'[i].id = channel'[j].id => i = j
  <2>1. /\ \A i \in DOMAIN channel : channel[i].id \in running /\ job[channel[i].id] = "sent"
        /\ \A i, j \in DOMAIN channel : channel[i].id = channel[j].id => i = j
    BY <1>6, Zenon DEF IInv, Working
  <2>2. job'[s] = "sent" /\ \A t \in running : job[t] = "sent" => job'[t] = "sent"
    BY <1>1, <1>2
  <2>3. /\ Len(channel) \in Nat /\ DOMAIN channel = 1 .. Len(channel)
        /\ DOMAIN channel' = 1 .. Len(channel) + 1
        /\ \A i \in DOMAIN channel : channel'[i] = channel[i]
        /\ channel'[Len(channel) + 1] = m
    BY <1>1, <1>2, <1>3, <1>6
  <2>4. \A i \in DOMAIN channel' : i \in DOMAIN channel \/ i = Len(channel) + 1
    BY <2>3
  <2>5. \A i \in DOMAIN channel : channel[i].id # s
    BY <1>1, <2>1
  <2> QED
    BY <1>3, <1>4, <2>1, <2>2, <2>3, <2>4, <2>5, SMTT(30)
<1> QED
  BY <1>1, <1>5, <1>6, JobStep, Zenon

-----------------------------------------------------------------------------
(* The invariant, and what follows from it.                                *)

\* Every step of the coordinator and of the pool keeps the invariant.
LEMMA NextInv == IInv /\ [Next]_vars => IInv'
<1> SUFFICES ASSUME IInv, [Next]_vars PROVE IInv'
  OBVIOUS
<1>1. CASE Coordinate
  BY <1>1, BeginSearchInv, RejectInv, PopInv, EndSearchInv, AdmitInv, StopAdmittingInv,
     AllDoneInv, HeartbeatInv, ReceiveInv DEF Coordinate
<1>2. CASE \E s \in Stages : Job(s)
  BY <1>2, BeginEndJobInv, SendInv, Zenon DEF Job
<1>3. CASE UNCHANGED vars
  <2> USE <1>3 DEF vars, plan, search, order, admission, pool
  <2>1. TypeOK' /\ Placed' /\ Accounted'
    BY FramePlaced, FrameAccounted, Zenon DEF IInv, TypeOK
  <2>2. (WellFormed' <=> WellFormed) /\ (Acyclic' <=> Acyclic)
    BY FramePlan
  <2>3. (Quiet' <=> Quiet) /\ (Searched' <=> Searched)
    BY Zenon DEF Quiet, Searched, Circular
  <2>4. (Working' <=> Working)
    BY <2>2, Zenon DEF Working
  <2>5. (Returned' <=> Returned)
    BY <2>2, Zenon DEF Returned, Active, Circular
  <2> QED
    BY <2>1, <2>2, <2>3, <2>4, <2>5 DEF IInv
<1> QED
  BY <1>1, <1>2, <1>3 DEF Next

\* The invariant holds in every state of execute.
THEOREM Invariance == Spec => []IInv
BY InitInv, NextInv, PTL DEF Spec

\* Plan, Coordinator and pool keep their types: the counts of the dependencies that
\* are missing and the accounts of the admitted resources never drop below zero.
THEOREM TypeCorrect == Spec => []TypeOK
<1>1. IInv => TypeOK
  BY DEF IInv
<1> QED
  BY <1>1, Invariance, PTL

\* ValidatedDag::new lets exactly the plans without a circle through to the coordinator.
THEOREM AcceptsAcyclicPlans == Spec => []AcceptedIffAcyclic
<1>1. IInv => AcceptedIffAcyclic
  BY DEF IInv, AcceptedIffAcyclic, Working, Acyclic, Returned
<1> QED
  BY <1>1, Invariance, PTL

\* The stages at work stay within the resources of the host, the instances of their
\* class and their exclusivity keys, in whatever order they are admitted and released.
THEOREM StaysWithinBudget == Spec => []WithinBudget
<1>1. IInv => WithinBudget
  <2> SUFFICES ASSUME IInv PROVE WithinBudget
    OBVIOUS
  <2>1. /\ running \in SUBSET Stages /\ Active \subseteq running /\ Accounted /\ host \in Hosts
        /\ classes \in [Classes -> Nat]
    BY DEF IInv, TypeOK, Placed
  <2>2. TotalCpu[Active] <= host.cpu /\ TotalRss[Active] <= host.rss
    <3>1. /\ TotalCpu[Active] <= TotalCpu[running] /\ TotalRss[Active] <= TotalRss[running]
          /\ Active \in SUBSET Stages
      BY <2>1, TotalAssumption
    <3>2. TotalCpu[running] <= host.cpu /\ TotalRss[running] <= host.rss
      BY <2>1 DEF Accounted
    <3> QED
      BY <2>1, <3>1, <3>2, Resources
  <2>3. \A s, t \in Active : s # t /\ Key[s] = Key[t] => Key[s] = NoKey
    BY <2>1, Zenon DEF Accounted
  <2>4. ASSUME NEW s \in Active
        PROVE  \E t \in Stages :
                 /\ Class[t] = Class[s]
                 /\ Cardinality({r \in Active : Class[r] = Class[s]}) <= Instances[t]
    <3> DEFINE A == {r \in Active : Class[r] = Class[s]}
               R == {r \in running : Class[r] = Class[s]}
    <3>1. A \subseteq R /\ R \subseteq Stages /\ s \in R /\ Class[s] \in Classes
      BY <2>1 DEF Classes
    <3>2. IsFiniteSet(R) /\ Cardinality(R) \in Nat /\ R # {}
      BY <3>1, Resources
    <3>3. Cardinality(A) <= Cardinality(R) /\ Cardinality(A) \in Nat
      BY <3>1, <3>2, FS_Subset, FS_CardinalityType
    <3>4. Cardinality(R) # 0
      BY <3>2, FS_EmptySet, Zenon
    <3>5. classes[Class[s]] = Cardinality(R)
      BY <2>1, <3>1 DEF Accounted, InClass
    <3>6. PICK t \in Stages : Class[t] = Class[s] /\ classes[Class[s]] <= Instances[t]
      BY <2>1, <3>1, <3>4, <3>5, Zenon DEF Accounted
    <3>7. Instances[t] \in Nat
      BY Resources
    <3> QED
      BY <3>2, <3>3, <3>5, <3>6, <3>7, SMTT(30)
  <2> QED
    BY <2>2, <2>3, <2>4, Zenon DEF WithinBudget
<1> QED
  BY <1>1, Invariance, PTL

\* No stage is spawned before all it depends on has been done.
THEOREM RespectsDependencies == Spec => []DependenciesFirst
<1>1. IInv => DependenciesFirst
  BY Zenon DEF IInv, Placed, DependenciesFirst
<1> QED
  BY <1>1, Invariance, PTL

\* The scheduler never stalls with work left and never meets a result it cannot place:
\* the errors of execute, finish and release for those cases are unreachable.
THEOREM NeverGetsLost == Spec => []NeverLost
<1>1. IInv => NeverLost
  BY DEF IInv, Returned, NeverLost
<1> QED
  BY <1>1, Invariance, PTL

\* When execute returns a report or the error of a stage, the pool is idle.
THEOREM IdleAtReturn == Spec => []QuietAtReturn
<1>1. IInv => QuietAtReturn
  BY DEF IInv, Returned, QuietAtReturn
<1> QED
  BY <1>1, Invariance, PTL
=============================================================================
