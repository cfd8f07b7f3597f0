----------------------- MODULE ParallelExecutorProofs -----------------------
(***************************************************************************)
(* Proofs about ParallelExecutor, for all numbers of workers and tasks:    *)
(* every hand-out of a task is reported once and counted once, and after   *)
(* Shutdown nothing runs.  The first part is about sums over finite sets.  *)
(***************************************************************************)
EXTENDS ParallelExecutor, SequenceLemmas

--------------------------------------------------------------------------------
(* Sums *)

Chosen(s) == CHOOSE x \in s : TRUE

\* it[s] is the sum of f over s, computed from one chosen element and the others.
Summing(it, f, S) ==
  it = [s \in SUBSET S |-> IF s = {} THEN 0 ELSE f[Chosen(s)] + it[s \ {Chosen(s)}]]

LEMMA ChosenIsElement ==
  ASSUME NEW s, s # {}
  PROVE  Chosen(s) \in s
  BY DEF Chosen

Extending(P, S) ==
  \A s \in (SUBSET S) \ {{}} : s \ {Chosen(s)} \in P => s \in P

\* What holds of the empty set, and of each set of which it holds without the chosen
\* element, holds of all subsets.

LEMMA SetCountInduction ==
  ASSUME NEW S, IsFiniteSet(S), NEW P \in SUBSET SUBSET S, {} \in P, Extending(P, S)
  PROVE  P = SUBSET S
  <1> DEFINE N == {n \in Nat : \A s \in SUBSET S : Cardinality(s) = n => s \in P}
  <1>1. \A s \in SUBSET S : IsFiniteSet(s) /\ Cardinality(s) \in Nat
    BY FS_Subset, FS_CardinalityType
  <1>2. 0 \in N
    BY <1>1, FS_EmptySet
  <1>3. ASSUME NEW n \in Nat, n \in N
        PROVE  n + 1 \in N
    <2> SUFFICES ASSUME NEW s \in SUBSET S, Cardinality(s) = n + 1
                 PROVE  s \in P
      OBVIOUS
    <2>1. s # {} /\ IsFiniteSet(s)
      BY <1>1, FS_EmptySet
    <2>2. Chosen(s) \in s
      BY <2>1, ChosenIsElement
    <2>3. Cardinality(s \ {Chosen(s)}) = Cardinality(s) - 1
      BY <2>1, <2>2, FS_RemoveElement
    <2>4. s \ {Chosen(s)} \in P
      BY <1>1, <1>3, <2>3
    <2> QED BY <2>1, <2>4 DEF Extending
  <1>4. Nat \subseteq N
    <2> HIDE DEF N
    <2> QED BY <1>2, <1>3, NatSetInduction
  <1> QED BY <1>1, <1>4

LEMMA SummingExists ==
  ASSUME NEW S, IsFiniteSet(S), NEW f \in [S -> Int]
  PROVE  \E it : Summing(it, f, S)
  <1> DEFINE Upto(g, n) == /\ g[{}] = 0
                           /\ \A s \in (SUBSET S) \ {{}} : Cardinality(s) <= n =>
                                g[s] = f[Chosen(s)] + g[s \ {Chosen(s)}]
             N == {n \in Nat : \E g \in [SUBSET S -> Int] : Upto(g, n)}
  <1>1. \A s \in SUBSET S : IsFiniteSet(s) /\ Cardinality(s) \in Nat
    BY FS_Subset, FS_CardinalityType
  <1>2. \A s \in (SUBSET S) \ {{}} : Chosen(s) \in s /\ s \ {Chosen(s)} \in SUBSET S
    BY ChosenIsElement
  <1>3. \A s \in (SUBSET S) \ {{}} :
          Cardinality(s) > 0 /\ Cardinality(s \ {Chosen(s)}) = Cardinality(s) - 1
    <2> SUFFICES ASSUME NEW s \in (SUBSET S) \ {{}}
                 PROVE  Cardinality(s) > 0 /\ Cardinality(s \ {Chosen(s)}) = Cardinality(s) - 1
      OBVIOUS
    <2>1. IsFiniteSet(s) /\ Cardinality(s) \in Nat /\ Chosen(s) \in s
      BY <1>1, <1>2
    <2>2. Cardinality(s) # 0
      BY <2>1, FS_EmptySet
    <2>3. Cardinality(s \ {Chosen(s)}) = Cardinality(s) - 1
      BY <2>1, FS_RemoveElement
    <2> QED BY <2>1, <2>2, <2>3
  <1>4. 0 \in N
    <2> DEFINE g == [s \in SUBSET S |-> 0]
    <2>1. g \in [SUBSET S -> Int] /\ Upto(g, 0)
      BY <1>1, <1>3
    <2> QED BY <2>1
  <1>5. ASSUME NEW n \in Nat, n \in N
        PROVE  n + 1 \in N
    <2>1. PICK g \in [SUBSET S -> Int] : Upto(g, n)
      BY <1>5
    <2> DEFINE h == [s \in SUBSET S |-> IF Cardinality(s) = n + 1
                                        THEN f[Chosen(s)] + g[s \ {Chosen(s)}] ELSE g[s]]
    <2>2. h \in [SUBSET S -> Int]
      <3> SUFFICES ASSUME NEW s \in SUBSET S, Cardinality(s) = n + 1
                   PROVE  f[Chosen(s)] + g[s \ {Chosen(s)}] \in Int
        OBVIOUS
      <3>1. s # {}
        BY FS_EmptySet
      <3> QED BY <1>2, <3>1
    <2>3. h[{}] = 0
      <3>1. Cardinality({}) # n + 1 /\ {} \in SUBSET S
        BY FS_EmptySet
      <3> QED BY <2>1, <3>1
    <2>4. ASSUME NEW s \in (SUBSET S) \ {{}}, Cardinality(s) <= n + 1
          PROVE  h[s] = f[Chosen(s)] + h[s \ {Chosen(s)}]
      <3>1. Cardinality(s) \in Nat /\ Cardinality(s \ {Chosen(s)}) = Cardinality(s) - 1
            /\ s \ {Chosen(s)} \in SUBSET S
        BY <1>1, <1>2, <1>3
      <3>2. h[s \ {Chosen(s)}] = g[s \ {Chosen(s)}]
        BY <2>4, <3>1
      <3>3. CASE Cardinality(s) = n + 1
        BY <3>2, <3>3
      <3>4. CASE Cardinality(s) # n + 1
        <4>1. Cardinality(s) <= n
          BY <2>4, <3>1, <3>4
        <4> QED BY <2>1, <3>2, <3>4, <4>1
      <3> QED BY <3>3, <3>4
    <2> HIDE DEF h
    <2>5. Upto(h, n + 1)
      BY <2>3, <2>4
    <2> QED BY <2>2, <2>5
  <1>6. Nat \subseteq N
    <2> HIDE DEF N
    <2> QED BY <1>4, <1>5, NatSetInduction
  <1>7. Cardinality(S) \in N
    BY <1>1, <1>6
  <1>8. PICK g \in [SUBSET S -> Int] : Upto(g, Cardinality(S))
    BY <1>7
  <1>9. \A s \in SUBSET S : Cardinality(s) <= Cardinality(S)
    BY FS_Subset
  <1>10. \A s \in SUBSET S : g[s] = IF s = {} THEN 0 ELSE f[Chosen(s)] + g[s \ {Chosen(s)}]
    BY <1>8, <1>9
  <1>11. Summing(g, f, S)
    <2>1. g = [s \in SUBSET S |-> g[s]]
      OBVIOUS
    <2> QED BY <1>10, <2>1 DEF Summing
  <1> QED BY <1>11

LEMMA SumFacts ==
  ASSUME NEW S, IsFiniteSet(S), NEW f \in [S -> Int]
  PROVE  \E it \in [SUBSET S -> Int] : Summing(it, f, S) /\ SumFunction(f) = it[S]
  <1> DEFINE it == CHOOSE g : Summing(g, f, S)
  <1>1. Summing(it, f, S)
    BY SummingExists
  <1>2. SumFunction(f) = it[S]
    BY DEF SumFunction, SumFunctionOnSet, FoldFunctionOnSet, MapThenFoldSet, Summing, Chosen
  <1> HIDE DEF it
  <1> DEFINE P == {s \in SUBSET S : it[s] \in Int}
  <1>3. {} \in P
    BY <1>1 DEF Summing
  <1>4. ASSUME NEW s \in (SUBSET S) \ {{}}, s \ {Chosen(s)} \in P
        PROVE  s \in P
    <2>1. Chosen(s) \in s /\ f[Chosen(s)] \in Int
      BY ChosenIsElement
    <2>2. it[s] = f[Chosen(s)] + it[s \ {Chosen(s)}]
      BY <1>1 DEF Summing
    <2>3. it[s \ {Chosen(s)}] \in Int
      BY <1>4
    <2> QED BY <2>1, <2>2, <2>3
  <1>5. P = SUBSET S
    <2>1. P \in SUBSET SUBSET S /\ Extending(P, S)
      BY <1>4 DEF Extending
    <2> HIDE DEF P
    <2> QED BY <1>3, <2>1, SetCountInduction
  <1>6. it = [s \in SUBSET S |-> it[s]]
    BY <1>1 DEF Summing
  <1>7. it \in [SUBSET S -> Int]
    BY <1>5, <1>6
  <1> QED BY <1>1, <1>2, <1>7

\* A sum changes by as much as the one value that changes.
LEMMA SumAt ==
  ASSUME NEW S, IsFiniteSet(S), NEW f \in [S -> Int], NEW g \in [S -> Int],
         NEW w \in S, \A x \in S \ {w} : g[x] = f[x]
  PROVE  /\ SumFunction(f) \in Int
         /\ SumFunction(g) = SumFunction(f) + (g[w] - f[w])
  <1>1. PICK a \in [SUBSET S -> Int] : Summing(a, f, S) /\ SumFunction(f) = a[S]
    BY SumFacts
  <1>2. PICK b \in [SUBSET S -> Int] : Summing(b, g, S) /\ SumFunction(g) = b[S]
    BY SumFacts
  <1> DEFINE d(s) == IF w \in s THEN g[w] - f[w] ELSE 0
             P == {s \in SUBSET S : b[s] = a[s] + d(s)}
  <1>3. {} \in P
    BY <1>1, <1>2 DEF Summing
  <1>4. ASSUME NEW s \in (SUBSET S) \ {{}}, s \ {Chosen(s)} \in P
        PROVE  s \in P
    <2> DEFINE x == Chosen(s)
               r == s \ {x}
    <2>1. x \in s /\ x \in S /\ f[x] \in Int /\ g[x] \in Int /\ f[w] \in Int /\ g[w] \in Int
      BY ChosenIsElement
    <2>2. a[s] = f[x] + a[r] /\ b[s] = g[x] + b[r]
      BY <1>1, <1>2 DEF Summing
    <2>3. b[r] = a[r] + d(r) /\ a[r] \in Int /\ b[r] \in Int
      BY <1>4
    <2>4. x = w \/ (x # w /\ g[x] = f[x])
      BY <2>1
    <2>5. d(s) = IF x = w THEN g[w] - f[w] ELSE d(r)
      BY <2>1
    <2>6. x = w => d(r) = 0
      OBVIOUS
    <2>7. d(r) \in Int
      BY <2>1
    <2> HIDE DEF x, r, d
    <2>8. b[s] = a[s] + d(s)
      BY <2>1, <2>2, <2>3, <2>4, <2>5, <2>6, <2>7
    <2> QED BY <2>8
  <1>5. P = SUBSET S
    <2>1. P \in SUBSET SUBSET S /\ Extending(P, S)
      BY <1>4 DEF Extending
    <2> HIDE DEF P
    <2> QED BY <1>3, <2>1, SetCountInduction
  <1>6. b[S] = a[S] + (g[w] - f[w])
    BY <1>5
  <1> QED BY <1>1, <1>2, <1>6

LEMMA SumOfZeros ==
  ASSUME NEW S, IsFiniteSet(S), NEW f \in [S -> Int], \A x \in S : f[x] = 0
  PROVE  SumFunction(f) = 0
  <1>1. PICK a \in [SUBSET S -> Int] : Summing(a, f, S) /\ SumFunction(f) = a[S]
    BY SumFacts
  <1> DEFINE P == {s \in SUBSET S : a[s] = 0}
  <1>2. {} \in P
    BY <1>1 DEF Summing
  <1>3. ASSUME NEW s \in (SUBSET S) \ {{}}, s \ {Chosen(s)} \in P
        PROVE  s \in P
    <2>1. Chosen(s) \in S
      BY ChosenIsElement
    <2>2. f[Chosen(s)] = 0 /\ a[s \ {Chosen(s)}] = 0
      BY <1>3, <2>1
    <2>3. a[s] = f[Chosen(s)] + a[s \ {Chosen(s)}]
      BY <1>1 DEF Summing
    <2> QED BY <2>2, <2>3
  <1>4. P = SUBSET S
    <2>1. P \in SUBSET SUBSET S /\ Extending(P, S)
      BY <1>3 DEF Extending
    <2> HIDE DEF P
    <2> QED BY <1>2, <2>1, SetCountInduction
  <1> QED BY <1>1, <1>4

--------------------------------------------------------------------------------
(* The workers *)

USE TasksAssumption, BoundsAssumption DEF Workers

WorkerState == [pc: Pcs, task: Tasks \cup {NoTask}, result: Results]

\* The parts of TypeOK: what the workers change, the context, and the others.
WorkOK ==
  /\ ready \in SUBSET Tasks
  /\ handed \in [Tasks -> 0 .. MaxAborts + 1]
  /\ reports \in [Tasks -> [Reports -> 0 .. MaxAborts + 1]]
  /\ worker \in [Workers -> WorkerState]
  /\ currentTask \in [Workers -> Tasks \cup {NoTask}]
  /\ wstats \in [Workers -> [executed: Nat, succeeded: Nat, failed: Nat]]
  /\ allocated \in SUBSET Workers

ContextOK == cancelled \in BOOLEAN

OthersOK ==
  /\ collector \in [pc: {"wait", "load", "exited"}, next: 1 .. Loads + 1, sums: Sums]
  /\ stats \in Sums
  /\ shutdown \in {"none", "waiting", "done", "timeout"}

LEMMA TypeParts == TypeOK <=> WorkOK /\ ContextOK /\ OthersOK
  BY Zenon DEF TypeOK, WorkOK, ContextOK, OthersOK, WorkerState

\* Worker w goes to pc with a task and a result; the others stay.
Moved(w, pc, task, result) ==
  /\ worker' \in [Workers -> WorkerState]
  /\ worker'[w].pc = pc /\ worker'[w].task = task /\ worker'[w].result = result
  /\ \A v \in Workers \ {w} : worker'[v] = worker[v]

LEMMA GotoMoves ==
  ASSUME WorkOK, NEW w \in Workers, NEW pc \in Pcs, Goto(w, pc)
  PROVE  Moved(w, pc, worker[w].task, worker[w].result)
  BY DEF Goto, Moved, WorkOK, WorkerState

\* A step of a worker leaves the collector and Shutdown alone.
LEMMA WorkerStepKeepsOthers ==
  ASSUME IInv, NEW w \in Workers, NEW pc, NEW task, NEW result, Moved(w, pc, task, result),
         UNCHANGED background, worker[w].pc # "exited", pc = "exited" => cancelled
  PROVE  ContextOK' /\ OthersOK' /\ CollectorInv' /\ ShutdownInv'
  <1>1. ContextOK /\ OthersOK /\ CollectorInv /\ ShutdownInv
    BY TypeParts DEF IInv
  <1>2. UNCHANGED <<cancelled, collector, stats, shutdown>>
    BY DEF background
  <1>3. ContextOK' /\ OthersOK' /\ CollectorInv'
    BY <1>1, <1>2 DEF ContextOK, OthersOK, CollectorInv
  <1>4. shutdown # "done"
    BY <1>1 DEF ShutdownInv
  <1>5. \A v \in Workers : worker'[v].pc = "exited" => cancelled
    BY <1>1 DEF ShutdownInv, Moved
  <1>6. ShutdownInv'
    BY <1>1, <1>2, <1>4, <1>5 DEF ShutdownInv
  <1> QED BY <1>3, <1>6

\* The other workers stay as they are.
LEMMA MovedWorkerInv ==
  ASSUME WorkerInv, NEW w \in Workers, NEW pc, NEW task, NEW result, Moved(w, pc, task, result),
         task # NoTask <=> pc \in Holding,
         result # "none" <=> pc \in Finishing,
         w \in allocated' <=> pc \in {"execute", "release"},
         \A v \in Workers \ {w} : v \in allocated' <=> v \in allocated
  PROVE  WorkerInv'
  BY DEF WorkerInv, Moved

\* A worker that keeps its task and reports nothing keeps TaskInv.
LEMMA TasksKept ==
  ASSUME TaskInv, NEW w \in Workers, NEW pc, NEW result,
         Moved(w, pc, worker[w].task, result), UNCHANGED <<ready, handed, reports>>,
         result = "conflict" => \/ worker[w].result = "conflict"
                                \/ reports[worker[w].task]["aborted"] < MaxAborts
  PROVE  TaskInv'
  <1>1. \A v \in Workers : worker'[v].task = worker[v].task
    BY DEF Moved
  <1>2. \A t \in Tasks : Held(t)' <=> Held(t)
    BY <1>1 DEF Held
  <1>3. \A v \in Workers : worker'[v].result = "conflict" =>
          reports[worker[v].task]["aborted"] < MaxAborts
    BY DEF TaskInv, Moved
  <1> QED BY <1>1, <1>2, <1>3 DEF TaskInv

\* The workers that have counted the execution but not reported it.
Counted == {w \in Workers : worker[w].pc \in {"countOutcome", "report"}}

\* A worker that counts and reports nothing keeps StatsMatchReports.
LEMMA StatsKept ==
  ASSUME StatsMatchReports, NEW w \in Workers, NEW pc, NEW task, NEW result,
         Moved(w, pc, task, result), UNCHANGED <<reports, wstats>>,
         worker[w].pc \notin {"countOutcome", "report"}, pc \notin {"countOutcome", "report"}
  PROVE  StatsMatchReports'
  <1>1. Counted' = Counted
    BY DEF Counted, Moved
  <1>2. \A v \in Workers : worker'[v].pc = "countOutcome" <=> worker[v].pc = "countOutcome"
    BY DEF Moved
  <1>3. UNCHANGED <<Total("executed"), Reported("completed"), Reported("failed"),
                    Reported("aborted")>>
    BY DEF Total, Reported
  <1> QED BY <1>1, <1>2, <1>3 DEF StatsMatchReports, Counted

--------------------------------------------------------------------------------
(* The invariant holds initially *)

LEMMA InitIInv == Init => IInv
  <1> SUFFICES ASSUME Init
               PROVE  IInv
    OBVIOUS
  <1>1. TypeOK
    <2>1. WorkOK
      BY DEF Init, WorkOK, WorkerState, Pcs, Results
    <2>2. ContextOK
      BY Zenon DEF Init, ContextOK
    <2>3. OthersOK
      BY DEF Init, OthersOK, IdleCollector, NoSums, Sums, Loads
    <2> QED BY <2>1, <2>2, <2>3, TypeParts
  <1>2. \A w \in Workers :
          worker[w] = [pc |-> "loop", task |-> NoTask, result |-> "none"]
    BY DEF Init
  <1>3. WorkerInv
    BY <1>2 DEF Init, WorkerInv, Holding, Finishing
  <1>4. \A t \in Tasks : ~ Held(t) /\ t \in ready
    BY <1>2 DEF Init, Held
  <1>5. TaskInv
    BY <1>2, <1>4 DEF Init, TaskInv, Reports
  <1>6. CollectorInv
    BY DEF Init, CollectorInv, IdleCollector, NoSums
  <1>7. ShutdownInv
    BY <1>2 DEF Init, ShutdownInv, IdleCollector
  <1>8. Total("executed") = 0
    <2> DEFINE f == [w \in Workers |-> wstats[w]["executed"]]
    <2>1. f \in [Workers -> Int] /\ \A w \in Workers : f[w] = 0
      BY DEF Init
    <2>2. IsFiniteSet(Workers)
      BY FS_Interval
    <2> HIDE DEF f
    <2>3. SumFunction(f) = 0
      BY <2>1, <2>2, SumOfZeros
    <2> QED BY <2>3 DEF f, Total
  <1>9. ASSUME NEW kind \in Reports
        PROVE  Reported(kind) = 0
    <2> DEFINE f == [t \in Tasks |-> reports[t][kind]]
    <2>1. f \in [Tasks -> Int] /\ \A t \in Tasks : f[t] = 0
      BY DEF Init
    <2> HIDE DEF f
    <2>2. SumFunction(f) = 0
      BY <2>1, SumOfZeros
    <2> QED BY <2>2 DEF f, Reported
  <1>10. {w \in Workers : worker[w].pc \in {"countOutcome", "report"}} = {}
    BY <1>2
  <1>11. StatsMatchReports
    <2>1. Reported("completed") = 0 /\ Reported("failed") = 0 /\ Reported("aborted") = 0
      BY <1>9 DEF Reports
    <2>2. \A w \in Workers : wstats[w].executed = 0 /\ wstats[w].succeeded = 0
                             /\ wstats[w].failed = 0 /\ worker[w].pc # "countOutcome"
      BY <1>2 DEF Init
    <2>3. Cardinality({w \in Workers : worker[w].pc \in {"countOutcome", "report"}}) = 0
      BY <1>10, FS_EmptySet, Zenon
    <2> QED BY <1>8, <2>1, <2>2, <2>3 DEF StatsMatchReports
  <1> QED BY <1>1, <1>3, <1>5, <1>6, <1>7, <1>11 DEF IInv

--------------------------------------------------------------------------------
(* Steps of a worker that neither count nor report *)

MayExit(pc) == pc = "exited" => cancelled

\* The new place fits the task, the result and the allocation of worker w.
Quiet(w, pc, result) ==
  /\ Moved(w, pc, worker[w].task, result)
  /\ UNCHANGED <<ready, handed, reports, wstats>> /\ UNCHANGED background
  /\ currentTask' \in [Workers -> Tasks \cup {NoTask}] /\ allocated' \in SUBSET Workers
  /\ worker[w].pc \notin {"exited", "countOutcome", "report"}
  /\ pc \notin {"countOutcome", "report"}
  /\ worker[w].pc \in Holding <=> pc \in Holding
  /\ result # "none" <=> pc \in Finishing
  /\ w \in allocated' <=> pc \in {"execute", "release"}
  /\ \A v \in Workers \ {w} : v \in allocated' <=> v \in allocated
  /\ result = "conflict" => \/ worker[w].result = "conflict"
                            \/ reports[worker[w].task]["aborted"] < MaxAborts

LEMMA QuietStep ==
  ASSUME IInv, NEW w \in Workers, NEW pc, NEW result, Quiet(w, pc, result), MayExit(pc)
  PROVE  IInv'
  <1> USE DEF Quiet, MayExit
  <1>1. WorkOK /\ WorkerInv /\ TaskInv /\ StatsMatchReports
    BY TypeParts DEF IInv
  <1>2. WorkOK'
    BY <1>1 DEF WorkOK, Moved
  <1>3. WorkerInv'
    <2>1. worker[w].task # NoTask <=> pc \in Holding
      BY <1>1 DEF WorkerInv
    <2> QED BY <1>1, <2>1, MovedWorkerInv
  <1>4. TaskInv'
    BY <1>1, TasksKept
  <1>5. StatsMatchReports'
    BY <1>1, StatsKept
  <1>6. ContextOK' /\ OthersOK' /\ CollectorInv' /\ ShutdownInv'
    BY WorkerStepKeepsOthers
  <1>7. TypeOK'
    BY <1>2, <1>6, TypeParts, PTL
  <1> QED BY <1>3, <1>4, <1>5, <1>6, <1>7 DEF IInv

\* What is known of a worker before its step.
LEMMA WorkerFacts ==
  ASSUME IInv, NEW w \in Workers
  PROVE  /\ WorkOK /\ worker[w] \in WorkerState
         /\ worker[w].task # NoTask <=> worker[w].pc \in Holding
         /\ worker[w].result # "none" <=> worker[w].pc \in Finishing
         /\ w \in allocated <=> worker[w].pc \in {"execute", "release"}
  <1>1. WorkOK /\ WorkerInv
    BY TypeParts DEF IInv
  <1> QED BY <1>1 DEF WorkOK, WorkerInv

LEMMA CheckContextKeeps ==
  ASSUME IInv, NEW w \in Workers, CheckContext(w)
  PROVE  IInv'
  <1> USE WorkerFacts DEF Holding, Finishing
  <1>1. PICK pc \in {"exited", "next"} : Goto(w, pc) /\ (pc = "exited" => cancelled)
    BY Zenon DEF CheckContext
  <1>2. Moved(w, pc, worker[w].task, worker[w].result)
    BY <1>1, GotoMoves DEF Pcs
  <1>3. /\ worker[w].pc = "loop" /\ UNCHANGED background
        /\ UNCHANGED <<ready, handed, reports, currentTask, wstats, allocated>>
    BY DEF CheckContext
  <1>4. Quiet(w, pc, worker[w].result)
    BY <1>1, <1>2, <1>3 DEF Quiet, WorkOK
  <1>5. MayExit(pc)
    BY <1>1, Zenon DEF MayExit
  <1> QED BY <1>4, <1>5, QuietStep

LEMMA NothingReadyKeeps ==
  ASSUME IInv, NEW w \in Workers, NothingReady(w)
  PROVE  IInv'
  <1> USE WorkerFacts DEF Holding, Finishing
  <1>1. Moved(w, "loop", worker[w].task, worker[w].result)
    BY GotoMoves DEF NothingReady, Pcs
  <1>2. /\ worker[w].pc = "next" /\ UNCHANGED background
        /\ UNCHANGED <<ready, handed, reports, currentTask, wstats, allocated>>
    BY DEF NothingReady
  <1>3. Quiet(w, "loop", worker[w].result)
    BY <1>1, <1>2 DEF Quiet, WorkOK
  <1>4. MayExit("loop")
    BY DEF MayExit
  <1> QED BY <1>3, <1>4, QuietStep

LEMMA StoreCurrentKeeps ==
  ASSUME IInv, NEW w \in Workers, StoreCurrent(w)
  PROVE  IInv'
  <1> USE WorkerFacts DEF Holding, Finishing
  <1>1. Moved(w, "allocate", worker[w].task, worker[w].result)
    BY GotoMoves DEF StoreCurrent, Pcs
  <1>2. /\ worker[w].pc = "store" /\ UNCHANGED background
        /\ UNCHANGED <<ready, handed, reports, wstats, allocated>>
    BY DEF StoreCurrent
  <1>3. currentTask' \in [Workers -> Tasks \cup {NoTask}]
    BY DEF StoreCurrent, WorkOK, WorkerState
  <1>4. Quiet(w, "allocate", worker[w].result)
    BY <1>1, <1>2, <1>3 DEF Quiet, WorkOK
  <1>5. MayExit("allocate")
    BY DEF MayExit
  <1> QED BY <1>4, <1>5, QuietStep

LEMMA AllocateResourcesKeeps ==
  ASSUME IInv, NEW w \in Workers, AllocateResources(w)
  PROVE  IInv'
  <1> USE WorkerFacts DEF Holding, Finishing
  <1>1. Moved(w, "execute", worker[w].task, worker[w].result)
    BY GotoMoves DEF AllocateResources, Pcs
  <1>2. /\ worker[w].pc = "allocate" /\ UNCHANGED background
        /\ UNCHANGED <<ready, handed, reports, currentTask, wstats>>
        /\ allocated' = allocated \cup {w}
    BY DEF AllocateResources
  <1>3. Quiet(w, "execute", worker[w].result)
    BY <1>1, <1>2 DEF Quiet, WorkOK
  <1>4. MayExit("execute")
    BY DEF MayExit
  <1> QED BY <1>3, <1>4, QuietStep

LEMMA ExecuteKeeps ==
  ASSUME IInv, NEW w \in Workers, NEW outcome \in Outcomes, Execute(w, outcome)
  PROVE  IInv'
  <1> USE WorkerFacts DEF Holding, Finishing
  <1> DEFINE result == IF outcome = "panic" THEN "error" ELSE outcome
  <1>1. Moved(w, "release", worker[w].task, result)
    BY ZenonT(30) DEF Execute, Moved, WorkOK, WorkerState, Pcs, Outcomes, Results
  <1>2. /\ worker[w].pc = "execute" /\ UNCHANGED background
        /\ UNCHANGED <<ready, handed, reports, currentTask, wstats, allocated>>
    BY DEF Execute
  <1>3. /\ result # "none"
        /\ result = "conflict" => reports[worker[w].task]["aborted"] < MaxAborts
    BY DEF Execute, Outcomes
  <1> HIDE DEF result
  <1>4. Quiet(w, "release", result)
    BY <1>1, <1>2, <1>3 DEF Quiet, WorkOK
  <1>5. MayExit("release")
    BY DEF MayExit
  <1> QED BY <1>4, <1>5, QuietStep

LEMMA ReleaseResourcesKeeps ==
  ASSUME IInv, NEW w \in Workers, ReleaseResources(w)
  PROVE  IInv'
  <1> USE WorkerFacts DEF Holding, Finishing
  <1>1. Moved(w, "count", worker[w].task, worker[w].result)
    BY GotoMoves DEF ReleaseResources, Pcs
  <1>2. /\ worker[w].pc = "release" /\ UNCHANGED background
        /\ UNCHANGED <<ready, handed, reports, currentTask, wstats>>
        /\ allocated' = allocated \ {w}
    BY DEF ReleaseResources
  <1>3. Quiet(w, "count", worker[w].result)
    BY <1>1, <1>2 DEF Quiet, WorkOK
  <1>4. MayExit("count")
    BY DEF MayExit
  <1> QED BY <1>3, <1>4, QuietStep

LEMMA ClearCurrentKeeps ==
  ASSUME IInv, NEW w \in Workers, ClearCurrent(w)
  PROVE  IInv'
  <1> USE WorkerFacts DEF Holding, Finishing
  <1>1. Moved(w, "loop", worker[w].task, worker[w].result)
    BY GotoMoves DEF ClearCurrent, Pcs
  <1>2. /\ worker[w].pc = "clear" /\ UNCHANGED background
        /\ UNCHANGED <<ready, handed, reports, wstats, allocated>>
    BY DEF ClearCurrent
  <1>3. currentTask' \in [Workers -> Tasks \cup {NoTask}]
    BY DEF ClearCurrent, WorkOK
  <1>4. Quiet(w, "loop", worker[w].result)
    BY <1>1, <1>2, <1>3 DEF Quiet, WorkOK
  <1>5. MayExit("loop")
    BY DEF MayExit
  <1> QED BY <1>4, <1>5, QuietStep

--------------------------------------------------------------------------------
(* Steps of a worker that take, count or report a task *)

\* What the other lemmas about a step of a worker have in common.
LEMMA WorkerStepKeeps ==
  ASSUME IInv, NEW w \in Workers, NEW pc, NEW task, NEW result, Moved(w, pc, task, result),
         UNCHANGED background, worker[w].pc # "exited", pc # "exited",
         WorkOK', WorkerInv', TaskInv', StatsMatchReports'
  PROVE  IInv'
  <1>1. ContextOK' /\ OthersOK' /\ CollectorInv' /\ ShutdownInv'
    BY WorkerStepKeepsOthers
  <1>2. TypeOK'
    BY <1>1, TypeParts, PTL
  <1> QED BY <1>1, <1>2 DEF IInv

\* How often task t was reported, but for the conflicts.
Ends(t) == reports[t]["completed"] + reports[t]["failed"] + reports[t]["unallocated"]

\* TaskInv for one task.
TaskFits(t) ==
  /\ Held(t) => t \notin ready
  /\ Ends(t) = IF t \in ready \/ Held(t) THEN 0 ELSE 1
  /\ handed[t] = reports[t]["aborted"] + Ends(t) + (IF Held(t) THEN 1 ELSE 0)
  /\ reports[t]["aborted"] <= MaxAborts

HeldOnce ==
  \A v, w \in Workers : worker[v].task = worker[w].task => v = w \/ worker[v].task = NoTask

RoomForConflict ==
  \A w \in Workers : worker[w].result = "conflict" =>
    reports[worker[w].task]["aborted"] < MaxAborts

TasksFit == \A t \in Tasks : TaskFits(t)

LEMMA TaskInvParts == TaskInv <=> HeldOnce /\ TasksFit /\ RoomForConflict
  BY DEF TaskInv, HeldOnce, TasksFit, TaskFits, Ends, RoomForConflict

LEMMA TaskFacts ==
  ASSUME IInv, NEW t \in Tasks
  PROVE  /\ TaskFits(t)
         /\ handed[t] \in Nat
         /\ reports[t] \in [Reports -> Nat]
         /\ Ends(t) \in Nat
  <1>1. TaskFits(t) /\ WorkOK
    BY TypeParts, TaskInvParts DEF IInv, TasksFit
  <1>2. handed[t] \in 0 .. MaxAborts + 1 /\ reports[t] \in [Reports -> 0 .. MaxAborts + 1]
    BY <1>1 DEF WorkOK
  <1> QED BY <1>1, <1>2 DEF Reports, Ends

LEMMA NextTaskKeeps ==
  ASSUME IInv, NEW w \in Workers, NEW t \in Tasks, NextTask(w, t)
  PROVE  IInv'
  <1>1. WorkOK /\ WorkerInv /\ TaskInv /\ StatsMatchReports
    BY TypeParts DEF IInv
  <1>2. worker[w].pc = "next" /\ worker[w].task = NoTask /\ worker[w].result = "none"
    BY WorkerFacts DEF NextTask, Holding, Finishing
  <1>3. Moved(w, "store", t, "none")
    BY <1>1, <1>2 DEF NextTask, Moved, WorkOK, WorkerState, Pcs
  <1>4. /\ t \in ready /\ ready' = ready \ {t}
        /\ handed' = [handed EXCEPT ![t] = @ + 1]
        /\ UNCHANGED <<reports, currentTask, wstats, allocated>> /\ UNCHANGED background
    BY DEF NextTask
  <1>5. ~ Held(t) /\ Ends(t) = 0 /\ handed[t] = reports[t]["aborted"]
    BY <1>4, TaskFacts DEF TaskFits, Reports
  <1>6. WorkOK'
    <2>1. handed[t] + 1 \in 0 .. MaxAborts + 1
      BY <1>5, TaskFacts DEF TaskFits, Reports
    <2> QED BY <1>1, <1>3, <1>4, <2>1 DEF WorkOK, Moved
  <1>7. WorkerInv'
    BY <1>1, <1>2, <1>3, <1>4, MovedWorkerInv DEF Holding, Finishing, WorkerInv
  <1>8. TaskInv'
    <2>1. HeldOnce'
      BY <1>1, <1>3, <1>5, TaskInvParts DEF HeldOnce, Held, Moved
    <2>2. ASSUME NEW u \in Tasks
          PROVE  TaskFits(u)'
      <3>1. Held(u)' <=> Held(u) \/ u = t
        BY <1>2, <1>3 DEF Held, Moved
      <3>2. Ends(u)' = Ends(u) /\ reports'[u] = reports[u]
        BY <1>4 DEF Ends
      <3>3. TaskFits(u) /\ handed[u] \in Nat /\ reports[u]["aborted"] \in Nat
            /\ DOMAIN handed = Tasks
        BY <1>1, TaskFacts DEF WorkOK, Reports
      <3>4. CASE u = t
        <4>1. t \notin ready' /\ handed'[t] = handed[t] + 1
          BY <1>4, <3>3
        <4> QED BY <1>5, <3>1, <3>2, <3>3, <3>4, <4>1 DEF TaskFits
      <3>5. CASE u # t
        <4>1. (u \in ready' <=> u \in ready) /\ handed'[u] = handed[u]
          BY <1>4, <3>3, <3>5
        <4> QED BY <3>1, <3>2, <3>3, <3>5, <4>1 DEF TaskFits
      <3> QED BY <3>4, <3>5
    <2>3. RoomForConflict'
      BY <1>1, <1>3, <1>4, TaskInvParts DEF RoomForConflict, Moved
    <2>4. TasksFit'
      BY <2>2 DEF TasksFit
    <2> QED BY <2>1, <2>3, <2>4, TaskInvParts, PTL
  <1>9. StatsMatchReports'
    BY <1>1, <1>2, <1>3, <1>4, StatsKept
  <1> QED BY <1>2, <1>3, <1>4, <1>6, <1>7, <1>8, <1>9, WorkerStepKeeps

LEMMA AllocationFailedKeeps ==
  ASSUME IInv, NEW w \in Workers, AllocationFailed(w)
  PROVE  IInv'
  <1>1. WorkOK /\ WorkerInv /\ TaskInv /\ StatsMatchReports
    BY TypeParts DEF IInv
  <1>2. worker[w].pc = "allocate" /\ worker[w].task # NoTask /\ worker[w].result = "none"
        /\ w \notin allocated
    BY WorkerFacts DEF AllocationFailed, Holding, Finishing
  <1>3. PICK t \in Tasks : t = worker[w].task
    BY <1>2, WorkerFacts DEF WorkerState
  <1>4. Moved(w, "loop", NoTask, "none")
    BY <1>1, <1>2 DEF AllocationFailed, Moved, WorkOK, WorkerState, Pcs
  <1>5. /\ reports' = [reports EXCEPT ![t]["unallocated"] = @ + 1]
        /\ UNCHANGED <<ready, handed, currentTask, wstats, allocated>> /\ UNCHANGED background
    BY <1>3 DEF AllocationFailed
  <1>6. Held(t) /\ t \notin ready /\ Ends(t) = 0 /\ reports[t]["unallocated"] = 0
    <2>1. Held(t) /\ TaskFits(t) /\ reports[t] \in [Reports -> Nat]
      BY <1>3, TaskFacts DEF Held
    <2>2. t \notin ready /\ Ends(t) = 0
      BY <2>1 DEF TaskFits
    <2>3. /\ reports[t]["completed"] \in Nat /\ reports[t]["failed"] \in Nat
          /\ reports[t]["unallocated"] \in Nat
      BY <2>1 DEF Reports
    <2> QED BY <2>1, <2>2, <2>3 DEF Ends
  <1>7. /\ reports'[t] \in [Reports -> 0 .. MaxAborts + 1]
        /\ reports'[t]["unallocated"] = 1
        /\ \A kind \in Reports \ {"unallocated"} : reports'[t][kind] = reports[t][kind]
        /\ \A u \in Tasks \ {t} : reports'[u] = reports[u]
    BY SMTT(30), <1>1, <1>5, <1>6 DEF WorkOK, Reports
  <1>8. WorkOK'
    BY <1>1, <1>4, <1>5, <1>7 DEF WorkOK, Moved
  <1>9. WorkerInv'
    BY <1>1, <1>2, <1>4, <1>5, MovedWorkerInv DEF Holding, Finishing, WorkerInv
  <1>10. TaskInv'
    <2>1. HeldOnce'
      BY <1>1, <1>4, TaskInvParts DEF HeldOnce, Moved
    <2>2. ASSUME NEW u \in Tasks
          PROVE  TaskFits(u)'
      <3>1. CASE u = t
        <4>1. ~ Held(t)'
          BY <1>1, <1>2, <1>3, <1>4, TaskInvParts DEF HeldOnce, Held, Moved
        <4>2. Ends(t)' = 1 /\ reports'[t]["aborted"] = reports[t]["aborted"]
          <5>1. /\ reports'[t]["completed"] = reports[t]["completed"]
                /\ reports'[t]["failed"] = reports[t]["failed"]
                /\ reports'[t]["aborted"] = reports[t]["aborted"]
            BY <1>7 DEF Reports
          <5>2. reports[t]["completed"] \in Nat /\ reports[t]["failed"] \in Nat
            BY TaskFacts DEF Reports
          <5> QED BY <1>6, <1>7, <5>1, <5>2 DEF Ends
        <4> QED BY <1>5, <1>6, <3>1, <4>1, <4>2, TaskFacts DEF TaskFits, Reports
      <3>2. CASE u # t
        <4>1. Held(u)' <=> Held(u)
          BY <1>3, <1>4, <3>2 DEF Held, Moved
        <4>2. reports'[u] = reports[u]
          BY <1>7, <3>2
        <4>3. Ends(u)' = Ends(u)
          BY <4>2 DEF Ends
        <4> QED BY <1>5, <4>1, <4>2, <4>3, TaskFacts DEF TaskFits
      <3> QED BY <3>1, <3>2
    <2>3. RoomForConflict'
      <3> SUFFICES ASSUME NEW v \in Workers, worker'[v].result = "conflict"
                   PROVE  reports'[worker'[v].task]["aborted"] < MaxAborts
        BY DEF RoomForConflict
      <3>1. v # w /\ worker'[v] = worker[v]
        BY <1>4 DEF Moved
      <3>2. worker[v].task # t
        BY <1>1, <1>2, <1>3, <3>1, TaskInvParts DEF HeldOnce
      <3>3. worker[v].task \in Tasks
        BY <3>1, WorkerFacts DEF WorkerState, Holding, Finishing
      <3>4. reports'[worker[v].task] = reports[worker[v].task]
        BY <1>7, <3>2, <3>3
      <3> QED BY <1>1, <3>1, <3>4, TaskInvParts DEF RoomForConflict
    <2>4. TasksFit'
      BY <2>2 DEF TasksFit
    <2> QED BY <2>1, <2>3, <2>4, TaskInvParts, PTL
  <1>11. StatsMatchReports'
    <2>1. ASSUME NEW kind \in Reports \ {"unallocated"}
          PROVE  UNCHANGED Reported(kind)
      <3>1. \A u \in Tasks : reports'[u][kind] = reports[u][kind]
        BY <1>7
      <3> QED BY <3>1 DEF Reported
    <2>2. Counted' = Counted
      BY <1>2, <1>4 DEF Counted, Moved
    <2>3. \A v \in Workers : worker'[v].pc = "countOutcome" <=> worker[v].pc = "countOutcome"
      BY <1>2, <1>4 DEF Moved
    <2>4. UNCHANGED <<wstats, Total("executed"), Reported("completed"), Reported("failed"),
                      Reported("aborted")>>
      BY <1>5, <2>1 DEF Total, Reports
    <2> QED BY <1>1, <2>2, <2>3, <2>4 DEF StatsMatchReports, Counted
  <1> QED BY <1>2, <1>4, <1>5, <1>8, <1>9, <1>10, <1>11, WorkerStepKeeps

WorkerStats == [executed: Nat, succeeded: Nat, failed: Nat]

\* A worker that changes only counters keeps all but StatsMatchReports.
LEMMA CountingKeeps ==
  ASSUME IInv, NEW w \in Workers, NEW pc \in {"countOutcome", "report"},
         worker[w].pc \in {"count", "countOutcome"}, Goto(w, pc),
         UNCHANGED <<ready, handed, reports, currentTask, allocated>>, UNCHANGED background,
         wstats' \in [Workers -> WorkerStats], StatsMatchReports'
  PROVE  IInv'
  <1>1. WorkOK /\ WorkerInv /\ TaskInv
    BY TypeParts DEF IInv
  <1>2. Moved(w, pc, worker[w].task, worker[w].result)
    BY <1>1, GotoMoves DEF Pcs
  <1>3. WorkOK'
    BY <1>1, <1>2 DEF WorkOK, Moved, WorkerStats
  <1>4. WorkerInv'
    BY <1>1, <1>2, WorkerFacts, MovedWorkerInv DEF Holding, Finishing, WorkerInv
  <1>5. TaskInv'
    BY <1>1, <1>2, TasksKept
  <1> QED BY <1>2, <1>3, <1>4, <1>5, WorkerStepKeeps

LEMMA CountedFinite == IsFiniteSet(Counted) /\ Cardinality(Counted) \in Nat
  <1>1. IsFiniteSet(Workers) /\ Counted \in SUBSET Workers
    BY FS_Interval DEF Counted
  <1>2. IsFiniteSet(Counted)
    BY <1>1, FS_Subset
  <1> QED BY <1>2, FS_CardinalityType

LEMMA ReportedIsInt ==
  ASSUME WorkOK, NEW kind \in Reports
  PROVE  Reported(kind) \in Int
  <1> DEFINE f == [t \in Tasks |-> reports[t][kind]]
  <1>1. f \in [Tasks -> Int]
    BY DEF WorkOK
  <1> HIDE DEF f
  <1>2. PICK it \in [SUBSET Tasks -> Int] : SumFunction(f) = it[Tasks]
    BY <1>1, SumFacts
  <1> QED BY <1>2 DEF f, Reported

LEMMA CountExecutedKeeps ==
  ASSUME IInv, NEW w \in Workers, CountExecuted(w)
  PROVE  IInv'
  <1>1. WorkOK /\ StatsMatchReports
    BY TypeParts DEF IInv
  <1>2. Moved(w, "countOutcome", worker[w].task, worker[w].result)
    BY <1>1, GotoMoves DEF CountExecuted, Pcs
  <1>3. /\ worker[w].pc = "count" /\ Goto(w, "countOutcome")
        /\ wstats' = [wstats EXCEPT ![w].executed = @ + 1]
        /\ UNCHANGED <<ready, handed, reports, currentTask, allocated>>
        /\ UNCHANGED background
    BY DEF CountExecuted
  <1>4. wstats' \in [Workers -> WorkerStats]
    <2>1. wstats \in [Workers -> WorkerStats] /\ wstats[w] \in WorkerStats
      BY <1>1 DEF WorkOK, WorkerStats
    <2> QED BY SMTT(30), <1>3, <2>1 DEF WorkerStats
  <1>5. Total("executed")' = Total("executed") + 1 /\ Total("executed") \in Int
    <2> DEFINE f == [v \in Workers |-> wstats[v]["executed"]]
               g == [v \in Workers |-> wstats'[v]["executed"]]
    <2>1. f \in [Workers -> Int] /\ g \in [Workers -> Int]
      <3>1. \A v \in Workers : wstats[v] \in WorkerStats /\ wstats'[v] \in WorkerStats
        BY <1>1, <1>4 DEF WorkOK, WorkerStats
      <3> QED BY <3>1 DEF WorkerStats
    <2>2. g[w] = f[w] + 1 /\ \A v \in Workers \ {w} : g[v] = f[v]
      BY <1>1, <1>3 DEF WorkOK
    <2>3. IsFiniteSet(Workers)
      BY FS_Interval
    <2>4. Total("executed") = SumFunction(f) /\ Total("executed")' = SumFunction(g)
      BY DEF Total
    <2> HIDE DEF f, g
    <2>5. SumFunction(f) \in Int /\ SumFunction(g) = SumFunction(f) + (g[w] - f[w])
      BY <2>1, <2>2, <2>3, SumAt
    <2>6. f[w] \in Int /\ g[w] - f[w] = 1
      BY <2>1, <2>2
    <2> QED BY <2>4, <2>5, <2>6
  <1>6. Cardinality(Counted') = Cardinality(Counted) + 1
    <2>1. Counted' = Counted \cup {w} /\ w \notin Counted
      BY <1>2, <1>3 DEF Counted, Moved
    <2> QED BY <2>1, CountedFinite, FS_AddElement
  <1>7. UNCHANGED <<Reported("completed"), Reported("failed"), Reported("aborted")>>
    BY <1>3 DEF Reported
  <1>8. ASSUME NEW v \in Workers
        PROVE  wstats'[v].executed = wstats'[v].succeeded + wstats'[v].failed
                                     + (IF worker'[v].pc = "countOutcome" THEN 1 ELSE 0)
    <2>1. wstats[v].executed = wstats[v].succeeded + wstats[v].failed
                               + (IF worker[v].pc = "countOutcome" THEN 1 ELSE 0)
      BY <1>1 DEF StatsMatchReports
    <2> QED BY SMTT(30), <1>1, <1>2, <1>3, <2>1 DEF WorkOK, Moved
  <1>9. StatsMatchReports'
    <2>1. Total("executed") = Reported("completed") + Reported("failed") + Reported("aborted")
                              + Cardinality(Counted)
      BY <1>1 DEF StatsMatchReports, Counted
    <2>2. \A kind \in {"completed", "failed", "aborted"} : Reported(kind) \in Int
      BY <1>1, ReportedIsInt DEF Reports
    <2>3. Total("executed")' = Reported("completed")' + Reported("failed")'
                               + Reported("aborted")' + Cardinality(Counted')
      BY <1>5, <1>6, <1>7, <2>1, <2>2, CountedFinite
    <2> QED BY <1>8, <2>3 DEF StatsMatchReports, Counted
  <1> QED BY <1>3, <1>4, <1>9, CountingKeeps

LEMMA CountOutcomeKeeps ==
  ASSUME IInv, NEW w \in Workers, CountOutcome(w)
  PROVE  IInv'
  <1>1. WorkOK /\ StatsMatchReports
    BY TypeParts DEF IInv
  <1>2. Moved(w, "report", worker[w].task, worker[w].result)
    BY <1>1, GotoMoves DEF CountOutcome, Pcs
  <1>3. /\ worker[w].pc = "countOutcome" /\ Goto(w, "report")
        /\ wstats' = IF worker[w].result = "success"
                     THEN [wstats EXCEPT ![w].succeeded = @ + 1]
                     ELSE [wstats EXCEPT ![w].failed = @ + 1]
        /\ UNCHANGED <<ready, handed, reports, currentTask, allocated>>
        /\ UNCHANGED background
    BY DEF CountOutcome
  <1>4. wstats' \in [Workers -> WorkerStats]
    <2>1. wstats \in [Workers -> WorkerStats] /\ wstats[w] \in WorkerStats
      BY <1>1 DEF WorkOK, WorkerStats
    <2> QED BY <1>3, <2>1 DEF WorkerStats
  <1>5. Counted' = Counted
    BY <1>2, <1>3 DEF Counted, Moved
  <1>6. UNCHANGED <<Total("executed"), Reported("completed"), Reported("failed"),
                    Reported("aborted")>>
    <2>1. \A v \in Workers : wstats'[v]["executed"] = wstats[v]["executed"]
      BY <1>1, <1>3 DEF WorkOK
    <2> QED BY <1>3, <2>1 DEF Total, Reported
  <1>7. ASSUME NEW v \in Workers
        PROVE  wstats'[v].executed = wstats'[v].succeeded + wstats'[v].failed
                                     + (IF worker'[v].pc = "countOutcome" THEN 1 ELSE 0)
    <2>1. wstats[v].executed = wstats[v].succeeded + wstats[v].failed
                               + (IF worker[v].pc = "countOutcome" THEN 1 ELSE 0)
      BY <1>1 DEF StatsMatchReports
    <2> QED BY SMTT(30), <1>1, <1>2, <1>3, <2>1 DEF WorkOK, Moved
  <1>8. StatsMatchReports'
    BY <1>1, <1>5, <1>6, <1>7 DEF StatsMatchReports, Counted
  <1> QED BY <1>3, <1>4, <1>8, CountingKeeps

LEMMA ReportKeeps ==
  ASSUME IInv, NEW w \in Workers, Report(w)
  PROVE  IInv'
  <1> DEFINE kind == ReportOf(worker[w].result)
  <1>1. WorkOK /\ WorkerInv /\ TaskInv /\ StatsMatchReports
    BY TypeParts DEF IInv
  <1>2. worker[w].pc = "report" /\ worker[w].task # NoTask /\ w \notin allocated
    BY WorkerFacts DEF Report, Holding
  <1>3. PICK t \in Tasks : t = worker[w].task
    BY <1>2, WorkerFacts DEF WorkerState
  <1>4. PICK k \in {"completed", "failed", "aborted"} :
          k = kind /\ (k = "aborted" => worker[w].result = "conflict")
    BY DEF ReportOf
  <1> HIDE DEF kind
  <1>5. Moved(w, "clear", NoTask, "none")
    BY ZenonT(30), <1>1 DEF Report, Moved, WorkOK, WorkerState, Pcs, Results
  <1>6. /\ reports' = [reports EXCEPT ![t][k] = @ + 1]
        /\ ready' = IF k = "aborted" THEN ready \cup {t} ELSE ready
        /\ UNCHANGED <<handed, currentTask, wstats, allocated>> /\ UNCHANGED background
    BY <1>3, <1>4 DEF Report, kind
  <1>7. /\ Held(t) /\ t \notin ready /\ Ends(t) = 0
        /\ handed[t] = reports[t]["aborted"] + 1
        /\ reports[t]["completed"] = 0 /\ reports[t]["failed"] = 0
        /\ reports[t]["unallocated"] = 0
    <2>1. Held(t) /\ TaskFits(t) /\ reports[t] \in [Reports -> Nat]
      BY <1>3, TaskFacts DEF Held
    <2>2. t \notin ready /\ Ends(t) = 0
      BY <2>1 DEF TaskFits
    <2>3. \A r \in Reports : reports[t][r] \in Nat
      BY <2>1
    <2>4. /\ reports[t]["completed"] \in Nat /\ reports[t]["failed"] \in Nat
          /\ reports[t]["unallocated"] \in Nat /\ reports[t]["aborted"] \in Nat
      BY <2>3 DEF Reports
    <2>5. /\ reports[t]["completed"] = 0 /\ reports[t]["failed"] = 0
          /\ reports[t]["unallocated"] = 0
      BY <2>2, <2>4 DEF Ends
    <2>6. handed[t] = reports[t]["aborted"] + 1
      BY <2>1, <2>2, <2>4 DEF TaskFits
    <2> QED BY <2>1, <2>2, <2>5, <2>6
  <1>8. k = "aborted" => reports[t]["aborted"] < MaxAborts
    BY <1>1, <1>3, <1>4, TaskInvParts DEF RoomForConflict
  <1>9. /\ reports' \in [Tasks -> [Reports -> 0 .. MaxAborts + 1]]
        /\ reports'[t][k] = reports[t][k] + 1
        /\ \A r \in Reports \ {k} : reports'[t][r] = reports[t][r]
        /\ \A u \in Tasks \ {t} : reports'[u] = reports[u]
    <2>1. reports \in [Tasks -> [Reports -> 0 .. MaxAborts + 1]] /\ k \in Reports
      BY <1>1 DEF WorkOK, Reports
    <2>2. reports[t][k] \in 0 .. MaxAborts + 1
      BY <2>1
    <2>3. reports[t][k] + 1 \in 0 .. MaxAborts + 1
      BY <1>7, <1>8, <2>2
    <2> QED BY <1>6, <2>1, <2>3
  <1>10. WorkOK'
    BY <1>1, <1>5, <1>6, <1>9 DEF WorkOK, Moved
  <1>11. WorkerInv'
    BY <1>1, <1>2, <1>5, <1>6, MovedWorkerInv DEF Holding, Finishing, WorkerInv
  <1>12. TaskInv'
    <2>1. HeldOnce'
      BY <1>1, <1>5, TaskInvParts DEF HeldOnce, Moved
    <2>2. ASSUME NEW u \in Tasks
          PROVE  TaskFits(u)'
      <3>1. CASE u = t
        <4>1. ~ Held(t)'
          BY <1>1, <1>2, <1>3, <1>5, TaskInvParts DEF HeldOnce, Held, Moved
        <4>2. reports[t]["aborted"] \in Nat
          BY TaskFacts DEF Reports
        <4>3. CASE k = "aborted"
          <5>1. reports'[t]["aborted"] = reports[t]["aborted"] + 1
            BY <1>9, <4>3
          <5>2. /\ reports'[t]["completed"] = 0 /\ reports'[t]["failed"] = 0
                /\ reports'[t]["unallocated"] = 0
            BY <1>7, <1>9, <4>3 DEF Reports
          <5>3. Ends(t)' = 0
            BY <5>2 DEF Ends
          <5>4. t \in ready' /\ handed'[t] = handed[t]
            BY <1>6, <4>3
          <5> QED BY <1>7, <1>8, <3>1, <4>1, <4>2, <4>3, <5>1, <5>3, <5>4 DEF TaskFits
        <4>4. CASE k # "aborted"
          <5>1. reports'[t]["aborted"] = reports[t]["aborted"]
            BY <1>9, <4>4 DEF Reports
          <5>2. /\ reports'[t]["unallocated"] = 0
                /\ \/ reports'[t]["completed"] = 1 /\ reports'[t]["failed"] = 0
                   \/ reports'[t]["completed"] = 0 /\ reports'[t]["failed"] = 1
            BY <1>7, <1>9, <4>4 DEF Reports
          <5>3. Ends(t)' = 1
            BY <5>2 DEF Ends
          <5>4. t \notin ready' /\ handed'[t] = handed[t]
            BY <1>6, <1>7, <4>4
          <5>5. reports[t]["aborted"] <= MaxAborts
            BY TaskFacts DEF TaskFits
          <5> QED BY <1>7, <3>1, <4>1, <4>2, <5>1, <5>3, <5>4, <5>5 DEF TaskFits
        <4> QED BY <4>3, <4>4
      <3>2. CASE u # t
        <4>1. Held(u)' <=> Held(u)
          BY <1>3, <1>5, <3>2 DEF Held, Moved
        <4>2. reports'[u] = reports[u]
          BY <1>9, <3>2
        <4>3. Ends(u)' = Ends(u)
          BY <4>2 DEF Ends
        <4>4. (u \in ready' <=> u \in ready) /\ handed'[u] = handed[u]
          BY <1>6, <3>2
        <4> QED BY <4>1, <4>2, <4>3, <4>4, TaskFacts DEF TaskFits
      <3> QED BY <3>1, <3>2
    <2>3. RoomForConflict'
      <3> SUFFICES ASSUME NEW v \in Workers, worker'[v].result = "conflict"
                   PROVE  reports'[worker'[v].task]["aborted"] < MaxAborts
        BY DEF RoomForConflict
      <3>1. v # w /\ worker'[v] = worker[v]
        BY <1>5 DEF Moved
      <3>2. worker[v].task # t
        BY <1>1, <1>2, <1>3, <3>1, TaskInvParts DEF HeldOnce
      <3>3. worker[v].task \in Tasks
        BY <3>1, WorkerFacts DEF WorkerState, Holding, Finishing
      <3>4. reports'[worker[v].task] = reports[worker[v].task]
        BY <1>9, <3>2, <3>3
      <3> QED BY <1>1, <3>1, <3>4, TaskInvParts DEF RoomForConflict
    <2>4. TasksFit'
      BY <2>2 DEF TasksFit
    <2> QED BY <2>1, <2>3, <2>4, TaskInvParts, PTL
  <1>13. StatsMatchReports'
    <2>1. ASSUME NEW r \in {"completed", "failed", "aborted"}
          PROVE  /\ Reported(r)' = Reported(r) + (IF r = k THEN 1 ELSE 0)
                 /\ Reported(r) \in Int
      <3> DEFINE f == [u \in Tasks |-> reports[u][r]]
                 g == [u \in Tasks |-> reports'[u][r]]
      <3>1. r \in Reports
        BY DEF Reports
      <3>2. f \in [Tasks -> Int] /\ g \in [Tasks -> Int]
        BY SMTT(30), <1>1, <1>9, <3>1 DEF WorkOK
      <3>3. g[t] = f[t] + (IF r = k THEN 1 ELSE 0) /\ \A u \in Tasks \ {t} : g[u] = f[u]
        BY <1>9, <3>1
      <3>4. Reported(r) = SumFunction(f) /\ Reported(r)' = SumFunction(g)
        BY DEF Reported
      <3> HIDE DEF f, g
      <3>5. SumFunction(f) \in Int /\ SumFunction(g) = SumFunction(f) + (g[t] - f[t])
        BY <3>2, <3>3, SumAt
      <3>6. f[t] \in Int /\ g[t] - f[t] = IF r = k THEN 1 ELSE 0
        BY <3>2, <3>3
      <3> QED BY <3>4, <3>5, <3>6
    <2>2. Cardinality(Counted') = Cardinality(Counted) - 1
      <3>1. Counted' = Counted \ {w} /\ w \in Counted
        BY <1>2, <1>5 DEF Counted, Moved
      <3> QED BY <3>1, CountedFinite, FS_RemoveElement
    <2>3. Total("executed")' = Total("executed") /\ UNCHANGED wstats
      BY <1>6 DEF Total
    <2>4. Total("executed") = Reported("completed") + Reported("failed") + Reported("aborted")
                              + Cardinality(Counted)
      BY <1>1 DEF StatsMatchReports, Counted
    <2>5. Total("executed")' = Reported("completed")' + Reported("failed")'
                               + Reported("aborted")' + Cardinality(Counted')
      BY <2>1, <2>2, <2>3, <2>4, CountedFinite
    <2>6. \A v \in Workers : worker'[v].pc = "countOutcome" <=> worker[v].pc = "countOutcome"
      BY <1>2, <1>5 DEF Moved
    <2> QED BY <1>1, <2>3, <2>5, <2>6 DEF StatsMatchReports, Counted
  <1> QED BY <1>2, <1>5, <1>6, <1>10, <1>11, <1>12, <1>13, WorkerStepKeeps

LEMMA WorkerStepIInv ==
  ASSUME IInv, NEW w \in Workers, WorkerStep(w)
  PROVE  IInv'
  <1>1. CASE CheckContext(w) \/ NothingReady(w)
    BY <1>1, CheckContextKeeps, NothingReadyKeeps
  <1>2. CASE \E t \in Tasks : NextTask(w, t)
    BY <1>2, NextTaskKeeps
  <1>3. CASE StoreCurrent(w) \/ AllocateResources(w) \/ AllocationFailed(w)
    BY <1>3, StoreCurrentKeeps, AllocateResourcesKeeps, AllocationFailedKeeps
  <1>4. CASE \E o \in Outcomes : Execute(w, o)
    BY <1>4, ExecuteKeeps
  <1>5. CASE ReleaseResources(w) \/ CountExecuted(w) \/ CountOutcome(w)
    BY <1>5, ReleaseResourcesKeeps, CountExecutedKeeps, CountOutcomeKeeps
  <1>6. CASE Report(w) \/ ClearCurrent(w)
    BY <1>6, ReportKeeps, ClearCurrentKeeps
  <1> QED BY <1>1, <1>2, <1>3, <1>4, <1>5, <1>6, Zenon DEF WorkerStep

--------------------------------------------------------------------------------
(* The collector and Shutdown *)

\* They leave the work alone.
LEMMA WorkKept ==
  ASSUME IInv, UNCHANGED work, ContextOK', OthersOK', CollectorInv', ShutdownInv'
  PROVE  IInv'
  <1>1. WorkOK /\ WorkerInv /\ TaskInv /\ StatsMatchReports
    BY TypeParts DEF IInv
  <1>2. UNCHANGED <<ready, handed, reports, worker, currentTask, wstats, allocated>>
    BY DEF work
  <1>3. WorkOK' /\ WorkerInv'
    BY <1>1, <1>2 DEF WorkOK, WorkerInv
  <1>4. TaskInv'
    BY <1>1, <1>2 DEF TaskInv, Held
  <1>5. StatsMatchReports'
    BY <1>1, <1>2 DEF StatsMatchReports, Total, Reported
  <1>6. TypeOK'
    BY <1>3, TypeParts, PTL
  <1> QED BY <1>3, <1>4, <1>5, <1>6 DEF IInv

\* A step of the collector also leaves the context and Shutdown alone.
LEMMA CollectorKeeps ==
  ASSUME IInv, UNCHANGED <<work, cancelled, shutdown>>, OthersOK', CollectorInv',
         collector.pc # "exited", collector'.pc = "exited" => cancelled
  PROVE  IInv'
  <1>1. ContextOK /\ ShutdownInv
    BY TypeParts DEF IInv
  <1>2. ContextOK'
    BY <1>1 DEF ContextOK
  <1>3. ShutdownInv'
    <2>1. shutdown # "done"
      BY <1>1 DEF ShutdownInv
    <2>2. UNCHANGED worker
      BY DEF work
    <2> QED BY <1>1, <2>1, <2>2 DEF ShutdownInv
  <1> QED BY <1>2, <1>3, WorkKept

LEMMA CollectorFacts ==
  ASSUME IInv
  PROVE  /\ OthersOK /\ CollectorInv
         /\ collector.next \in 1 .. Loads + 1 /\ Loads = 4 * NumWorkers
         /\ collector.sums \in Sums /\ collector.sums.active \in 0 .. NumWorkers
  <1>1. OthersOK /\ CollectorInv
    BY TypeParts DEF IInv
  <1>2. collector.next \in 1 .. Loads + 1 /\ collector.sums \in Sums
    BY <1>1 DEF OthersOK
  <1> QED BY <1>1, <1>2 DEF Sums, Loads

LEMMA TickKeeps ==
  ASSUME IInv, Tick
  PROVE  IInv'
  <1>1. OthersOK' /\ CollectorInv' /\ collector.pc = "wait" /\ collector'.pc = "load"
    BY CollectorFacts DEF Tick, OthersOK, CollectorInv
  <1> QED BY <1>1, CollectorKeeps DEF Tick

LEMMA CollectorExitKeeps ==
  ASSUME IInv, CollectorExit
  PROVE  IInv'
  <1>1. OthersOK' /\ CollectorInv' /\ collector.pc = "wait" /\ collector'.pc = "exited"
    BY CollectorFacts DEF CollectorExit, OthersOK, CollectorInv
  <1>2. cancelled
    BY Zenon DEF CollectorExit
  <1> QED BY <1>1, <1>2, CollectorKeeps DEF CollectorExit

LEMMA PublishKeeps ==
  ASSUME IInv, Publish
  PROVE  IInv'
  <1>1. OthersOK' /\ CollectorInv' /\ collector.pc = "load" /\ collector'.pc = "wait"
    BY CollectorFacts DEF Publish, OthersOK, CollectorInv, IdleCollector, NoSums, Sums
  <1> QED BY <1>1, CollectorKeeps DEF Publish

\* The sums after the load of the kind r from worker w.
Loaded(s, w, r) ==
  CASE r = 0 -> [s EXCEPT !.active = @ + (IF currentTask[w] = NoTask THEN 0 ELSE 1)]
    [] r = 1 -> [s EXCEPT !.total = @ + wstats[w].executed]
    [] r = 2 -> [s EXCEPT !.successful = @ + wstats[w].succeeded]
    [] r = 3 -> [s EXCEPT !.failed = @ + wstats[w].failed]

LEMMA LoadIsLoaded ==
  ASSUME Load
  PROVE  collector' = [collector EXCEPT !.next = @ + 1, !.sums =
                         Loaded(@, (collector.next - 1) \div 4 + 1, (collector.next - 1) % 4)]
  BY Zenon DEF Load, Loaded

LEMMA LoadedSums ==
  ASSUME NEW s \in Sums, NEW w \in Workers, NEW r \in 0 .. 3, wstats[w] \in WorkerStats,
         r = 0 => s.active < NumWorkers
  PROVE  /\ Loaded(s, w, r) \in Sums
         /\ Loaded(s, w, r).active <= IF r = 0 THEN s.active + 1 ELSE s.active
  <1>1. /\ s.active \in 0 .. NumWorkers
        /\ s.total \in Nat /\ s.successful \in Nat /\ s.failed \in Nat
        /\ wstats[w].executed \in Nat /\ wstats[w].succeeded \in Nat /\ wstats[w].failed \in Nat
    BY DEF Sums, WorkerStats
  <1>2. CASE r = 0
    <2> DEFINE d == IF currentTask[w] = NoTask THEN 0 ELSE 1
    <2>1. d \in 0 .. 1 /\ Loaded(s, w, r) = [s EXCEPT !.active = s.active + d]
      BY <1>2 DEF Loaded
    <2> HIDE DEF d
    <2>2. s.active + d \in 0 .. NumWorkers /\ s.active + d <= s.active + 1
      BY <1>1, <1>2, <2>1
    <2> QED BY <1>2, <2>1, <2>2 DEF Sums
  <1>3. CASE r = 1
    <2>1. Loaded(s, w, r) = [s EXCEPT !.total = s.total + wstats[w].executed]
      BY <1>3 DEF Loaded
    <2> QED BY <1>1, <1>3, <2>1 DEF Sums
  <1>4. CASE r = 2
    <2>1. Loaded(s, w, r) = [s EXCEPT !.successful = s.successful + wstats[w].succeeded]
      BY <1>4 DEF Loaded
    <2> QED BY <1>1, <1>4, <2>1 DEF Sums
  <1>5. CASE r = 3
    <2>1. Loaded(s, w, r) = [s EXCEPT !.failed = s.failed + wstats[w].failed]
      BY <1>5 DEF Loaded
    <2> QED BY <1>1, <1>5, <2>1 DEF Sums
  <1> QED BY <1>2, <1>3, <1>4, <1>5

LEMMA LoadKeeps ==
  ASSUME IInv, Load
  PROVE  IInv'
  <1>1. PICK n \in 1 .. 4 * NumWorkers, w \in Workers, r \in 0 .. 3 :
          n = collector.next /\ w = (n - 1) \div 4 + 1 /\ r = (n - 1) % 4
    <2>1. collector.next \in 1 .. 4 * NumWorkers
      BY CollectorFacts DEF Load
    <2>2. (collector.next - 1) \div 4 + 1 \in Workers /\ (collector.next - 1) % 4 \in 0 .. 3
      BY <2>1
    <2> QED BY <2>1, <2>2
  <1>2. PICK s \in Sums : s = collector.sums
    BY CollectorFacts
  <1>3. collector' = [collector EXCEPT !.next = n + 1, !.sums = Loaded(s, w, r)]
    BY <1>1, <1>2, LoadIsLoaded
  <1>4. s.active \in 0 .. NumWorkers /\ 4 * s.active <= n + 2
    BY <1>1, <1>2, CollectorFacts DEF CollectorInv
  <1>5. r = 0 => s.active < NumWorkers /\ 4 * s.active <= n - 1
    BY <1>1, <1>4
  <1>6. wstats[w] \in WorkerStats
    BY TypeParts DEF IInv, WorkOK, WorkerStats
  <1>7. /\ Loaded(s, w, r) \in Sums
        /\ Loaded(s, w, r).active <= IF r = 0 THEN s.active + 1 ELSE s.active
    BY <1>5, <1>6, LoadedSums
  <1>8. PICK sums \in Sums : sums = Loaded(s, w, r)
    BY <1>7
  <1>9. sums.active \in 0 .. NumWorkers /\ 4 * sums.active <= n + 3
    BY <1>4, <1>5, <1>7, <1>8 DEF Sums
  <1>10. /\ collector \in [pc: {"wait", "load", "exited"}, next: 1 .. Loads + 1, sums: Sums]
         /\ collector.pc = "load" /\ UNCHANGED <<stats, shutdown>>
         /\ OthersOK /\ Loads = 4 * NumWorkers
    BY CollectorFacts DEF Load, OthersOK
  <1>11. /\ collector' \in [pc: {"wait", "load", "exited"}, next: 1 .. Loads + 1, sums: Sums]
         /\ collector'.pc = "load" /\ collector'.next = n + 1 /\ collector'.sums = sums
    <2>1. collector' = [collector EXCEPT !.next = n + 1, !.sums = sums]
      BY <1>3, <1>8
    <2>2. n + 1 \in 1 .. Loads + 1
      BY <1>10
    <2> QED BY <1>10, <2>1, <2>2
  <1>12. OthersOK'
    BY <1>10, <1>11 DEF OthersOK, Loads
  <1>13. CollectorInv'
    BY <1>9, <1>11 DEF CollectorInv
  <1> QED BY <1>10, <1>11, <1>12, <1>13, CollectorKeeps DEF Load

LEMMA ShutdownKeeps ==
  ASSUME IInv, Shutdown \/ ShutdownDone \/ ShutdownTimeout
  PROVE  IInv'
  <1>1. ContextOK /\ OthersOK /\ CollectorInv /\ ShutdownInv
    BY TypeParts DEF IInv
  <1>2. UNCHANGED <<collector, stats>> /\ UNCHANGED work
    BY DEF Shutdown, ShutdownDone, ShutdownTimeout
  <1>3. UNCHANGED worker
    BY <1>2 DEF work
  <1>4. cancelled' /\ shutdown' \in {"waiting", "done", "timeout"}
    BY <1>1, Zenon DEF Shutdown, ShutdownDone, ShutdownTimeout, ShutdownInv
  <1>5. shutdown' = "done" => /\ collector.pc = "exited"
                              /\ \A w \in Workers : worker[w].pc = "exited"
    BY DEF Shutdown, ShutdownDone, ShutdownTimeout
  <1>6. ContextOK'
    BY <1>1, Zenon DEF Shutdown, ShutdownDone, ShutdownTimeout, ContextOK
  <1>7. OthersOK' /\ CollectorInv'
    BY <1>1, <1>2, <1>4 DEF OthersOK, CollectorInv
  <1>8. ShutdownInv'
    BY <1>2, <1>3, <1>4, <1>5 DEF ShutdownInv
  <1> QED BY <1>2, <1>6, <1>7, <1>8, WorkKept

LEMMA NextIInv == IInv /\ [Next]_vars => IInv'
  <1> SUFFICES ASSUME IInv, [Next]_vars
               PROVE  IInv'
    OBVIOUS
  <1>1. CASE \E w \in Workers : WorkerStep(w)
    BY <1>1, WorkerStepIInv
  <1>2. CASE CollectorStep
    BY <1>2, TickKeeps, CollectorExitKeeps, LoadKeeps, PublishKeeps DEF CollectorStep
  <1>3. CASE Shutdown \/ ShutdownDone \/ ShutdownTimeout
    BY <1>3, ShutdownKeeps
  <1>4. CASE UNCHANGED vars
    <2>1. ContextOK /\ OthersOK /\ CollectorInv /\ ShutdownInv
      BY TypeParts DEF IInv
    <2>2. UNCHANGED work /\ UNCHANGED <<cancelled, collector, stats, shutdown, worker>>
      BY <1>4 DEF vars, work
    <2>3. ContextOK' /\ OthersOK' /\ CollectorInv' /\ ShutdownInv'
      BY <2>1, <2>2 DEF ContextOK, OthersOK, CollectorInv, ShutdownInv
    <2> QED BY <2>2, <2>3, WorkKept
  <1> QED BY <1>1, <1>2, <1>3, <1>4 DEF Next

--------------------------------------------------------------------------------
(* The theorems *)

\* The inductive invariant, for any number of workers and tasks.
THEOREM Consistency == Spec => []IInv
  BY InitIInv, NextIInv, PTL DEF Spec

\* The variables keep their types: no task is handed out more often than it can meet
\* conflicts and once more, and no more workers are counted as active than there are.
THEOREM TypeCorrectness == Spec => []TypeOK
  <1>1. IInv => TypeOK
    BY DEF IInv
  <1> QED BY <1>1, Consistency, PTL

\* Each time a task is handed out is reported to the scheduler exactly once, whether it
\* succeeds, fails, panics, meets a conflict or gets no resources.
THEOREM HandoutsAreReported == Spec => []EveryHandoutReported
  <1>1. ASSUME IInv
        PROVE  EveryHandoutReported
    <2> SUFFICES ASSUME NEW t \in Tasks
                 PROVE  handed[t] = reports[t]["completed"] + reports[t]["failed"]
                                    + reports[t]["aborted"] + reports[t]["unallocated"]
                                    + Cardinality({w \in Workers : worker[w].task = t})
      BY DEF EveryHandoutReported
    <2> DEFINE holders == {w \in Workers : worker[w].task = t}
    <2>1. HeldOnce
      BY <1>1, TaskInvParts DEF IInv
    <2>2. Cardinality(holders) = IF Held(t) THEN 1 ELSE 0
      <3>1. CASE Held(t)
        <4>1. PICK w \in Workers : worker[w].task = t
          BY <3>1 DEF Held
        <4>2. holders = {w}
          BY <2>1, <4>1 DEF HeldOnce
        <4> QED BY <3>1, <4>2, FS_Singleton
      <3>2. CASE ~ Held(t)
        <4>1. holders = {}
          BY <3>2 DEF Held
        <4> QED BY <3>2, <4>1, FS_EmptySet
      <3> QED BY <3>1, <3>2
    <2> HIDE DEF holders
    <2>3. handed[t] = reports[t]["aborted"] + Ends(t) + Cardinality(holders)
      BY <1>1, <2>2, TaskFacts DEF TaskFits
    <2>4. /\ reports[t]["completed"] \in Nat /\ reports[t]["failed"] \in Nat
          /\ reports[t]["aborted"] \in Nat /\ reports[t]["unallocated"] \in Nat
      BY <1>1, TaskFacts DEF Reports
    <2>5. Cardinality(holders) \in Nat
      BY <2>2
    <2>6. handed[t] = reports[t]["completed"] + reports[t]["failed"] + reports[t]["aborted"]
                      + reports[t]["unallocated"] + Cardinality(holders)
      BY <2>3, <2>4, <2>5 DEF Ends
    <2> QED BY <2>6 DEF holders
  <1> QED BY <1>1, Consistency, PTL

\* The workers' statistics agree with what was reported to the scheduler, up to the
\* executions that end just now.
THEOREM StatisticsMatchReports == Spec => []StatsMatchReports
  <1>1. IInv => StatsMatchReports
    BY DEF IInv
  <1> QED BY <1>1, Consistency, PTL

\* After Shutdown has returned nil no worker has a task or an allocation and none calls
\* the scheduler; the published statistics stay.
THEOREM NothingRunsAfterShutdown == Spec => ShutdownIsFinal
  <1> DEFINE Final == shutdown = "done" => /\ \A w \in Workers : worker[w].task = NoTask
                                           /\ allocated = {}
                                           /\ UNCHANGED <<handed, reports, stats>>
  <1>1. ASSUME IInv, [Next]_vars
        PROVE  Final
    <2> SUFFICES ASSUME shutdown = "done"
                 PROVE  /\ \A w \in Workers : worker[w].task = NoTask
                        /\ allocated = {}
                        /\ UNCHANGED <<handed, reports, stats>>
      OBVIOUS
    <2>1. collector.pc = "exited" /\ \A w \in Workers : worker[w].pc = "exited"
      BY <1>1 DEF IInv, ShutdownInv
    <2>2. WorkOK /\ WorkerInv
      BY <1>1, TypeParts DEF IInv
    <2>3. \A w \in Workers : worker[w].task = NoTask /\ w \notin allocated
      BY <2>1, <2>2 DEF WorkerInv, Holding
    <2>4. allocated = {}
      BY <2>2, <2>3 DEF WorkOK
    <2>5. \A w \in Workers : ~ WorkerStep(w)
      BY <2>1 DEF WorkerStep, CheckContext, NextTask, NothingReady, StoreCurrent,
                  AllocateResources, AllocationFailed, Execute, ReleaseResources,
                  CountExecuted, CountOutcome, Report, ClearCurrent
    <2>6. ~ CollectorStep
      BY <2>1 DEF CollectorStep, Tick, CollectorExit, Load, Publish
    <2>7. UNCHANGED vars \/ Shutdown \/ ShutdownDone \/ ShutdownTimeout
      BY <1>1, <2>5, <2>6 DEF Next
    <2>8. UNCHANGED <<handed, reports, stats>>
      BY <2>7 DEF vars, work, Shutdown, ShutdownDone, ShutdownTimeout
    <2> QED BY <2>3, <2>4, <2>8
  <1>2. IInv /\ [Next]_vars => [Final]_vars
    BY <1>1
  <1> QED BY <1>2, Consistency, PTL DEF Spec, ShutdownIsFinal

================================================================================
