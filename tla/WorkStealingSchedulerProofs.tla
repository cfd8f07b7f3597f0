------------------------ MODULE WorkStealingSchedulerProofs ------------------------
(***************************************************************************)
(* Proofs about WorkStealingScheduler.  IInv is inductive if every task is *)
(* submitted once and lists each dependency once.  The steps of a worker   *)
(* that only look for a task, and those that take one, are each dealt with *)
(* by one lemma; the other actions have one of their own.                  *)
(***************************************************************************)
EXTENDS WorkStealingScheduler, SequenceLemmas

(* TypeOK in parts *)

ClientType ==
  /\ batch \in 1 .. Len(Batches) + 1
  /\ adding \in BOOLEAN /\ shutdown \in BOOLEAN

MapType ==
  /\ status \in [Tasks -> Statuses]
  /\ dependencies \in [Tasks -> Seq(Tasks)]
  /\ dependents \in [Tasks -> Seq(Tasks)]

QueueType ==
  /\ queues \in [Workers -> Seq(Tasks)]
  /\ \A w \in Workers : Len(queues[w]) <= QueueCapacity
  /\ readyQueue \in Seq(Tasks) /\ Len(readyQueue) <= ReadyCapacity

WorkerType ==
  worker \in [Workers -> [pc: PCs, task: Tasks \cup {NoTask}, victim: Workers]]

RestType ==
  /\ current \in [Workers -> Tasks \cup {NoTask}]
  /\ plan \in Seq(Tasks)
  /\ order \in Seq(Workers)
  /\ aborts \in 0 .. MaxAborts

LEMMA TypeParts ==
  TypeOK <=> ClientType /\ MapType /\ QueueType /\ WorkerType /\ RestType
  <1>1. TypeOK => ClientType
    BY Zenon DEF TypeOK, ClientType
  <1>2. TypeOK => MapType
    BY Zenon DEF TypeOK, MapType
  <1>3. TypeOK => QueueType
    BY Zenon DEF TypeOK, QueueType
  <1>4. TypeOK => WorkerType
    BY Zenon DEF TypeOK, WorkerType
  <1>5. TypeOK => RestType
    BY Zenon DEF TypeOK, RestType
  <1>6. ClientType /\ MapType /\ QueueType /\ WorkerType /\ RestType => TypeOK
    BY Zenon DEF TypeOK, ClientType, MapType, QueueType, WorkerType, RestType
  <1> QED BY <1>1, <1>2, <1>3, <1>4, <1>5, <1>6

LEMMA WorkersFacts ==
  /\ NumWorkers \in Nat /\ NumWorkers > 0 /\ 0 \in Workers
  /\ IsFiniteSet(Workers) /\ Cardinality(Workers) = NumWorkers
  <1>1. NumWorkers \in Nat /\ NumWorkers > 0
    BY NumWorkersAssumption
  <1>2. IsFiniteSet(0 .. NumWorkers - 1)
        /\ Cardinality(0 .. NumWorkers - 1) =
             IF 0 > NumWorkers - 1 THEN 0 ELSE (NumWorkers - 1) - 0 + 1
    BY <1>1, FS_Interval
  <1> QED BY <1>1, <1>2 DEF Workers

(* The capacities of the queues are numbers. *)
LEMMA Capacities ==
  ASSUME SetupOK(setup)
  PROVE  /\ QueueCapacity \in Nat /\ ReadyCapacity \in Nat
         /\ ReadyCapacity = setup.queueSize * NumWorkers
  <1>1. QueueSize \in Nat
    BY DEF SetupOK, QueueSize
  <1>2. ReadyCapacity \in Nat
    BY <1>1, NumWorkersAssumption DEF ReadyCapacity
  <1>3. QueueCapacity \in Nat
    <2> DEFINE P == {p \in Range(PowersOfTwo(QueueSize)) : p >= QueueSize}
    <2>1. P \subseteq Nat /\ P # {}
      BY <1>1, PowersOfTwoFacts
    <2>2. Min(P) \in P
      BY <2>1, MinOfNats
    <2> QED BY <2>1, <2>2 DEF QueueCapacity, NextPowerOfTwo
  <1> QED BY <1>2, <1>3 DEF ReadyCapacity, QueueSize

(* The setup never changes, nor what is computed from it. *)
LEMMA SetupFixed ==
  ASSUME UNCHANGED setup
  PROVE  /\ UNCHANGED <<QueueCapacity, ReadyCapacity, Batches, declared, MaxAborts, Cyclic,
                        DependencyAnalysis>>
         /\ SetupOK(setup) => SetupOK(setup)'
         /\ OnceEach(setup) => OnceEach(setup)'
         /\ HasRoom(setup)' => HasRoom(setup)
  BY DEF QueueCapacity, QueueSize, ReadyCapacity, Batches, declared, MaxAborts, Cyclic,
         DependencyAnalysis

LEMMA InitIInv ==
  ASSUME \A s \in Setups : OnceEach(s), Init
  PROVE  IInv
  <1>1. SetupOK(setup) /\ OnceEach(setup)
    BY SetupsAssumption DEF Init
  <1>2. TypeOK
    <2>1. ClientType
      <3>1. batch = 1 /\ Len(Batches) \in Nat
        BY <1>1 DEF Init, Batches, SetupOK
      <3>2. adding \in BOOLEAN /\ shutdown \in BOOLEAN
        BY Zenon DEF Init
      <3>3. batch \in 1 .. Len(Batches) + 1
        BY <3>1
      <3> QED BY <3>2, <3>3, Zenon DEF ClientType
    <2>2. MapType
      BY DEF Init, MapType, Statuses
    <2>3. QueueType
      BY <1>1, Capacities DEF Init, QueueType
    <2>4. WorkerType
      BY WorkersFacts DEF Init, WorkerType, PCs
    <2>5. RestType
      BY <1>1 DEF Init, RestType, SetupOK, MaxAborts
    <2> QED BY <2>1, <2>2, <2>3, <2>4, <2>5, TypeParts
  <1>3. LockInv
    BY DEF Init, LockInv, Holding, Distributing, MutexFree
  <1>4. PlaceInv
    BY EmptyFacts DEF Init, PlaceInv
  <1>5. StatusInv
    BY EmptyFacts DEF Init, StatusInv
  <1>6. ReadyInv
    BY DEF Init, ReadyInv, Pushed
  <1>7. GraphInv
    BY EmptyFacts DEF Init, GraphInv
  <1>8. BatchInv
    <2>1. ASSUME NEW b \in batch .. Len(Batches), NEW t \in ToSet(Batches[b])
          PROVE  status[t] = "unknown"
      <3>1. Batches \in Seq(Seq(Tasks)) /\ batch = 1
        BY <1>1 DEF SetupOK, Batches, Init
      <3>2. Batches[b] \in Seq(Tasks)
        BY <3>1
      <3>3. t \in Tasks
        BY <3>2 DEF ToSet
      <3> QED BY <3>3 DEF Init
    <2>2. ~ adding
      BY DEF Init
    <2> QED BY <1>1, <2>1, <2>2 DEF BatchInv
  <1>9. OrderInv /\ WaitInv
    BY EmptyFacts DEF Init, OrderInv, WaitInv
  <1>10. WorkerStatusAccurate
    BY DEF Init, WorkerStatusAccurate
  <1> QED BY <1>1, <1>2, <1>3, <1>4, <1>5, <1>6, <1>7, <1>8, <1>9, <1>10 DEF IInv

--------------------------------------------------------------------------------
(* How a worker moves *)

MovesTo(w, pc, t) ==
  /\ WorkerType'
  /\ worker'[w].pc = pc /\ worker'[w].task = t
  /\ \A v \in Workers \ {w} : worker'[v] = worker[v]

LEMMA GotoMoves ==
  ASSUME WorkerType, NEW w \in Workers, NEW pc \in PCs, Goto(w, pc)
  PROVE  MovesTo(w, pc, worker[w].task)
  BY DEF WorkerType, Goto, MovesTo

LEMMA ReturnMoves ==
  ASSUME WorkerType, NEW w \in Workers, Return(w)
  PROVE  MovesTo(w, "idle", NoTask)
  <1> DEFINE r == [worker[w] EXCEPT !.pc = "idle", !.task = NoTask]
  <1>1. worker' = [worker EXCEPT ![w] = r]
    BY DEF WorkerType, Return
  <1>2. /\ r \in [pc: PCs, task: Tasks \cup {NoTask}, victim: Workers]
        /\ r.pc = "idle" /\ r.task = NoTask
    <2>1. worker[w] \in [pc: PCs, task: Tasks \cup {NoTask}, victim: Workers]
      BY DEF WorkerType
    <2> QED BY <2>1 DEF PCs
  <1> HIDE DEF r
  <1> QED BY <1>1, <1>2 DEF WorkerType, MovesTo

LEMMA HoldMoves ==
  ASSUME WorkerType, NEW w \in Workers, NEW t \in Tasks, Hold(w, t)
  PROVE  MovesTo(w, "assign", t)
  <1> DEFINE r == [worker[w] EXCEPT !.pc = "assign", !.task = t]
  <1>1. worker' = [worker EXCEPT ![w] = r]
    BY DEF WorkerType, Hold
  <1>2. /\ r \in [pc: PCs, task: Tasks \cup {NoTask}, victim: Workers]
        /\ r.pc = "assign" /\ r.task = t
    <2>1. worker[w] \in [pc: PCs, task: Tasks \cup {NoTask}, victim: Workers]
      BY DEF WorkerType
    <2> QED BY <2>1 DEF PCs
  <1> HIDE DEF r
  <1> QED BY <1>1, <1>2 DEF WorkerType, MovesTo

LEMMA StealMoves ==
  ASSUME WorkerType, NEW w \in Workers,
         worker' = [worker EXCEPT ![w].pc = "steal", ![w].victim = 0]
  PROVE  MovesTo(w, "steal", worker[w].task)
  <1> DEFINE r == [worker[w] EXCEPT !.pc = "steal", !.victim = 0]
  <1>1. worker' = [worker EXCEPT ![w] = r]
    BY DEF WorkerType
  <1>2. /\ r \in [pc: PCs, task: Tasks \cup {NoTask}, victim: Workers]
        /\ r.pc = "steal" /\ r.task = worker[w].task
    <2>1. worker[w] \in [pc: PCs, task: Tasks \cup {NoTask}, victim: Workers]
      BY DEF WorkerType
    <2> QED BY <2>1, WorkersFacts DEF PCs
  <1> HIDE DEF r
  <1> QED BY ZenonT(30), <1>1, <1>2 DEF WorkerType, MovesTo

LEMMA NextVictimMoves ==
  ASSUME WorkerType, NEW w \in Workers, NEW v \in Workers,
         worker' = [worker EXCEPT ![w].victim = v]
  PROVE  MovesTo(w, worker[w].pc, worker[w].task)
  BY DEF WorkerType, MovesTo

(* What a step that changes no task map keeps. *)
LEMMA MapsFrame ==
  ASSUME IInv, UNCHANGED <<client, taskMaps, plan, aborts>>
  PROVE  SetupOK(setup)' /\ ClientType' /\ MapType' /\ GraphInv' /\ BatchInv' /\ OrderInv'
         /\ WaitInv'
  <1> USE DEF client, taskMaps
  <1>1. UNCHANGED <<QueueCapacity, ReadyCapacity, Batches, declared, MaxAborts, Cyclic,
                    DependencyAnalysis>>
        /\ SetupOK(setup)' /\ OnceEach(setup)'
    BY SetupFixed DEF IInv, BatchInv
  <1>2. ClientType'
    <2>1. ClientType /\ UNCHANGED <<batch, adding, shutdown, Batches>>
      BY <1>1, TypeParts DEF IInv
    <2> QED BY <2>1 DEF ClientType
  <1>3. MapType'
    BY TypeParts DEF IInv, MapType
  <1>4. GraphInv'
    BY <1>1 DEF IInv, GraphInv
  <1>5. BatchInv'
    BY <1>1 DEF IInv, BatchInv
  <1>6. OrderInv'
    BY DEF IInv, OrderInv, IsTaskReady
  <1>7. WaitInv'
    BY <1>1 DEF IInv, WaitInv, IsTaskReady
  <1> QED BY <1>1, <1>2, <1>3, <1>4, <1>5, <1>6, <1>7

(* A task is between push and mark only while taskMutex is taken. *)
LEMMA PushedFacts ==
  ASSUME IInv
  PROVE  /\ Pushed \subseteq ToSet(plan)
         /\ \A t \in Pushed : t \in Tasks /\ status[t] = "pending"
         /\ MutexFree => Pushed = {}
         /\ \A w \in Workers :
              worker[w].pc \in Distributing \ {"markReady"} => Pushed = {}
         /\ \A w \in Workers : worker[w].pc = "markReady" => Pushed = {Head(plan)}
  <1>1. plan \in Seq(Tasks)
    BY TypeParts DEF IInv, RestType
  <1>2. plan # <<>> => Head(plan) \in ToSet(plan) /\ Head(plan) \in Tasks
    BY <1>1 DEF ToSet
  <1>3. Pushed \subseteq ToSet(plan)
    BY <1>2 DEF Pushed
  <1>4. \A t \in Pushed : t \in Tasks /\ status[t] = "pending"
    BY <1>3 DEF Pushed, IInv, StatusInv
  <1>5. MutexFree => Pushed = {}
    BY DEF Pushed, MutexFree, Distributing
  <1>6. ASSUME NEW w \in Workers, worker[w].pc \in Distributing \ {"markReady"}
        PROVE  Pushed = {}
    <2>1. \A v \in Workers : worker[v].pc # "markReady"
      BY <1>6 DEF IInv, LockInv, Distributing
    <2> QED BY <2>1 DEF Pushed
  <1>7. ASSUME NEW w \in Workers, worker[w].pc = "markReady"
        PROVE  Pushed = {Head(plan)}
    <2>1. plan # <<>>
      BY <1>7 DEF IInv, LockInv
    <2> QED BY <1>2, <1>7, <2>1 DEF Pushed
  <1> QED BY <1>3, <1>4, <1>5, <1>6, <1>7

(* A worker that moves between other states leaves it so. *)
LEMMA PushedFrame ==
  ASSUME NEW w \in Workers, worker[w].pc # "markReady", worker'[w].pc # "markReady",
         \A v \in Workers : v # w => worker'[v] = worker[v], UNCHANGED plan
  PROVE  Pushed' = Pushed
  BY DEF Pushed

Searching == {"idle", "own", "global", "steal"}

(* A worker that holds no task, and no lock, looks for one elsewhere. *)
LEMMA SearchKeepsIInv ==
  ASSUME IInv, NEW w \in Workers, worker[w].pc \in Searching,
         NEW pc \in Searching, MovesTo(w, pc, NoTask),
         UNCHANGED <<client, taskMaps, queues, readyQueue, current, plan, order, aborts>>
  PROVE  IInv'
  <1>0. SetupOK(setup)' /\ ClientType' /\ MapType' /\ GraphInv' /\ BatchInv' /\ OrderInv'
        /\ WaitInv'
    BY MapsFrame
  <1>1. UNCHANGED <<QueueCapacity, ReadyCapacity, MaxAborts>>
        /\ (HasRoom(setup)' => HasRoom(setup))
    BY SetupFixed DEF client
  <1>2. worker[w].task = NoTask
    BY DEF IInv, LockInv, Searching, Holding
  <1>9. Pushed' = Pushed
    BY PushedFrame DEF MovesTo, Searching
  <1>3. TypeOK'
    <2>1. QueueType'
      BY <1>1, TypeParts DEF IInv, QueueType
    <2>2. RestType'
      BY <1>1, TypeParts DEF IInv, RestType
    <2>3. WorkerType'
      BY DEF MovesTo
    <2> QED BY <1>0, <2>1, <2>2, <2>3, TypeParts, PTL
  <1>4. LockInv'
    BY DEF IInv, LockInv, MovesTo, Searching, Holding, Distributing, MutexFree
  <1>5. PlaceInv'
    BY <1>2 DEF IInv, PlaceInv, MovesTo
  <1>6. StatusInv'
    BY <1>9 DEF IInv, StatusInv, MovesTo, Searching, taskMaps
  <1>7. ReadyInv'
    BY <1>1, <1>2, <1>9 DEF IInv, ReadyInv, MovesTo, taskMaps
  <1>8. WorkerStatusAccurate'
    BY DEF IInv, WorkerStatusAccurate, MovesTo, Searching, taskMaps
  <1> QED BY <1>0, <1>3, <1>4, <1>5, <1>6, <1>7, <1>8 DEF IInv

(* A worker takes t out of the queue it is in. *)
LEMMA TakeKeepsIInv ==
  ASSUME IInv, NEW w \in Workers, worker[w].pc \in Searching,
         NEW t \in Tasks, MovesTo(w, "assign", t),
         UNCHANGED <<client, taskMaps, current, plan, order, aborts>>,
         queues' \in [Workers -> Seq(Tasks)], readyQueue' \in Seq(Tasks),
         \A v \in Workers : /\ Len(queues'[v]) <= Len(queues[v])
                            /\ IsInjective(queues'[v])
                            /\ ToSet(queues'[v]) = ToSet(queues[v]) \ {t},
         Len(readyQueue') <= Len(readyQueue), IsInjective(readyQueue'),
         ToSet(readyQueue') = ToSet(readyQueue) \ {t},
         t \in ToSet(readyQueue) \/ \E v \in Workers : t \in ToSet(queues[v])
  PROVE  IInv'
  <1>0. SetupOK(setup)' /\ ClientType' /\ MapType' /\ GraphInv' /\ BatchInv' /\ OrderInv'
        /\ WaitInv'
    BY MapsFrame
  <1>1. UNCHANGED <<QueueCapacity, ReadyCapacity, MaxAborts>>
        /\ QueueCapacity \in Nat /\ ReadyCapacity \in Nat
        /\ (HasRoom(setup)' => HasRoom(setup))
    BY SetupFixed, Capacities DEF client, IInv
  <1>2. worker[w].task = NoTask /\ t # NoTask
    BY NoTaskAssumption DEF IInv, LockInv, Searching, Holding
  <1>3. TypeOK'
    <2>1. QueueType'
      <3>1. QueueType
        BY TypeParts DEF IInv
      <3>2. \A v \in Workers : Len(queues[v]) \in Nat /\ Len(queues'[v]) \in Nat
        BY <3>1 DEF QueueType
      <3>3. Len(readyQueue) \in Nat /\ Len(readyQueue') \in Nat
        BY <3>1 DEF QueueType
      <3> QED BY <1>1, <3>1, <3>2, <3>3 DEF QueueType
    <2>2. RestType'
      BY <1>1, TypeParts DEF IInv, RestType
    <2>3. WorkerType'
      BY DEF MovesTo
    <2> QED BY <1>0, <2>1, <2>2, <2>3, TypeParts, PTL
  <1>4. LockInv'
    <2>1. \A v \in Workers : worker'[v].task # NoTask <=> worker'[v].pc \in Holding
      BY <1>2 DEF IInv, LockInv, MovesTo, Holding
    <2> QED
      BY <2>1 DEF IInv, LockInv, MovesTo, Searching, Distributing, MutexFree
  <1>5. /\ status[t] = "ready" \/ t \in Pushed
        /\ \A v \in Workers : worker[v].task # t
    BY DEF IInv, StatusInv, PlaceInv
  <1>10. Pushed' = Pushed
    BY PushedFrame DEF MovesTo, Searching
  <1>6. PlaceInv'
    <2>1. ASSUME NEW u \in Workers, NEW v \in Workers
          PROVE  worker'[u].task \notin ToSet(queues'[v])
      <3>1. CASE u = w
        <4>1. worker'[u].task = t
          BY <3>1 DEF MovesTo
        <4> QED BY <4>1
      <3>2. CASE u # w
        <4>1. worker'[u].task = worker[u].task
          BY <3>2 DEF MovesTo
        <4>2. worker[u].task \notin ToSet(queues[v])
          BY DEF IInv, PlaceInv
        <4> QED BY <4>1, <4>2
      <3> QED BY <3>1, <3>2
    <2>2. ASSUME NEW v \in Workers
          PROVE  worker'[v].task \notin ToSet(readyQueue')
      <3>1. CASE v = w
        <4>1. worker'[v].task = t
          BY <3>1 DEF MovesTo
        <4> QED BY <4>1
      <3>2. CASE v # w
        <4>1. worker'[v].task = worker[v].task
          BY <3>2 DEF MovesTo
        <4>2. worker[v].task \notin ToSet(readyQueue)
          BY DEF IInv, PlaceInv
        <4> QED BY <4>1, <4>2
      <3> QED BY <3>1, <3>2
    <2>3. ASSUME NEW u \in Workers, NEW v \in Workers, u # v, worker'[u].task # NoTask
          PROVE  worker'[u].task # worker'[v].task
      BY <1>5, <2>3 DEF IInv, PlaceInv, MovesTo
    <2>4. \A u, v \in Workers : u # v => ToSet(queues'[u]) \cap ToSet(queues'[v]) = {}
      BY DEF IInv, PlaceInv
    <2>5. IsInjective(plan') /\ \A v \in Workers : ToSet(queues'[v]) \cap ToSet(readyQueue') = {}
      BY DEF IInv, PlaceInv
    <2> QED BY <2>1, <2>2, <2>3, <2>4, <2>5 DEF PlaceInv
  <1>7. StatusInv'
    <2>1. status' = status /\ plan' = plan
      BY DEF taskMaps
    <2>2. ASSUME NEW v \in Workers, worker'[v].pc \in {"assign", "setRunning"}
          PROVE  status'[worker'[v].task] = "ready" \/ worker'[v].task \in Pushed'
      BY <1>5, <1>10, <2>1, <2>2 DEF IInv, StatusInv, MovesTo
    <2>3. ASSUME NEW u \in Tasks, status'[u] = "running"
          PROVE  \E v \in Workers : worker'[v].pc = "running" /\ worker'[v].task = u
      <3>1. PICK v \in Workers : worker[v].pc = "running" /\ worker[v].task = u
        BY <2>1, <2>3 DEF IInv, StatusInv
      <3>2. v # w
        BY <3>1 DEF Searching
      <3> QED BY <3>1, <3>2 DEF MovesTo
    <2> QED BY <1>10, <2>1, <2>2, <2>3 DEF IInv, StatusInv
  <1>8. ReadyInv'
    <2> SUFFICES ASSUME NEW u \in Tasks, (HasRoom(setup) /\ status[u] = "ready") \/ u \in Pushed
                 PROVE  \/ u \in ToSet(readyQueue')
                        \/ \E v \in Workers : u \in ToSet(queues'[v]) \/ worker'[v].task = u
      BY <1>1, <1>10 DEF ReadyInv, taskMaps
    <2>1. CASE u = t
      BY <2>1 DEF MovesTo
    <2>2. CASE u # t
      <3>1. \/ u \in ToSet(readyQueue)
            \/ \E v \in Workers : u \in ToSet(queues[v]) \/ worker[v].task = u
        BY DEF IInv, ReadyInv
      <3>2. ASSUME NEW v \in Workers, worker[v].task = u
            PROVE  worker'[v].task = u
        BY <1>2, <3>2, NoTaskAssumption DEF MovesTo
      <3> QED BY <2>2, <3>1, <3>2
    <2> QED BY <2>1, <2>2
  <1>9. WorkerStatusAccurate'
    BY DEF IInv, WorkerStatusAccurate, MovesTo, Searching, taskMaps
  <1> QED BY <1>0, <1>3, <1>4, <1>6, <1>7, <1>8, <1>9 DEF IInv

LEMMA PopBottomKeepsIInv ==
  ASSUME IInv, NEW w \in Workers, PopBottom(w)
  PROVE  IInv'
  <1> DEFINE t == Last(queues[w])
  <1> USE DEF PopBottom
  <1>1. QueueType /\ WorkerType
    BY TypeParts DEF IInv
  <1>2. queues[w] \in Seq(Tasks) /\ queues[w] # <<>> /\ IsInjective(queues[w])
    BY <1>1 DEF QueueType, IInv, PlaceInv
  <1>3. /\ t \in Tasks /\ Front(queues[w]) \in Seq(Tasks)
        /\ Len(Front(queues[w])) = Len(queues[w]) - 1 /\ Len(queues[w]) \in Nat
        /\ ToSet(queues[w]) = ToSet(Front(queues[w])) \cup {t}
        /\ IsInjective(Front(queues[w])) /\ t \notin ToSet(Front(queues[w]))
    BY <1>2, FrontFacts
  <1>4. MovesTo(w, "assign", t)
    BY <1>1, <1>3, HoldMoves
  <1> HIDE DEF t
  <1>5. queues' = [queues EXCEPT ![w] = Front(queues[w])]
    OBVIOUS
  <1>6. queues' \in [Workers -> Seq(Tasks)]
    BY <1>1, <1>3, <1>5 DEF QueueType
  <1>7. ASSUME NEW v \in Workers
        PROVE  /\ Len(queues'[v]) <= Len(queues[v])
               /\ IsInjective(queues'[v])
               /\ ToSet(queues'[v]) = ToSet(queues[v]) \ {t}
    <2>1. CASE v = w
      <3>1. queues'[v] = Front(queues[w])
        BY <1>1, <1>5, <2>1 DEF QueueType
      <3> QED BY <1>3, <2>1, <3>1
    <2>2. CASE v # w
      <3>1. queues'[v] = queues[v] /\ Len(queues[v]) \in Nat
        BY <1>1, <1>5, <2>2 DEF QueueType
      <3>2. IsInjective(queues[v]) /\ t \notin ToSet(queues[v])
        BY <1>3, <2>2 DEF IInv, PlaceInv
      <3> QED BY <3>1, <3>2
    <2> QED BY <2>1, <2>2
  <1>8. /\ readyQueue' \in Seq(Tasks) /\ Len(readyQueue') <= Len(readyQueue)
        /\ IsInjective(readyQueue') /\ ToSet(readyQueue') = ToSet(readyQueue) \ {t}
    <2>1. readyQueue' = readyQueue /\ readyQueue \in Seq(Tasks)
      BY <1>1 DEF QueueType
    <2>2. IsInjective(readyQueue) /\ t \notin ToSet(readyQueue)
      BY <1>3 DEF IInv, PlaceInv
    <2> QED BY <2>1, <2>2
  <1>9. worker[w].pc \in Searching /\ t \in ToSet(queues[w])
    BY <1>3 DEF Searching
  <1> QED BY <1>3, <1>4, <1>6, <1>7, <1>8, <1>9, TakeKeepsIInv

LEMMA StealKeepsIInv ==
  ASSUME IInv, NEW w \in Workers, Steal(w)
  PROVE  IInv'
  <1> DEFINE x == Victim(w)
             t == Head(queues[x])
  <1> USE DEF Steal
  <1>1. QueueType /\ WorkerType
    BY TypeParts DEF IInv
  <1>2. x \in Workers
    <2>1. worker[w].victim \in Workers
      BY <1>1 DEF WorkerType
    <2>2. w + worker[w].victim + 1 \in Nat
      BY <2>1, WorkersFacts DEF Workers
    <2>3. \A n \in Nat : n % NumWorkers \in 0 .. NumWorkers - 1
      BY WorkersFacts
    <2> QED BY <2>2, <2>3 DEF Victim, Workers
  <1> HIDE DEF x
  <1>3. queues[x] \in Seq(Tasks) /\ queues[x] # <<>> /\ IsInjective(queues[x])
    BY <1>1, <1>2 DEF QueueType, IInv, PlaceInv, x
  <1>4. /\ t \in Tasks /\ Tail(queues[x]) \in Seq(Tasks)
        /\ Len(Tail(queues[x])) = Len(queues[x]) - 1 /\ Len(queues[x]) \in Nat
        /\ ToSet(queues[x]) = ToSet(Tail(queues[x])) \cup {t}
        /\ IsInjective(Tail(queues[x])) /\ t \notin ToSet(Tail(queues[x]))
    BY <1>3, TailFacts
  <1>5. MovesTo(w, "assign", t)
    BY <1>1, <1>4, HoldMoves DEF x
  <1> HIDE DEF t
  <1>6. queues' = [queues EXCEPT ![x] = Tail(queues[x])]
    BY DEF x
  <1>7. queues' \in [Workers -> Seq(Tasks)]
    BY <1>1, <1>2, <1>4, <1>6 DEF QueueType
  <1>8. ASSUME NEW v \in Workers
        PROVE  /\ Len(queues'[v]) <= Len(queues[v])
               /\ IsInjective(queues'[v])
               /\ ToSet(queues'[v]) = ToSet(queues[v]) \ {t}
    <2>1. CASE v = x
      <3>1. queues'[v] = Tail(queues[x])
        BY <1>1, <1>2, <1>6, <2>1 DEF QueueType
      <3> QED BY <1>4, <2>1, <3>1
    <2>2. CASE v # x
      <3>1. queues'[v] = queues[v] /\ Len(queues[v]) \in Nat
        BY <1>1, <1>6, <2>2 DEF QueueType
      <3>2. IsInjective(queues[v]) /\ t \notin ToSet(queues[v])
        BY <1>2, <1>4, <2>2 DEF IInv, PlaceInv
      <3> QED BY <3>1, <3>2
    <2> QED BY <2>1, <2>2
  <1>9. /\ readyQueue' \in Seq(Tasks) /\ Len(readyQueue') <= Len(readyQueue)
        /\ IsInjective(readyQueue') /\ ToSet(readyQueue') = ToSet(readyQueue) \ {t}
    <2>1. readyQueue' = readyQueue /\ readyQueue \in Seq(Tasks)
      BY <1>1 DEF QueueType
    <2>2. IsInjective(readyQueue) /\ t \notin ToSet(readyQueue)
      BY <1>2, <1>4 DEF IInv, PlaceInv
    <2> QED BY <2>1, <2>2
  <1>10. worker[w].pc \in Searching /\ t \in ToSet(queues[x])
    BY <1>4 DEF Searching
  <1> QED BY <1>2, <1>4, <1>5, <1>7, <1>8, <1>9, <1>10, TakeKeepsIInv

LEMMA PopReadyKeepsIInv ==
  ASSUME IInv, NEW w \in Workers, PopReady(w)
  PROVE  IInv'
  <1>1. QueueType /\ WorkerType
    BY TypeParts DEF IInv
  <1>2. PICK i \in 1 .. Len(readyQueue) :
          readyQueue' = RemoveAt(readyQueue, i) /\ Hold(w, readyQueue[i])
    BY DEF PopReady
  <1> DEFINE t == readyQueue[i]
  <1>3. readyQueue \in Seq(Tasks) /\ IsInjective(readyQueue)
    BY <1>1 DEF QueueType, IInv, PlaceInv
  <1>4. /\ readyQueue' \in Seq(Tasks) /\ Len(readyQueue') = Len(readyQueue) - 1
        /\ Len(readyQueue) \in Nat /\ t \in Tasks /\ t \in ToSet(readyQueue)
        /\ ToSet(readyQueue) = ToSet(readyQueue') \cup {t}
        /\ IsInjective(readyQueue') /\ t \notin ToSet(readyQueue')
    BY <1>2, <1>3, RemoveAtFacts
  <1>5. MovesTo(w, "assign", t)
    BY <1>1, <1>2, <1>4, HoldMoves
  <1> HIDE DEF t
  <1>6. UNCHANGED <<client, taskMaps, queues, current, plan, order, aborts>>
        /\ worker[w].pc \in Searching
    BY DEF PopReady, Searching
  <1>7. ASSUME NEW v \in Workers
        PROVE  /\ Len(queues'[v]) <= Len(queues[v])
               /\ IsInjective(queues'[v])
               /\ ToSet(queues'[v]) = ToSet(queues[v]) \ {t}
    <2>1. queues'[v] = queues[v] /\ Len(queues[v]) \in Nat
      BY <1>1, <1>6 DEF QueueType
    <2>2. IsInjective(queues[v]) /\ t \notin ToSet(queues[v])
      BY <1>4 DEF IInv, PlaceInv
    <2> QED BY <2>1, <2>2
  <1>8. queues' \in [Workers -> Seq(Tasks)] /\ Len(readyQueue') <= Len(readyQueue)
        /\ ToSet(readyQueue') = ToSet(readyQueue) \ {t}
    BY <1>1, <1>4, <1>6 DEF QueueType
  <1> QED BY <1>4, <1>5, <1>6, <1>7, <1>8, TakeKeepsIInv

--------------------------------------------------------------------------------
(* The steps that look for a task and find none *)

LEMMA SearchStepsKeepIInv ==
  ASSUME IInv, NEW w \in Workers,
         NextTask(w) \/ OwnQueueEmpty(w) \/ ReadyQueueEmpty(w) \/ StealMiss(w)
  PROVE  IInv'
  <1>1. WorkerType
    BY TypeParts DEF IInv
  <1>2. worker[w].pc \in Searching
    BY DEF NextTask, OwnQueueEmpty, ReadyQueueEmpty, StealMiss, Searching
  <1>3. worker[w].task = NoTask
    BY <1>2 DEF IInv, LockInv, Searching, Holding
  <1>4. UNCHANGED <<client, taskMaps, queues, readyQueue, current, plan, order, aborts>>
    BY DEF NextTask, OwnQueueEmpty, ReadyQueueEmpty, StealMiss
  <1>5. \E pc \in Searching : MovesTo(w, pc, NoTask)
    <2>1. CASE NextTask(w)
      BY <1>1, <1>3, <2>1, GotoMoves DEF NextTask, Searching, PCs
    <2>2. CASE OwnQueueEmpty(w)
      BY <1>1, <1>3, <2>2, GotoMoves DEF OwnQueueEmpty, Searching, PCs
    <2>3. CASE Return(w)
      BY <1>1, <2>3, ReturnMoves DEF Searching
    <2>5. CASE ReadyQueueEmpty(w)
      <3>1. Return(w) \/ worker' = [worker EXCEPT ![w].pc = "steal", ![w].victim = 0]
        BY <2>5, Zenon DEF ReadyQueueEmpty
      <3> QED BY <1>1, <1>3, <2>3, <3>1, StealMoves DEF Searching
    <2>6. CASE StealMiss(w)
      <3>1. \/ Return(w)
            \/ /\ worker[w].pc = "steal" /\ worker[w].victim < NumWorkers - 1
               /\ worker' = [worker EXCEPT ![w].victim = worker[w].victim + 1]
        BY <1>1, <2>6 DEF StealMiss, WorkerType
      <3>2. worker[w].victim < NumWorkers - 1 => worker[w].victim + 1 \in Workers
        <4>1. worker[w].victim \in 0 .. NumWorkers - 1
          BY <1>1 DEF WorkerType, Workers
        <4> QED BY <4>1, WorkersFacts DEF Workers
      <3> QED BY <1>1, <1>3, <2>3, <3>1, <3>2, NextVictimMoves DEF Searching
    <2> QED BY <2>1, <2>2, <2>5, <2>6
  <1> QED BY <1>2, <1>4, <1>5, SearchKeepsIInv

--------------------------------------------------------------------------------
(* Assigning a task *)

LEMMA AssignCurrentKeepsIInv ==
  ASSUME IInv, NEW w \in Workers, AssignCurrent(w)
  PROVE  IInv'
  <1> DEFINE t == worker[w].task
  <1>1. WorkerType /\ RestType /\ QueueType
    BY TypeParts DEF IInv
  <1>2. /\ UNCHANGED <<client, taskMaps, queues, readyQueue, plan, order, aborts>>
        /\ worker[w].pc = "assign" /\ current' = [current EXCEPT ![w] = t]
    BY DEF AssignCurrent
  <1>3. MovesTo(w, "setRunning", t)
    BY <1>1, GotoMoves DEF AssignCurrent, PCs
  <1>4. t \in Tasks \cup {NoTask}
    BY <1>1 DEF WorkerType
  <1> HIDE DEF t
  <1>5. SetupOK(setup)' /\ ClientType' /\ MapType' /\ GraphInv' /\ BatchInv' /\ OrderInv'
        /\ WaitInv'
    BY <1>2, MapsFrame
  <1>6. UNCHANGED <<QueueCapacity, ReadyCapacity, MaxAborts>>
        /\ (HasRoom(setup)' => HasRoom(setup))
    BY <1>2, SetupFixed DEF client
  <1>7. TypeOK'
    <2>1. QueueType'
      BY <1>1, <1>2, <1>6 DEF QueueType
    <2>2. RestType'
      BY <1>1, <1>2, <1>4, <1>6 DEF RestType
    <2>3. WorkerType'
      BY <1>3 DEF MovesTo
    <2> QED BY <1>5, <2>1, <2>2, <2>3, TypeParts, PTL
  <1>8. \A v \in Workers :
           worker'[v].task = worker[v].task /\ (v # w => worker'[v] = worker[v])
    BY <1>3 DEF MovesTo, t
  <1>9. worker'[w].pc = "setRunning"
    BY <1>3 DEF MovesTo
  <1>15. Pushed' = Pushed
    BY <1>2, <1>8, <1>9, PushedFrame
  <1>10. LockInv'
    BY <1>2, <1>8, <1>9 DEF IInv, LockInv, Holding, Distributing, MutexFree
  <1>11. PlaceInv'
    BY <1>2, <1>8 DEF IInv, PlaceInv
  <1>12. StatusInv'
    <2>1. status' = status /\ plan' = plan /\ queues' = queues /\ readyQueue' = readyQueue
      BY <1>2 DEF taskMaps
    <2>2. ASSUME NEW v \in Workers, worker'[v].pc \in {"assign", "setRunning"}
          PROVE  status'[worker'[v].task] = "ready" \/ worker'[v].task \in Pushed'
      BY <1>2, <1>8, <1>15, <2>1, <2>2 DEF IInv, StatusInv
    <2>3. ASSUME NEW u \in Tasks, status'[u] = "running"
          PROVE  \E v \in Workers : worker'[v].pc = "running" /\ worker'[v].task = u
      <3>1. PICK v \in Workers : worker[v].pc = "running" /\ worker[v].task = u
        BY <2>1, <2>3 DEF IInv, StatusInv
      <3> QED BY <1>2, <1>8, <3>1
    <2> QED BY <1>15, <2>1, <2>2, <2>3 DEF IInv, StatusInv
  <1>13. ReadyInv'
    BY <1>2, <1>6, <1>8, <1>15 DEF IInv, ReadyInv, taskMaps
  <1>14. WorkerStatusAccurate'
    BY <1>1, <1>2, <1>8, <1>9 DEF IInv, WorkerStatusAccurate, RestType, taskMaps, t
  <1> QED BY <1>5, <1>7, <1>10, <1>11, <1>12, <1>13, <1>14 DEF IInv

(* Which tasks are completed decides which are ready. *)
LEMMA ReadyByCompleted ==
  ASSUME NEW st \in [Tasks -> Statuses], NEW after \in [Tasks -> Statuses],
         NEW deps \in [Tasks -> Seq(Tasks)],
         \A u \in Tasks : st[u] = "completed" => after[u] = "completed",
         NEW t \in Tasks
  PROVE  /\ IsTaskReady(st, deps, t) => IsTaskReady(after, deps, t)
         /\ (\A u \in Tasks : after[u] = "completed" => st[u] = "completed")
              => (IsTaskReady(after, deps, t) => IsTaskReady(st, deps, t))
  <1>1. ToSet(deps[t]) \subseteq Tasks
    BY DEF ToSet
  <1> QED BY <1>1 DEF IsTaskReady

LEMMA SetRunningKeepsIInv ==
  ASSUME IInv, NEW w \in Workers, SetRunning(w)
  PROVE  IInv'
  <1> DEFINE t == worker[w].task
  <1>1. ClientType /\ MapType /\ WorkerType /\ RestType /\ QueueType
    BY TypeParts DEF IInv
  <1>2. /\ UNCHANGED <<setup, batch, adding, shutdown, dependencies, dependents, queues,
                       readyQueue, current, plan, order, aborts>>
        /\ worker[w].pc = "setRunning" /\ status' = [status EXCEPT ![t] = "running"]
    BY DEF SetRunning, client
  <1>3. MovesTo(w, "running", t)
    BY <1>1, GotoMoves DEF SetRunning, PCs
  <1>20. Pushed = {}
    BY PushedFacts DEF SetRunning
  <1>4. t \in Tasks /\ status[t] = "ready"
    BY <1>1, <1>2, <1>20 DEF WorkerType, IInv, LockInv, StatusInv, Holding
  <1> HIDE DEF t
  <1>5. UNCHANGED <<QueueCapacity, ReadyCapacity, Batches, declared, MaxAborts, Cyclic,
                    DependencyAnalysis>>
        /\ SetupOK(setup)' /\ OnceEach(setup)' /\ (HasRoom(setup)' => HasRoom(setup))
    BY <1>2, SetupFixed DEF IInv, BatchInv
  <1>6. /\ status' \in [Tasks -> Statuses] /\ status'[t] = "running"
        /\ \A u \in Tasks : u # t => status'[u] = status[u]
    BY <1>1, <1>2, <1>4 DEF MapType, Statuses
  <1>7. TypeOK'
    <2>1. ClientType'
      BY <1>1, <1>2, <1>5 DEF ClientType
    <2>2. MapType'
      BY <1>1, <1>2, <1>6 DEF MapType
    <2>3. QueueType'
      BY <1>1, <1>2, <1>5 DEF QueueType
    <2>4. RestType'
      BY <1>1, <1>2, <1>5 DEF RestType
    <2>5. WorkerType'
      BY <1>3 DEF MovesTo
    <2> QED BY <2>1, <2>2, <2>3, <2>4, <2>5, TypeParts, PTL
  <1>8. \A v \in Workers :
           worker'[v].task = worker[v].task /\ (v # w => worker'[v] = worker[v])
    BY <1>3 DEF MovesTo, t
  <1>9. worker'[w].pc = "running"
    BY <1>3 DEF MovesTo
  <1>21. Pushed' = {}
    BY <1>2, <1>8, <1>9, <1>20, PushedFrame
  <1>10. LockInv'
    BY <1>2, <1>8, <1>9 DEF IInv, LockInv, Holding, Distributing, MutexFree
  <1>11. PlaceInv'
    BY <1>2, <1>8 DEF IInv, PlaceInv
  <1>12. StatusInv'
    <2>1. ASSUME NEW v \in Workers, NEW u \in ToSet(queues'[v])
          PROVE  status'[u] = "ready"
      <3>1. status[u] = "ready" /\ u # t
        BY <1>2, <1>20 DEF IInv, StatusInv, PlaceInv, t
      <3>2. u \in Tasks
        BY <1>1, <1>2 DEF QueueType, ToSet
      <3> QED BY <1>6, <3>1, <3>2
    <2>2. ASSUME NEW u \in ToSet(readyQueue')
          PROVE  status'[u] = "ready"
      <3>1. status[u] = "ready" /\ u # t
        BY <1>2, <1>20 DEF IInv, StatusInv, PlaceInv, t
      <3>2. u \in Tasks
        BY <1>1, <1>2 DEF QueueType, ToSet
      <3> QED BY <1>6, <3>1, <3>2
    <2>3. ASSUME NEW u \in ToSet(plan')
          PROVE  status'[u] = "pending"
      <3>1. status[u] = "pending" /\ u # t
        BY <1>2, <1>4 DEF IInv, StatusInv
      <3>2. u \in Tasks
        BY <1>1, <1>2 DEF RestType, ToSet
      <3> QED BY <1>6, <3>1, <3>2
    <2>4. ASSUME NEW v \in Workers, worker'[v].pc \in {"assign", "setRunning"}
          PROVE  status'[worker'[v].task] = "ready"
      <3>1. v # w /\ worker'[v] = worker[v]
        BY <1>8, <1>9, <2>4
      <3>2. status[worker[v].task] = "ready" /\ worker[v].task \in Tasks
        BY <1>1, <1>20, <2>4, <3>1 DEF IInv, StatusInv, LockInv, Holding, WorkerType
      <3>3. worker[v].task # t
        BY <1>4, <3>1, NoTaskAssumption DEF IInv, PlaceInv, t
      <3> QED BY <1>6, <3>1, <3>2, <3>3
    <2>5. ASSUME NEW u \in Tasks, status'[u] = "running"
          PROVE  \E v \in Workers : worker'[v].pc = "running" /\ worker'[v].task = u
      <3>1. CASE u = t
        BY <1>8, <1>9, <3>1 DEF t
      <3>2. CASE u # t
        <4>1. PICK v \in Workers : worker[v].pc = "running" /\ worker[v].task = u
          BY <1>6, <2>5, <3>2 DEF IInv, StatusInv
        <4> QED BY <1>2, <1>8, <4>1
      <3> QED BY <3>1, <3>2
    <2> QED BY <2>1, <2>2, <2>3, <2>4, <2>5 DEF StatusInv
  <1>13. ReadyInv'
    BY <1>2, <1>5, <1>6, <1>8, <1>21 DEF IInv, ReadyInv
  <1>14. GraphInv'
    BY <1>2, <1>4, <1>5, <1>6 DEF IInv, GraphInv
  <1>15. BatchInv'
    <2>1. ASSUME NEW b \in batch' .. Len(Batches'), NEW u \in ToSet(Batches'[b])
          PROVE  status'[u] = "unknown"
      <3>1. status[u] = "unknown" /\ u # t
        BY <1>2, <1>4, <1>5 DEF IInv, BatchInv
      <3> QED BY <1>2, <3>1 DEF MapType
    <2> QED BY <1>2, <1>5, <2>1 DEF IInv, BatchInv
  <1>16. \A u \in Tasks :
           IsTaskReady(status', dependencies', u) <=> IsTaskReady(status, dependencies, u)
    BY <1>1, <1>2, <1>4, <1>6, ReadyByCompleted DEF MapType
  <1>17. OrderInv'
    BY <1>2, <1>4, <1>6, <1>16 DEF IInv, OrderInv
  <1>18. WaitInv'
    BY <1>2, <1>5, <1>6, <1>16 DEF IInv, WaitInv
  <1>19. WorkerStatusAccurate'
    <2>1. ASSUME NEW v \in Workers, worker'[v].pc = "running"
          PROVE  status'[worker'[v].task] = "running"
      <3>1. CASE v = w
        BY <1>6, <1>8, <3>1 DEF t
      <3>2. CASE v # w
        <4>1. status[worker[v].task] = "running" /\ worker[v].task \in Tasks
          BY <1>1, <1>8, <2>1, <3>2
             DEF IInv, WorkerStatusAccurate, LockInv, Holding, WorkerType
        <4> QED BY <1>4, <1>6, <1>8, <4>1
      <3> QED BY <3>1, <3>2
    <2>2. \A v \in Workers :
            current'[v] = IF worker'[v].pc \in {"setRunning", "running"}
                          THEN worker'[v].task ELSE NoTask
      BY <1>2, <1>8, <1>9 DEF IInv, WorkerStatusAccurate
    <2> QED BY <2>1, <2>2 DEF WorkerStatusAccurate
  <1> QED BY <1>5, <1>7, <1>10, <1>11, <1>12, <1>13, <1>14, <1>15, <1>17, <1>18, <1>19
          DEF IInv

--------------------------------------------------------------------------------
(* The end of an execution *)

Drop(w, pc) == worker' = [worker EXCEPT ![w].pc = pc, ![w].task = NoTask]

LEMMA DropMoves ==
  ASSUME WorkerType, NEW w \in Workers, NEW pc \in PCs, Drop(w, pc)
  PROVE  MovesTo(w, pc, NoTask)
  <1> DEFINE r == [worker[w] EXCEPT !.pc = pc, !.task = NoTask]
  <1>1. worker' = [worker EXCEPT ![w] = r]
    BY DEF WorkerType, Drop
  <1>2. /\ r \in [pc: PCs, task: Tasks \cup {NoTask}, victim: Workers]
        /\ r.pc = pc /\ r.task = NoTask
    <2>1. worker[w] \in [pc: PCs, task: Tasks \cup {NoTask}, victim: Workers]
      BY DEF WorkerType
    <2> QED BY <2>1
  <1> HIDE DEF r
  <1>3. worker'[w] = r /\ \A v \in Workers \ {w} : worker'[v] = worker[v]
    BY <1>1 DEF WorkerType
  <1>4. WorkerType'
    BY <1>1, <1>2 DEF WorkerType
  <1> QED BY <1>2, <1>3, <1>4 DEF MovesTo

(* ClearCurrent finds the worker that executes the task. *)
LEMMA ClearFacts ==
  ASSUME IInv, NEW w \in Workers, worker[w].pc = "running", ClearCurrent(worker[w].task)
  PROVE  current' = [v \in Workers |-> IF v = w THEN NoTask ELSE current[v]]
  <1> DEFINE t == worker[w].task
             holders == {v \in Workers : current[v] = t}
  <1>1. t # NoTask
    BY DEF IInv, LockInv, Holding
  <1>2. \A v \in Workers : current[v] = t <=> v = w
    BY <1>1 DEF IInv, WorkerStatusAccurate, PlaceInv
  <1>3. holders = {w}
    BY <1>2
  <1>4. Min(holders) = w
    BY <1>3, MinOfOne, WorkersFacts DEF Workers
  <1>5. current' = [v \in Workers |-> IF holders # {} /\ v = Min(holders)
                                      THEN NoTask ELSE current[v]]
    BY DEF ClearCurrent
  <1> HIDE DEF holders
  <1> QED BY <1>3, <1>4, <1>5

(* What both ends of an execution of t = worker[w].task do to what is not in the maps  *)
(* or in plan: only t changes its status, and the worker drops it.                     *)
LEMMA ExecutionEnds ==
  ASSUME IInv, NEW w \in Workers, worker[w].pc = "running", MutexFree,
         ClearCurrent(worker[w].task), NEW pc \in PCs \ Holding, MovesTo(w, pc, NoTask),
         UNCHANGED <<client, queues, readyQueue, order>>,
         MapType', NEW s \in {"completed", "pending"},
         status' = [status EXCEPT ![worker[w].task] = s],
         aborts' \in 0 .. MaxAborts,
         plan' \in Seq(Tasks), IsInjective(plan'),
         \A u \in ToSet(plan') : status'[u] = "pending",
         pc \in Distributing \/ plan' = <<>>, pc \notin {"distribute", "markReady"}
  PROVE  /\ SetupOK(setup)' /\ TypeOK' /\ LockInv' /\ PlaceInv' /\ StatusInv' /\ ReadyInv'
         /\ BatchInv' /\ WorkerStatusAccurate'
  <1> DEFINE t == worker[w].task
  <1>1. ClientType /\ MapType /\ WorkerType /\ RestType /\ QueueType
    BY TypeParts DEF IInv
  <1>2. UNCHANGED <<setup, batch, adding, shutdown, queues, readyQueue, order>>
    BY DEF client
  <1>3. t \in Tasks /\ status[t] = "running"
    BY <1>1 DEF WorkerType, IInv, LockInv, WorkerStatusAccurate, Holding
  <1>4. UNCHANGED <<QueueCapacity, ReadyCapacity, Batches, MaxAborts>>
        /\ SetupOK(setup)' /\ OnceEach(setup)' /\ (HasRoom(setup)' => HasRoom(setup))
    BY <1>2, SetupFixed DEF IInv, BatchInv
  <1>5. current' = [v \in Workers |-> IF v = w THEN NoTask ELSE current[v]]
    BY ClearFacts
  <1>6. status'[t] = s /\ \A u \in Tasks : u # t => status'[u] = status[u]
    BY <1>1, <1>3 DEF MapType
  <1>7. /\ worker'[w].task = NoTask /\ worker'[w].pc = pc
        /\ \A v \in Workers : v # w => worker'[v] = worker[v]
    BY DEF MovesTo
  <1>8. \A v \in Workers : v # w => worker[v].task # t
    BY <1>3, NoTaskAssumption DEF IInv, PlaceInv
  <1> HIDE DEF t
  <1>16. Pushed = {} /\ Pushed' = {}
    <2>1. \A v \in Workers : worker'[v].pc # "markReady"
      BY <1>7 DEF MutexFree, Distributing
    <2> QED BY <2>1, PushedFacts DEF Pushed
  <1>9. TypeOK'
    <2>1. ClientType'
      BY <1>1, <1>2, <1>4 DEF ClientType
    <2>2. QueueType'
      BY <1>1, <1>2, <1>4 DEF QueueType
    <2>3. RestType'
      BY <1>1, <1>2, <1>4, <1>5 DEF RestType
    <2>4. WorkerType'
      BY DEF MovesTo
    <2> QED BY <2>1, <2>2, <2>3, <2>4, TypeParts, PTL
  <1>10. LockInv'
    <2>1. \A v \in Workers : worker'[v].task # NoTask <=> worker'[v].pc \in Holding
      BY <1>7 DEF IInv, LockInv
    <2>2. \A v \in Workers : worker[v].pc \notin Distributing
      BY DEF MutexFree, Distributing
    <2>3. \A u, v \in Workers :
            worker'[u].pc \in Distributing /\ worker'[v].pc \in Distributing => u = v
      BY <1>7, <2>2
    <2>4. MutexFree' => plan' = <<>>
      BY <1>7 DEF MutexFree, Distributing
    <2>5. \A v \in Workers : worker'[v].pc \notin {"distribute", "markReady"}
      BY <1>7, <2>2 DEF Distributing
    <2> QED BY <2>1, <2>3, <2>4, <2>5 DEF LockInv
  <1>11. PlaceInv'
    <2>1. NoTask \notin ToSet(readyQueue) /\ \A v \in Workers : NoTask \notin ToSet(queues[v])
      BY <1>1, NoTaskAssumption DEF QueueType, ToSet
    <2> QED BY ZenonT(30), <1>2, <1>7, <2>1 DEF IInv, PlaceInv
  <1>12. StatusInv'
    <2>1. ASSUME NEW v \in Workers, NEW u \in ToSet(queues'[v])
          PROVE  status'[u] = "ready"
      <3>1. status[u] = "ready"
        BY <1>2, <1>16 DEF IInv, StatusInv
      <3>2. u \in Tasks
        BY <1>1, <1>2 DEF QueueType, ToSet
      <3> QED BY <1>3, <1>6, <3>1, <3>2
    <2>2. ASSUME NEW u \in ToSet(readyQueue')
          PROVE  status'[u] = "ready"
      <3>1. status[u] = "ready"
        BY <1>2, <1>16 DEF IInv, StatusInv
      <3>2. u \in Tasks
        BY <1>1, <1>2 DEF QueueType, ToSet
      <3> QED BY <1>3, <1>6, <3>1, <3>2
    <2>3. ASSUME NEW v \in Workers, worker'[v].pc \in {"assign", "setRunning"}
          PROVE  status'[worker'[v].task] = "ready"
      <3>1. v # w /\ worker'[v] = worker[v]
        BY <1>7, <2>3 DEF Holding
      <3>2. status[worker[v].task] = "ready" /\ worker[v].task \in Tasks
        BY <1>1, <1>16, <2>3, <3>1 DEF IInv, StatusInv, LockInv, Holding, WorkerType
      <3> QED BY <1>3, <1>6, <3>1, <3>2
    <2>4. ASSUME NEW u \in Tasks, status'[u] = "running"
          PROVE  \E v \in Workers : worker'[v].pc = "running" /\ worker'[v].task = u
      <3>1. u # t /\ status[u] = "running"
        BY <1>6, <2>4
      <3>2. PICK v \in Workers : worker[v].pc = "running" /\ worker[v].task = u
        BY <3>1 DEF IInv, StatusInv
      <3>3. v # w
        BY <3>1, <3>2 DEF t
      <3> QED BY <1>7, <3>2, <3>3
    <2> QED BY <2>1, <2>2, <2>3, <2>4 DEF StatusInv
  <1>13. ReadyInv'
    <2> SUFFICES ASSUME HasRoom(setup), NEW u \in Tasks, status'[u] = "ready"
                 PROVE  \/ u \in ToSet(readyQueue)
                        \/ \E v \in Workers : u \in ToSet(queues[v]) \/ worker'[v].task = u
      BY <1>2, <1>4, <1>16 DEF ReadyInv
    <2>1. u # t /\ status[u] = "ready"
      BY <1>6
    <2>2. \/ u \in ToSet(readyQueue)
          \/ \E v \in Workers : u \in ToSet(queues[v]) \/ worker[v].task = u
      BY <2>1 DEF IInv, ReadyInv
    <2>3. \A v \in Workers : worker[v].task = u => worker'[v].task = u
      BY <1>7, <2>1 DEF t
    <2> QED BY <2>2, <2>3
  <1>14. BatchInv'
    <2>1. ASSUME NEW b \in batch' .. Len(Batches'), NEW u \in ToSet(Batches'[b])
          PROVE  status'[u] = "unknown"
      <3>1. status[u] = "unknown" /\ u # t
        BY <1>2, <1>3, <1>4 DEF IInv, BatchInv
      <3> QED BY <3>1 DEF MapType, t
    <2> QED BY <1>2, <1>4, <2>1 DEF IInv, BatchInv
  <1>15. WorkerStatusAccurate'
    <2>1. ASSUME NEW v \in Workers, worker'[v].pc = "running"
          PROVE  status'[worker'[v].task] = "running"
      <3>1. v # w
        BY <1>7, <2>1 DEF Holding
      <3>2. status[worker[v].task] = "running" /\ worker[v].task \in Tasks
        BY <1>1, <1>7, <2>1, <3>1
           DEF IInv, WorkerStatusAccurate, LockInv, Holding, WorkerType
      <3> QED BY <1>6, <1>7, <1>8, <3>1, <3>2
    <2>2. ASSUME NEW v \in Workers
          PROVE  current'[v] = IF worker'[v].pc \in {"setRunning", "running"}
                               THEN worker'[v].task ELSE NoTask
      <3>1. CASE v = w
        BY <1>5, <1>7, <3>1
      <3>2. CASE v # w
        BY <1>5, <1>7, <3>2 DEF IInv, WorkerStatusAccurate
      <3> QED BY <3>1, <3>2
    <2> QED BY <2>1, <2>2 DEF WorkerStatusAccurate
  <1> QED BY <1>4, <1>9, <1>10, <1>11, <1>12, <1>13, <1>14, <1>15

LEMMA CompleteTaskKeepsIInv ==
  ASSUME IInv, NEW w \in Workers, CompleteTask(w)
  PROVE  IInv'
  <1> DEFINE t == worker[w].task
             st == [status EXCEPT ![t] = "completed"]
             S == {u \in Tasks : IsTaskReady(st, dependencies, u) /\ st[u] = "pending"}
             readyTasks == Select(dependents[t], S)
             next == IF readyTasks = <<>> THEN "idle"
                     ELSE IF LoadBalancing THEN "sort" ELSE "addGlobal"
  <1>1. /\ worker[w].pc = "running" /\ MutexFree
        /\ status' = st /\ ClearCurrent(t) /\ plan' = readyTasks
        /\ worker' = [worker EXCEPT ![w].pc = next, ![w].task = NoTask]
        /\ UNCHANGED <<client, dependencies, dependents, queues, readyQueue, order, aborts>>
    BY DEF CompleteTask, CheckDependentTasks
  <1>2. ClientType /\ MapType /\ WorkerType /\ RestType /\ QueueType
    BY TypeParts DEF IInv
  <1>3. t \in Tasks /\ status[t] = "running"
    BY <1>1, <1>2 DEF WorkerType, IInv, LockInv, WorkerStatusAccurate, Holding
  <1>4. next \in PCs \ Holding
    BY DEF PCs, Holding
  <1>5. next \in Distributing \/ readyTasks = <<>>
    BY DEF Distributing
  <1>6. next \notin {"distribute", "markReady"}
    OBVIOUS
  <1> HIDE DEF next
  <1>7. MovesTo(w, next, NoTask)
    BY <1>1, <1>2, <1>4, DropMoves DEF Drop
  <1>8. /\ st \in [Tasks -> Statuses] /\ st[t] = "completed"
        /\ \A u \in Tasks : u # t => st[u] = status[u]
    BY <1>2, <1>3 DEF MapType, Statuses
  <1>9. MapType'
    BY <1>1, <1>2, <1>8 DEF MapType
  <1> HIDE DEF st
  <1>10. /\ readyTasks \in Seq(Tasks) /\ IsInjective(readyTasks)
         /\ ToSet(readyTasks) = ToSet(dependents[t]) \cap S
    <2>1. dependents[t] \in Seq(Tasks) /\ IsInjective(dependents[t])
      BY <1>2, <1>3 DEF MapType, IInv, GraphInv
    <2> HIDE DEF S
    <2> QED BY <2>1, SelectFacts
  <1> HIDE DEF readyTasks
  <1>11. /\ SetupOK(setup)' /\ TypeOK' /\ LockInv' /\ PlaceInv' /\ StatusInv' /\ ReadyInv'
         /\ BatchInv' /\ WorkerStatusAccurate'
    <2>1. aborts' \in 0 .. MaxAborts
      BY <1>1, <1>2 DEF RestType
    <2>2. \A u \in ToSet(plan') : status'[u] = "pending"
      BY <1>1, <1>10
    <2>3. status' = [status EXCEPT ![worker[w].task] = "completed"]
      BY <1>1 DEF st
    <2>4. UNCHANGED <<client, queues, readyQueue, order>>
      BY <1>1
    <2> QED BY <1>1, <1>4, <1>5, <1>6, <1>7, <1>9, <1>10, <2>1, <2>2, <2>3, <2>4,
               ExecutionEnds
  <1>12. UNCHANGED <<declared, Cyclic, DependencyAnalysis>>
    BY <1>1, SetupFixed DEF client
  <1> HIDE DEF t
  <1>13. GraphInv'
    BY <1>1, <1>3, <1>8, <1>12 DEF IInv, GraphInv
  <1>14. plan = <<>>
    BY <1>1 DEF IInv, LockInv
  <1>15. \A u \in Tasks : IsTaskReady(status, dependencies, u) => IsTaskReady(st, dependencies, u)
    BY <1>2, <1>8, ReadyByCompleted DEF MapType
  <1>16. OrderInv'
    BY <1>1, <1>8, <1>10, <1>15 DEF IInv, OrderInv
  <1>17. WaitInv'
    <2> SUFFICES ASSUME aborts = 0, NEW u \in Tasks, st[u] = "pending",
                        IsTaskReady(st, dependencies, u),
                        ~ (DependencyAnalysis /\ Cyclic)
                 PROVE  u \in ToSet(readyTasks)
      BY <1>1, <1>12 DEF WaitInv
    <2>1. u # t /\ status[u] = "pending"
      BY <1>8
    <2>2. ~ IsTaskReady(status, dependencies, u)
      BY <1>14, <2>1, EmptyFacts DEF IInv, WaitInv
    <2>3. PICK d \in ToSet(dependencies[u]) : status[d] # "completed"
      BY <2>2 DEF IsTaskReady
    <2>4. d \in Tasks /\ st[d] = "completed"
      BY <1>2 DEF MapType, ToSet, IsTaskReady
    <2>5. d = t
      BY <1>8, <2>3, <2>4
    <2>6. u \in ToSet(dependents[t])
      BY <1>3, <2>3, <2>5 DEF IInv, GraphInv
    <2> QED BY <1>10, <2>6
  <1> QED BY <1>11, <1>13, <1>16, <1>17 DEF IInv

LEMMA AbortTaskKeepsIInv ==
  ASSUME IInv, NEW w \in Workers, NEW d \in Tasks, AbortTask(w, d)
  PROVE  IInv'
  <1> DEFINE t == worker[w].task
             known == Contains(dependencies[t], d)
  <1>1. /\ worker[w].pc = "running" /\ MutexFree
        /\ aborts < MaxAborts /\ aborts' = aborts + 1
        /\ dependencies' = [dependencies EXCEPT ![t] = IF known THEN @ ELSE Append(@, d)]
        /\ dependents' = [dependents EXCEPT ![d] = IF known THEN @ ELSE Append(@, t)]
        /\ status' = [status EXCEPT ![t] = "pending"]
        /\ ClearCurrent(t) /\ Return(w)
        /\ UNCHANGED <<client, queues, readyQueue, plan, order>>
    BY DEF AbortTask
  <1>2. ClientType /\ MapType /\ WorkerType /\ RestType /\ QueueType
    BY TypeParts DEF IInv
  <1>3. t \in Tasks /\ status[t] = "running"
    BY <1>1, <1>2 DEF WorkerType, IInv, LockInv, WorkerStatusAccurate, Holding
  <1>4. MovesTo(w, "idle", NoTask)
    BY <1>1, <1>2, ReturnMoves
  <1>5. plan = <<>>
    BY <1>1 DEF IInv, LockInv
  <1>6. known <=> d \in ToSet(dependencies[t])
    <2>1. dependencies[t] \in Seq(Tasks)
      BY <1>2, <1>3 DEF MapType
    <2> QED BY <2>1 DEF Contains, ToSet
  <1>7. d \in ToSet(dependencies[t]) <=> t \in ToSet(dependents[d])
    BY <1>3 DEF IInv, GraphInv
  <1> HIDE DEF known
  <1>8. /\ Append(dependencies[t], d) \in Seq(Tasks)
        /\ ToSet(Append(dependencies[t], d)) = ToSet(dependencies[t]) \cup {d}
    <2>1. dependencies[t] \in Seq(Tasks)
      BY <1>2, <1>3 DEF MapType
    <2> QED BY <2>1, AppendFacts
  <1>9. /\ Append(dependents[d], t) \in Seq(Tasks)
        /\ ToSet(Append(dependents[d], t)) = ToSet(dependents[d]) \cup {t}
        /\ ~ known => IsInjective(Append(dependents[d], t))
    <2>1. dependents[d] \in Seq(Tasks) /\ IsInjective(dependents[d])
      BY <1>2 DEF MapType, IInv, GraphInv
    <2> QED BY <1>3, <1>6, <1>7, <2>1, AppendFacts
  <1> HIDE DEF t
  <1>10. /\ dependencies' \in [Tasks -> Seq(Tasks)]
         /\ ToSet(dependencies'[t]) = ToSet(dependencies[t]) \cup {d}
         /\ \A u \in Tasks : u # t => dependencies'[u] = dependencies[u]
    BY <1>1, <1>2, <1>3, <1>6, <1>8 DEF MapType
  <1>11. /\ dependents' \in [Tasks -> Seq(Tasks)]
         /\ ToSet(dependents'[d]) = ToSet(dependents[d]) \cup {t}
         /\ IsInjective(dependents'[d])
         /\ \A u \in Tasks : u # d => dependents'[u] = dependents[u]
    BY <1>1, <1>2, <1>6, <1>7, <1>9 DEF MapType, IInv, GraphInv
  <1>12. /\ status' \in [Tasks -> Statuses] /\ status'[t] = "pending"
         /\ \A u \in Tasks : u # t => status'[u] = status[u]
    BY <1>1, <1>2, <1>3 DEF MapType, Statuses
  <1>13. MapType'
    BY <1>10, <1>11, <1>12 DEF MapType
  <1>14. aborts' \in 0 .. MaxAborts /\ aborts' # 0
    <2>1. aborts \in Nat /\ MaxAborts \in Nat
      BY <1>2 DEF RestType, IInv, SetupOK, MaxAborts
    <2> QED BY <1>1, <2>1
  <1>15. /\ SetupOK(setup)' /\ TypeOK' /\ LockInv' /\ PlaceInv' /\ StatusInv' /\ ReadyInv'
         /\ BatchInv' /\ WorkerStatusAccurate'
    <2>1. plan' = <<>> /\ plan' \in Seq(Tasks) /\ IsInjective(plan') /\ ToSet(plan') = {}
      BY <1>1, <1>5, EmptyFacts
    <2>2. "idle" \in PCs \ Holding /\ "idle" \notin {"distribute", "markReady"}
      BY DEF PCs, Holding
    <2>3. status' = [status EXCEPT ![worker[w].task] = "pending"]
      BY <1>1 DEF t
    <2>4. UNCHANGED <<client, queues, readyQueue, order>> /\ ClearCurrent(worker[w].task)
      BY <1>1 DEF t
    <2> QED BY <1>1, <1>4, <1>13, <1>14, <2>1, <2>2, <2>3, <2>4, ExecutionEnds
  <1>16. GraphInv'
    <2>1. \A u \in Tasks : IsInjective(dependents'[u])
      BY <1>11 DEF IInv, GraphInv
    <2>2. ASSUME NEW u \in Tasks, NEW e \in Tasks
          PROVE  u \in ToSet(dependents'[e]) <=> e \in ToSet(dependencies'[u])
      <3>1. u \in ToSet(dependents[e]) <=> e \in ToSet(dependencies[u])
        BY DEF IInv, GraphInv
      <3>2. u \in ToSet(dependents'[e]) <=> u \in ToSet(dependents[e]) \/ (e = d /\ u = t)
        BY <1>11
      <3>3. e \in ToSet(dependencies'[u]) <=> e \in ToSet(dependencies[u]) \/ (e = d /\ u = t)
        BY <1>10
      <3> QED BY <3>1, <3>2, <3>3
    <2>3. \A u \in Tasks : status'[u] = "unknown" => dependencies'[u] = <<>>
      BY <1>10, <1>12 DEF IInv, GraphInv
    <2> QED BY <1>14, <2>1, <2>2, <2>3 DEF GraphInv
  <1>17. OrderInv'
    <2>1. ASSUME NEW u \in Tasks, status'[u] \in {"ready", "running"} \/ u \in ToSet(plan')
          PROVE  IsTaskReady(status', dependencies', u)
      <3>1. u # t /\ status[u] \in {"ready", "running"}
        BY <1>1, <1>5, <1>12, <2>1, EmptyFacts
      <3>2. IsTaskReady(status, dependencies, u)
        BY <3>1 DEF IInv, OrderInv
      <3>3. \A e \in Tasks : status[e] = "completed" => status'[e] = "completed"
        BY <1>3, <1>12 DEF t
      <3>4. IsTaskReady(status', dependencies, u)
        BY <1>2, <1>12, <3>2, <3>3, ReadyByCompleted DEF MapType
      <3> QED BY <1>10, <3>1, <3>4 DEF IsTaskReady
    <2> QED BY <2>1 DEF OrderInv
  <1>18. WaitInv'
    BY <1>14 DEF WaitInv
  <1> QED BY <1>15, <1>16, <1>17, <1>18 DEF IInv

--------------------------------------------------------------------------------
(* Handing out the tasks that became ready *)

LEMMA SortWorkersKeepsIInv ==
  ASSUME IInv, NEW w \in Workers, SortWorkers(w)
  PROVE  IInv'
  <1>1. QueueType /\ WorkerType /\ RestType
    BY TypeParts DEF IInv
  <1>2. /\ UNCHANGED <<client, taskMaps, queues, readyQueue, current, plan, aborts>>
        /\ worker[w].pc = "sort" /\ worker[w].task = NoTask
    BY DEF SortWorkers, IInv, LockInv, Holding
  <1>3. MovesTo(w, "distribute", NoTask)
    BY <1>1, <1>2, GotoMoves DEF SortWorkers, PCs
  <1>4. order' \in Seq(Workers) /\ order' # <<>>
    <2>1. PICK o \in SetToSeqs(Workers) : order' = o
      BY DEF SortWorkers
    <2>2. o \in [1 .. NumWorkers -> Workers] /\ 1 \in DOMAIN o
      BY WorkersFacts DEF SetToSeqs
    <2> QED BY <2>1, <2>2, WorkersFacts
  <1>5. SetupOK(setup)' /\ ClientType' /\ MapType' /\ GraphInv' /\ BatchInv' /\ OrderInv'
        /\ WaitInv'
    BY <1>2, MapsFrame
  <1>6. UNCHANGED <<QueueCapacity, ReadyCapacity, MaxAborts>>
        /\ (HasRoom(setup)' => HasRoom(setup))
    BY <1>2, SetupFixed DEF client
  <1>7. TypeOK'
    <2>1. QueueType'
      BY <1>1, <1>2, <1>6 DEF QueueType
    <2>2. RestType'
      BY <1>1, <1>2, <1>4, <1>6 DEF RestType
    <2>3. WorkerType'
      BY <1>3 DEF MovesTo
    <2> QED BY <1>5, <2>1, <2>2, <2>3, TypeParts, PTL
  <1>8. /\ worker'[w].pc = "distribute"
        /\ \A v \in Workers :
             worker'[v].task = worker[v].task /\ (v # w => worker'[v] = worker[v])
    BY <1>2, <1>3 DEF MovesTo
  <1>14. Pushed' = Pushed
    BY <1>2, <1>8, PushedFrame
  <1>9. LockInv'
    BY <1>2, <1>4, <1>8 DEF IInv, LockInv, Holding, Distributing, MutexFree
  <1>10. PlaceInv'
    BY <1>2, <1>8 DEF IInv, PlaceInv
  <1>11. StatusInv'
    BY <1>2, <1>8, <1>14 DEF IInv, StatusInv, taskMaps
  <1>12. ReadyInv'
    BY <1>2, <1>6, <1>8, <1>14 DEF IInv, ReadyInv, taskMaps
  <1>13. WorkerStatusAccurate'
    BY <1>2, <1>8 DEF IInv, WorkerStatusAccurate, taskMaps
  <1> QED BY <1>5, <1>7, <1>9, <1>10, <1>11, <1>12, <1>13 DEF IInv

(* What readyQueue.Push keeps: nothing is repeated, and nothing lost if there is room. *)
LEMMA PushFacts ==
  ASSUME SetupOK(setup), QueueType, NEW tasks \in Seq(Tasks), PushReady(tasks),
         IsInjective(readyQueue), IsInjective(tasks),
         ToSet(readyQueue) \cap ToSet(tasks) = {}
  PROVE  /\ readyQueue' \in Seq(Tasks) /\ Len(readyQueue') <= ReadyCapacity
         /\ IsInjective(readyQueue')
         /\ ToSet(readyQueue') \subseteq ToSet(readyQueue) \cup ToSet(tasks)
         /\ HasRoom(setup) => ToSet(readyQueue') = ToSet(readyQueue) \cup ToSet(tasks)
  <1> DEFINE all == readyQueue \o tasks
             k == Min({Len(all), ReadyCapacity})
  <1>1. /\ all \in Seq(Tasks) /\ IsInjective(all)
        /\ ToSet(all) = ToSet(readyQueue) \cup ToSet(tasks)
    BY ConcatFacts DEF QueueType
  <1>2. ReadyCapacity \in Nat /\ ReadyCapacity = setup.queueSize * NumWorkers
    BY Capacities
  <1>3. readyQueue' = SubSeq(all, 1, k)
    BY DEF PushReady
  <1> HIDE DEF all
  <1>4. Len(all) \in Nat
    BY <1>1
  <1>5. k = IF Len(all) <= ReadyCapacity THEN Len(all) ELSE ReadyCapacity
    BY <1>2, <1>4, MinOfTwo
  <1> HIDE DEF k
  <1>6. k \in 0 .. Len(all) /\ k <= ReadyCapacity
    BY <1>2, <1>4, <1>5
  <1>7. /\ readyQueue' \in Seq(Tasks) /\ Len(readyQueue') = k
        /\ ToSet(readyQueue') \subseteq ToSet(all) /\ IsInjective(readyQueue')
        /\ k = Len(all) => readyQueue' = all
    BY <1>1, <1>3, <1>6, PrefixFacts
  <1>8. HasRoom(setup) => k = Len(all)
    <2> SUFFICES ASSUME HasRoom(setup)
                 PROVE  Len(all) <= ReadyCapacity
      BY <1>5
    <2>1. IsFiniteSet(Tasks) /\ Cardinality(Tasks) <= ReadyCapacity
      BY <1>2 DEF HasRoom
    <2>2. Len(all) <= Cardinality(Tasks) /\ Cardinality(Tasks) \in Nat
      BY <1>1, <2>1, InjectiveSeqIsShort, FS_CardinalityType
    <2> QED BY <1>2, <1>4, <2>1, <2>2
  <1> QED BY <1>1, <1>6, <1>7, <1>8

(* The holder of taskMutex marks the tasks P of its plan ready: it puts them into the global *)
(* queue, or it has pushed one of them before.                                              *)
HandsOut(w, P) ==
  /\ worker[w].pc \in Distributing /\ Pushed \subseteq P
  /\ P \in SUBSET ToSet(plan)
  /\ status' = [u \in Tasks |-> IF u \in P THEN "ready" ELSE status[u]]
  /\ UNCHANGED <<client, dependencies, dependents, queues, current, aborts>>
  /\ WorkerType' /\ worker'[w].pc \notin Holding \cup {"markReady"}
  /\ \A v \in Workers : worker'[v].task = worker[v].task
  /\ \A v \in Workers \ {w} : worker'[v] = worker[v]
  /\ LockInv' /\ QueueType' /\ PlaceInv'
  /\ plan' \in Seq(Tasks) /\ ToSet(plan') = ToSet(plan) \ P
  /\ order' \in Seq(Workers)
  /\ ToSet(readyQueue') \subseteq ToSet(readyQueue) \cup P
  /\ HasRoom(setup) =>
       /\ ToSet(readyQueue) \subseteq ToSet(readyQueue')
       /\ \A u \in P : \/ u \in ToSet(readyQueue')
                      \/ \E v \in Workers : u \in ToSet(queues[v]) \/ worker[v].task = u

LEMMA HandOutKeepsIInv ==
  ASSUME IInv, NEW w \in Workers, NEW P, HandsOut(w, P)
  PROVE  IInv'
  <1> USE DEF HandsOut
  <1>1. ClientType /\ MapType /\ WorkerType /\ RestType /\ QueueType
    BY TypeParts DEF IInv
  <1>2. UNCHANGED <<setup, batch, adding, shutdown>>
    BY DEF client
  <1>3. UNCHANGED <<QueueCapacity, ReadyCapacity, Batches, declared, MaxAborts, Cyclic,
                    DependencyAnalysis>>
        /\ SetupOK(setup)' /\ OnceEach(setup)' /\ (HasRoom(setup)' => HasRoom(setup))
    BY <1>2, SetupFixed DEF IInv, BatchInv
  <1>4. \A u \in P : u \in Tasks /\ status[u] = "pending"
    BY <1>1 DEF RestType, ToSet, IInv, StatusInv
  <1>5. MapType'
    <2>1. status' \in [Tasks -> Statuses]
      BY <1>1 DEF MapType, Statuses
    <2> QED BY <1>1, <2>1 DEF MapType
  <1>6. TypeOK'
    <2>1. ClientType'
      BY <1>1, <1>2, <1>3 DEF ClientType
    <2>2. RestType'
      BY <1>1, <1>3 DEF RestType
    <2> QED BY <1>5, <2>1, <2>2, TypeParts, PTL
  <1>7. Pushed' = {}
    <2>1. \A v \in Workers \ {w} : worker[v].pc \notin Distributing
      BY DEF IInv, LockInv
    <2>2. \A v \in Workers : worker'[v].pc # "markReady"
      BY <2>1 DEF Distributing
    <2> QED BY <2>2 DEF Pushed
  <1>9. StatusInv'
    <2>1. ASSUME NEW v \in Workers, NEW u \in ToSet(queues'[v])
          PROVE  status'[u] = "ready"
      <3>1. u \in Tasks
        BY DEF QueueType, ToSet
      <3> QED BY <3>1 DEF IInv, StatusInv
    <2>2. ASSUME NEW u \in ToSet(readyQueue')
          PROVE  status'[u] = "ready"
      <3>1. u \in Tasks
        BY DEF QueueType, ToSet
      <3> QED BY <3>1 DEF IInv, StatusInv
    <2>3. ASSUME NEW u \in ToSet(plan')
          PROVE  status'[u] = "pending"
      <3>1. u \in Tasks
        BY DEF ToSet
      <3> QED BY <3>1 DEF IInv, StatusInv
    <2>4. ASSUME NEW v \in Workers, worker'[v].pc \in {"assign", "setRunning"}
          PROVE  status'[worker'[v].task] = "ready"
      <3>1. v # w /\ worker'[v] = worker[v]
        BY <2>4 DEF Holding
      <3>2. /\ status[worker[v].task] = "ready" \/ worker[v].task \in Pushed
            /\ worker[v].task \in Tasks
        BY <1>1, <2>4, <3>1 DEF IInv, StatusInv, LockInv, Holding, WorkerType
      <3> QED BY <3>1, <3>2
    <2>5. ASSUME NEW u \in Tasks, status'[u] = "running"
          PROVE  \E v \in Workers : worker'[v].pc = "running" /\ worker'[v].task = u
      <3>1. status[u] = "running"
        BY <2>5
      <3>2. PICK v \in Workers : worker[v].pc = "running" /\ worker[v].task = u
        BY <3>1 DEF IInv, StatusInv
      <3>3. v # w
        BY <3>2 DEF Distributing
      <3> QED BY <3>2, <3>3
    <2> QED BY <2>1, <2>2, <2>3, <2>4, <2>5 DEF StatusInv
  <1>10. ReadyInv'
    <2> SUFFICES ASSUME HasRoom(setup), NEW u \in Tasks, status'[u] = "ready"
                 PROVE  \/ u \in ToSet(readyQueue')
                        \/ \E v \in Workers : u \in ToSet(queues'[v]) \/ worker'[v].task = u
      BY <1>3, <1>7 DEF ReadyInv
    <2>1. CASE u \in P
      BY <2>1
    <2>2. CASE u \notin P
      <3>1. status[u] = "ready"
        BY <2>2
      <3>2. \/ u \in ToSet(readyQueue)
            \/ \E v \in Workers : u \in ToSet(queues[v]) \/ worker[v].task = u
        BY <3>1 DEF IInv, ReadyInv
      <3> QED BY <3>2
    <2> QED BY <2>1, <2>2
  <1>11. GraphInv'
    <2>1. \A u \in Tasks : status'[u] = "unknown" <=> status[u] = "unknown"
      BY <1>4
    <2> QED BY <1>3, <2>1 DEF IInv, GraphInv
  <1>12. BatchInv'
    <2>1. ASSUME NEW b \in batch' .. Len(Batches'), NEW u \in ToSet(Batches'[b])
          PROVE  status'[u] = "unknown"
      <3>1. status[u] = "unknown" /\ u \notin P
        BY <1>2, <1>3, <1>4 DEF IInv, BatchInv
      <3>2. u \in Tasks
        <4>1. Batches \in Seq(Seq(Tasks)) /\ batch \in Nat /\ batch >= 1
          BY <1>1 DEF IInv, SetupOK, Batches, ClientType
        <4>2. Batches[b] \in Seq(Tasks)
          BY <1>2, <1>3, <4>1
        <4> QED BY <1>3, <4>2 DEF ToSet
      <3> QED BY <3>1, <3>2
    <2> QED BY <1>2, <1>3, <2>1 DEF IInv, BatchInv
  <1>13. \A u \in Tasks :
           IsTaskReady(status', dependencies', u) <=> IsTaskReady(status, dependencies, u)
    <2>1. \A u \in Tasks : status'[u] = "completed" <=> status[u] = "completed"
      BY <1>4
    <2> QED BY <1>1, <1>5, <2>1, ReadyByCompleted DEF MapType
  <1>14. OrderInv'
    <2>1. ASSUME NEW u \in Tasks, status'[u] \in {"ready", "running"} \/ u \in ToSet(plan')
          PROVE  status[u] \in {"ready", "running"} \/ u \in ToSet(plan)
      BY <2>1
    <2> QED BY <1>13, <2>1 DEF IInv, OrderInv
  <1>15. WaitInv'
    BY <1>3, <1>13 DEF IInv, WaitInv
  <1>16. WorkerStatusAccurate'
    <2>1. ASSUME NEW v \in Workers, worker'[v].pc = "running"
          PROVE  status'[worker'[v].task] = "running"
      <3>1. v # w
        BY <2>1 DEF Holding
      <3>2. status[worker[v].task] = "running" /\ worker[v].task \in Tasks
        BY <1>1, <2>1, <3>1
           DEF IInv, WorkerStatusAccurate, LockInv, Holding, WorkerType
      <3> QED BY <1>4, <3>1, <3>2
    <2>2. ASSUME NEW v \in Workers
          PROVE  current'[v] = IF worker'[v].pc \in {"setRunning", "running"}
                               THEN worker'[v].task ELSE NoTask
      <3>1. CASE v = w
        BY <3>1 DEF IInv, WorkerStatusAccurate, Holding, Distributing
      <3>2. CASE v # w
        BY <3>2 DEF IInv, WorkerStatusAccurate
      <3> QED BY <3>1, <3>2
    <2> QED BY <2>1, <2>2 DEF WorkerStatusAccurate
  <1> QED BY <1>3, <1>6, <1>9, <1>10, <1>11, <1>12, <1>14, <1>15, <1>16 DEF IInv

LEMMA PushToWorkerKeepsIInv ==
  ASSUME IInv, NEW w \in Workers, PushToWorker(w)
  PROVE  IInv'
  <1> DEFINE h == Head(order)
             p == Head(plan)
             new == Append(queues[h], p)
  <1>1. WorkerType /\ RestType /\ QueueType
    BY TypeParts DEF IInv
  <1>2. /\ worker[w].pc = "distribute" /\ plan # <<>> /\ Len(queues[h]) < QueueCapacity
        /\ queues' = [queues EXCEPT ![h] = new] /\ Goto(w, "markReady")
        /\ UNCHANGED <<client, taskMaps, readyQueue, current, plan, order, aborts>>
    BY DEF PushToWorker
  <1>3. h \in Workers
    BY <1>1, <1>2 DEF RestType, IInv, LockInv
  <1> HIDE DEF h
  <1>4. p \in Tasks /\ p \in ToSet(plan)
    BY <1>1, <1>2 DEF RestType, ToSet
  <1>5. MovesTo(w, "markReady", worker[w].task)
    BY <1>1, <1>2, GotoMoves DEF PCs
  <1>6. /\ worker'[w].pc = "markReady"
        /\ \A v \in Workers :
             worker'[v].task = worker[v].task /\ (v # w => worker'[v] = worker[v])
    BY <1>5 DEF MovesTo
  <1>7. Pushed = {} /\ Pushed' = {p}
    <2>1. Pushed = {}
      BY <1>2, PushedFacts DEF Distributing
    <2> QED BY <1>2, <1>4, <1>6, <2>1 DEF Pushed
  <1> HIDE DEF p
  <1>8. status[p] = "pending"
    BY <1>4 DEF IInv, StatusInv
  <1>9. /\ p \notin ToSet(readyQueue)
        /\ \A v \in Workers : p \notin ToSet(queues[v]) /\ worker[v].task # p
    <2>1. \A v \in Workers : worker[v].task # NoTask =>
             status[worker[v].task] \in {"ready", "running"}
      BY <1>7 DEF IInv, LockInv, StatusInv, WorkerStatusAccurate, Holding
    <2> QED BY <1>4, <1>7, <1>8, <2>1, NoTaskAssumption DEF IInv, StatusInv
  <1>10. /\ new \in Seq(Tasks) /\ ToSet(new) = ToSet(queues[h]) \cup {p} /\ IsInjective(new)
         /\ Len(new) = Len(queues[h]) + 1 /\ Len(queues[h]) \in Nat
    <2>1. queues[h] \in Seq(Tasks) /\ IsInjective(queues[h])
      BY <1>1, <1>3 DEF QueueType, IInv, PlaceInv
    <2> QED BY <1>3, <1>4, <1>9, <2>1, AppendFacts
  <1> HIDE DEF new
  <1>11. queues'[h] = new /\ \A v \in Workers : v # h => queues'[v] = queues[v]
    BY <1>1, <1>2, <1>3 DEF QueueType
  <1>12. SetupOK(setup)' /\ ClientType' /\ MapType' /\ GraphInv' /\ BatchInv' /\ OrderInv'
         /\ WaitInv'
    BY <1>2, MapsFrame
  <1>13. UNCHANGED <<QueueCapacity, ReadyCapacity, MaxAborts>> /\ QueueCapacity \in Nat
         /\ (HasRoom(setup)' => HasRoom(setup))
    BY <1>2, SetupFixed, Capacities DEF client, IInv
  <1>14. TypeOK'
    <2>1. QueueType'
      <3>1. queues' \in [Workers -> Seq(Tasks)]
        BY <1>1, <1>2, <1>3, <1>10 DEF QueueType
      <3>2. Len(new) <= QueueCapacity
        BY <1>2, <1>10, <1>13
      <3> QED BY <1>1, <1>2, <1>11, <1>13, <3>1, <3>2 DEF QueueType
    <2>2. RestType'
      BY <1>1, <1>2, <1>13 DEF RestType
    <2>3. WorkerType'
      BY <1>5 DEF MovesTo
    <2> QED BY <1>12, <2>1, <2>2, <2>3, TypeParts, PTL
  <1>15. LockInv'
    <2>1. ~ MutexFree /\ ~ MutexFree'
      BY <1>2, <1>6 DEF MutexFree, Distributing
    <2> QED BY <1>2, <1>6, <2>1 DEF IInv, LockInv, Holding, Distributing
  <1>16. PlaceInv'
    <2>1. ASSUME NEW v \in Workers
          PROVE  \A t : t \in ToSet(queues'[v]) <=> t \in ToSet(queues[v]) \/ (v = h /\ t = p)
      <3>1. CASE v = h
        BY <1>10, <1>11, <3>1
      <3>2. CASE v # h
        BY <1>11, <3>2
      <3> QED BY <3>1, <3>2
    <2>2. \A v \in Workers : IsInjective(queues'[v])
      BY <1>10, <1>11 DEF IInv, PlaceInv
    <2>3. /\ \A v \in Workers : ToSet(queues[v]) \cap ToSet(readyQueue) = {}
          /\ \A u, v \in Workers : worker[u].task \notin ToSet(queues[v])
          /\ \A u, v \in Workers : u # v => ToSet(queues[u]) \cap ToSet(queues[v]) = {}
      BY DEF IInv, PlaceInv
    <2>4. \A v \in Workers : ToSet(queues'[v]) \cap ToSet(readyQueue) = {}
      BY <1>9, <2>1, <2>3
    <2>5. \A u, v \in Workers : worker'[u].task \notin ToSet(queues'[v])
      BY <1>6, <1>9, <2>1, <2>3
    <2>6. \A u, v \in Workers : u # v => ToSet(queues'[u]) \cap ToSet(queues'[v]) = {}
      BY <1>9, <2>1, <2>3
    <2> QED BY <1>2, <1>6, <2>2, <2>4, <2>5, <2>6 DEF IInv, PlaceInv
  <1>17. status' = status
    BY <1>2 DEF taskMaps
  <1>18. StatusInv'
    <2>1. ASSUME NEW v \in Workers, NEW t \in ToSet(queues'[v])
          PROVE  status'[t] = "ready" \/ t \in Pushed'
      BY <1>7, <1>10, <1>11, <1>17 DEF IInv, StatusInv
    <2>2. ASSUME NEW v \in Workers, worker'[v].pc \in {"assign", "setRunning"}
          PROVE  status'[worker'[v].task] = "ready"
      BY <1>6, <1>7, <1>17, <2>2 DEF IInv, StatusInv
    <2>3. ASSUME NEW t \in Tasks, status'[t] = "running"
          PROVE  \E v \in Workers : worker'[v].pc = "running" /\ worker'[v].task = t
      <3>1. PICK v \in Workers : worker[v].pc = "running" /\ worker[v].task = t
        BY <1>17, <2>3 DEF IInv, StatusInv
      <3> QED BY <1>2, <1>6, <3>1
    <2> QED BY <1>2, <1>17, <2>1, <2>2, <2>3 DEF IInv, StatusInv
  <1>19. ReadyInv'
    <2> SUFFICES ASSUME NEW t \in Tasks, (HasRoom(setup) /\ status[t] = "ready") \/ t = p
                 PROVE  \/ t \in ToSet(readyQueue)
                        \/ \E v \in Workers : t \in ToSet(queues'[v]) \/ worker[v].task = t
      BY <1>2, <1>6, <1>7, <1>13, <1>17 DEF ReadyInv
    <2>1. CASE t = p
      BY <1>3, <1>10, <1>11, <2>1
    <2>2. CASE t # p
      <3>1. \/ t \in ToSet(readyQueue)
            \/ \E v \in Workers : t \in ToSet(queues[v]) \/ worker[v].task = t
        BY <2>2 DEF IInv, ReadyInv
      <3> QED BY <1>10, <1>11, <3>1
    <2> QED BY <2>1, <2>2
  <1>20. WorkerStatusAccurate'
    BY <1>2, <1>6, <1>17 DEF IInv, WorkerStatusAccurate
  <1> QED BY <1>12, <1>14, <1>15, <1>16, <1>18, <1>19, <1>20 DEF IInv

(* The workers take turns. *)
LEMMA NextInTurn ==
  ASSUME IInv, order # <<>>, order' = Append(Tail(order), Head(order))
  PROVE  order' \in Seq(Workers) /\ order' # <<>>
  <1>1. order \in Seq(Workers)
    BY TypeParts DEF IInv, RestType
  <1> DEFINE h == Head(order)
             rest == Tail(order)
  <1>2. h \in Workers /\ rest \in Seq(Workers)
    BY <1>1
  <1> HIDE DEF h, rest
  <1>3. Append(rest, h) \in Seq(Workers)
    BY <1>2
  <1>4. Len(Append(rest, h)) = Len(rest) + 1 /\ Len(rest) \in Nat
    BY <1>2
  <1>5. Len(<<>>) = 0
    OBVIOUS
  <1> QED BY <1>3, <1>4, <1>5 DEF h, rest

LEMMA MarkReadyKeepsIInv ==
  ASSUME IInv, NEW w \in Workers, MarkReady(w)
  PROVE  IInv'
  <1> DEFINE p == Head(plan)
  <1>1. MapType /\ WorkerType /\ RestType /\ QueueType
    BY TypeParts DEF IInv
  <1>2. /\ worker[w].pc = "markReady" /\ Goto(w, "distribute")
        /\ status' = [status EXCEPT ![p] = "ready"]
        /\ plan' = Tail(plan)
        /\ order' = Append(Tail(order), Head(order))
        /\ UNCHANGED <<client, dependencies, dependents, queues, readyQueue, current, aborts>>
    BY DEF MarkReady
  <1>3. plan # <<>> /\ order' \in Seq(Workers) /\ order' # <<>>
    BY <1>2, NextInTurn DEF IInv, LockInv
  <1>4. Pushed = {p}
    BY <1>2, PushedFacts
  <1>5. /\ p \in Tasks /\ Tail(plan) \in Seq(Tasks) /\ IsInjective(Tail(plan))
        /\ ToSet(plan) = ToSet(Tail(plan)) \cup {p} /\ p \notin ToSet(Tail(plan))
    <2>1. plan \in Seq(Tasks) /\ IsInjective(plan)
      BY <1>1 DEF RestType, IInv, PlaceInv
    <2> QED BY <1>3, <2>1, TailFacts
  <1> HIDE DEF p
  <1>6. MovesTo(w, "distribute", worker[w].task)
    BY <1>1, <1>2, GotoMoves DEF PCs
  <1>7. /\ WorkerType' /\ worker'[w].pc = "distribute"
        /\ worker'[w].pc \notin Holding \cup {"markReady"}
        /\ \A v \in Workers : worker'[v].task = worker[v].task
        /\ \A v \in Workers \ {w} : worker'[v] = worker[v]
    BY <1>6 DEF MovesTo, Holding
  <1>8. LockInv'
    <2>1. ~ MutexFree /\ ~ MutexFree'
      BY <1>2, <1>7 DEF MutexFree, Distributing
    <2> QED BY <1>2, <1>3, <1>7, <2>1 DEF IInv, LockInv, Holding, Distributing
  <1>9. status' = [u \in Tasks |-> IF u \in {p} THEN "ready" ELSE status[u]]
    BY <1>1, <1>2 DEF MapType
  <1>10. plan' \in Seq(Tasks) /\ IsInjective(plan') /\ ToSet(plan') = ToSet(plan) \ {p}
    BY <1>2, <1>5
  <1>11. QueueType'
    <2>1. UNCHANGED <<QueueCapacity, ReadyCapacity>>
      BY <1>2, SetupFixed DEF client
    <2> QED BY <1>1, <1>2, <2>1 DEF QueueType
  <1>12. PlaceInv'
    <2>1. UNCHANGED <<queues, readyQueue>>
      BY <1>2
    <2>2. \A v \in Workers : worker'[v].task = worker[v].task
      BY <1>7
    <2>3. PlaceInv /\ IsInjective(plan')
      BY <1>10 DEF IInv
    <2> QED BY ZenonT(30), <2>1, <2>2, <2>3 DEF PlaceInv
  <1>13. p \in ToSet(readyQueue) \/ \E v \in Workers : p \in ToSet(queues[v]) \/ worker[v].task = p
    BY <1>4, <1>5 DEF IInv, ReadyInv
  <1>14. worker[w].pc \in Distributing /\ {p} \in SUBSET ToSet(plan)
    BY <1>2, <1>5 DEF Distributing
  <1>15. HandsOut(w, {p})
    BY <1>2, <1>3, <1>4, <1>7, <1>8, <1>9, <1>10, <1>11, <1>12, <1>13, <1>14 DEF HandsOut
  <1> QED BY <1>15, HandOutKeepsIInv

(* Tasks go into the global queue and are marked under the same lock. *)
LEMMA HandOutToReady ==
  ASSUME IInv, NEW w \in Workers, worker[w].pc \in Distributing \ {"markReady"},
         NEW tasks \in Seq(Tasks), IsInjective(tasks), ToSet(tasks) \subseteq ToSet(plan),
         status' = [u \in Tasks |-> IF u \in ToSet(tasks) THEN "ready" ELSE status[u]],
         PushReady(tasks),
         UNCHANGED <<client, dependencies, dependents, queues, current, aborts>>,
         WorkerType', worker'[w].pc \notin Holding \cup {"markReady"},
         \A v \in Workers : worker'[v].task = worker[v].task,
         \A v \in Workers \ {w} : worker'[v] = worker[v],
         LockInv',
         plan' \in Seq(Tasks), IsInjective(plan'), ToSet(plan') = ToSet(plan) \ ToSet(tasks),
         order' \in Seq(Workers)
  PROVE  IInv'
  <1>1. SetupOK(setup) /\ QueueType
    BY TypeParts DEF IInv
  <1>2. Pushed = {} /\ \A u \in ToSet(tasks) : status[u] = "pending"
    BY PushedFacts DEF IInv, StatusInv
  <1>3. ToSet(readyQueue) \cap ToSet(tasks) = {}
        /\ \A v \in Workers : ToSet(queues[v]) \cap ToSet(tasks) = {}
    BY <1>2 DEF IInv, StatusInv
  <1>4. /\ readyQueue' \in Seq(Tasks) /\ Len(readyQueue') <= ReadyCapacity
        /\ IsInjective(readyQueue')
        /\ ToSet(readyQueue') \subseteq ToSet(readyQueue) \cup ToSet(tasks)
        /\ HasRoom(setup) => ToSet(readyQueue') = ToSet(readyQueue) \cup ToSet(tasks)
    <2>1. IsInjective(readyQueue)
      BY DEF IInv, PlaceInv
    <2> QED BY <1>1, <1>3, <2>1, PushFacts
  <1>5. UNCHANGED <<QueueCapacity, ReadyCapacity>>
    BY SetupFixed DEF client
  <1>6. QueueType'
    BY <1>1, <1>4, <1>5 DEF QueueType
  <1>7. \A v \in Workers : worker[v].task \notin ToSet(tasks)
    <2>1. \A v \in Workers : worker[v].task # NoTask =>
             status[worker[v].task] \in {"ready", "running"}
      BY <1>2 DEF IInv, LockInv, StatusInv, WorkerStatusAccurate, Holding
    <2>2. NoTask \notin ToSet(tasks)
      BY NoTaskAssumption DEF ToSet
    <2> QED BY <1>2, <2>1, <2>2
  <1>8. PlaceInv'
    <2>1. \A v \in Workers : /\ ToSet(queues[v]) \cap ToSet(readyQueue') = {}
                            /\ worker[v].task \notin ToSet(readyQueue')
      BY <1>3, <1>4, <1>7 DEF IInv, PlaceInv
    <2> QED BY <1>4, <2>1 DEF IInv, PlaceInv
  <1>9. HasRoom(setup) =>
           /\ ToSet(readyQueue) \subseteq ToSet(readyQueue')
           /\ \A u \in ToSet(tasks) :
                \/ u \in ToSet(readyQueue')
                \/ \E v \in Workers : u \in ToSet(queues[v]) \/ worker[v].task = u
    BY <1>4
  <1>10. HandsOut(w, ToSet(tasks))
    BY <1>2, <1>4, <1>6, <1>8, <1>9 DEF HandsOut
  <1> QED BY <1>10, HandOutKeepsIInv

LEMMA OverflowToReadyKeepsIInv ==
  ASSUME IInv, NEW w \in Workers, OverflowToReady(w)
  PROVE  IInv'
  <1> DEFINE p == Head(plan)
  <1>1. ClientType /\ MapType /\ WorkerType /\ RestType /\ QueueType
    BY TypeParts DEF IInv
  <1>2. /\ worker[w].pc = "distribute" /\ plan # <<>>
        /\ PushReady(<<p>>)
        /\ status' = [status EXCEPT ![p] = "ready"]
        /\ plan' = Tail(plan)
        /\ order' = Append(Tail(order), Head(order))
        /\ UNCHANGED <<client, dependencies, dependents, queues, current, worker, aborts>>
    BY DEF OverflowToReady
  <1>3. order' \in Seq(Workers) /\ order' # <<>>
    BY <1>2, NextInTurn DEF IInv, LockInv
  <1>4. /\ p \in Tasks /\ Tail(plan) \in Seq(Tasks) /\ IsInjective(Tail(plan))
        /\ ToSet(plan) = ToSet(Tail(plan)) \cup {p} /\ p \notin ToSet(Tail(plan))
    <2>1. plan \in Seq(Tasks) /\ IsInjective(plan)
      BY <1>1 DEF RestType, IInv, PlaceInv
    <2> QED BY <1>2, <2>1, TailFacts
  <1> HIDE DEF p
  <1>5. <<p>> \in Seq(Tasks) /\ ToSet(<<p>>) = {p} /\ IsInjective(<<p>>)
    <2>1. <<p>> \in Seq(Tasks) /\ DOMAIN <<p>> = {1} /\ <<p>>[1] = p
      BY <1>4
    <2> QED BY <2>1 DEF ToSet, IsInjective
  <1>6. /\ WorkerType' /\ worker'[w].pc \notin Holding \cup {"markReady"}
        /\ \A v \in Workers : worker'[v].task = worker[v].task
        /\ \A v \in Workers \ {w} : worker'[v] = worker[v]
    BY <1>1, <1>2 DEF WorkerType, Holding
  <1>7. LockInv'
    <2>1. ~ MutexFree /\ ~ MutexFree'
      BY <1>2 DEF MutexFree, Distributing
    <2>2. \A v \in Workers : worker[v].pc # "markReady"
      BY <1>2 DEF IInv, LockInv, Distributing
    <2> QED BY <1>2, <1>3, <2>1, <2>2 DEF IInv, LockInv
  <1>8. status' = [u \in Tasks |-> IF u \in ToSet(<<p>>) THEN "ready" ELSE status[u]]
    BY <1>1, <1>2, <1>5 DEF MapType
  <1>9. worker[w].pc \in Distributing \ {"markReady"} /\ ToSet(<<p>>) \subseteq ToSet(plan)
    BY <1>2, <1>4, <1>5 DEF Distributing
  <1>10. plan' \in Seq(Tasks) /\ IsInjective(plan') /\ ToSet(plan') = ToSet(plan) \ ToSet(<<p>>)
    BY <1>2, <1>4, <1>5
  <1>11. UNCHANGED <<client, dependencies, dependents, queues, current, aborts>>
    BY <1>2
  <1> QED BY <1>2, <1>3, <1>5, <1>6, <1>7, <1>8, <1>9, <1>10, <1>11, HandOutToReady

LEMMA AddToGlobalQueueKeepsIInv ==
  ASSUME IInv, NEW w \in Workers, AddToGlobalQueue(w)
  PROVE  IInv'
  <1>1. ClientType /\ MapType /\ WorkerType /\ RestType /\ QueueType
    BY TypeParts DEF IInv
  <1>2. /\ worker[w].pc = "addGlobal" /\ PushReady(plan)
        /\ status' = SetAll(status, plan, "ready") /\ plan' = <<>>
        /\ Goto(w, "idle")
        /\ UNCHANGED <<client, dependencies, dependents, queues, current, order, aborts>>
    BY DEF AddToGlobalQueue
  <1>3. MovesTo(w, "idle", worker[w].task)
    BY <1>1, <1>2, GotoMoves DEF PCs
  <1>4. /\ WorkerType' /\ worker'[w].pc = "idle"
        /\ worker'[w].pc \notin Holding \cup {"markReady"}
        /\ \A v \in Workers : worker'[v].task = worker[v].task
        /\ \A v \in Workers \ {w} : worker'[v] = worker[v]
    BY <1>3 DEF MovesTo, Holding
  <1>5. LockInv'
    BY <1>2, <1>4 DEF IInv, LockInv, Holding, Distributing, MutexFree
  <1>6. status' = [u \in Tasks |-> IF u \in ToSet(plan) THEN "ready" ELSE status[u]]
    BY <1>2 DEF SetAll
  <1>7. plan \in Seq(Tasks) /\ IsInjective(plan) /\ order' \in Seq(Workers)
    BY <1>1, <1>2 DEF RestType, IInv, PlaceInv
  <1>8. plan' \in Seq(Tasks) /\ IsInjective(plan') /\ ToSet(plan') = ToSet(plan) \ ToSet(plan)
    BY <1>2, EmptyFacts
  <1>9. worker[w].pc \in Distributing \ {"markReady"}
    BY <1>2 DEF Distributing
  <1>10. UNCHANGED <<client, dependencies, dependents, queues, current, aborts>>
    BY <1>2
  <1> QED BY <1>2, <1>4, <1>5, <1>6, <1>7, <1>8, <1>9, <1>10, HandOutToReady

LEMMA DistributionDoneKeepsIInv ==
  ASSUME IInv, NEW w \in Workers, DistributionDone(w)
  PROVE  IInv'
  <1>1. ClientType /\ MapType /\ WorkerType /\ RestType /\ QueueType
    BY TypeParts DEF IInv
  <1>2. /\ worker[w].pc = "distribute" /\ plan = <<>> /\ order' = <<>>
        /\ Goto(w, "idle")
        /\ UNCHANGED <<client, taskMaps, queues, readyQueue, current, plan, aborts>>
    BY DEF DistributionDone
  <1>3. MovesTo(w, "idle", worker[w].task)
    BY <1>1, <1>2, GotoMoves DEF PCs
  <1>4. /\ WorkerType' /\ worker'[w].pc = "idle"
        /\ \A v \in Workers :
             worker'[v].task = worker[v].task /\ (v # w => worker'[v] = worker[v])
    BY <1>3 DEF MovesTo
  <1>5. SetupOK(setup)' /\ ClientType' /\ MapType' /\ GraphInv' /\ BatchInv' /\ OrderInv'
        /\ WaitInv'
    BY <1>2, MapsFrame
  <1>6. UNCHANGED <<QueueCapacity, ReadyCapacity, MaxAborts>>
        /\ (HasRoom(setup)' => HasRoom(setup))
    BY <1>2, SetupFixed DEF client
  <1>7. TypeOK'
    <2>1. QueueType'
      BY <1>1, <1>2, <1>6 DEF QueueType
    <2>2. RestType'
      BY <1>1, <1>2, <1>6 DEF RestType
    <2> QED BY <1>4, <1>5, <2>1, <2>2, TypeParts, PTL
  <1>13. Pushed' = Pushed
    BY <1>2, <1>4, PushedFrame
  <1>8. LockInv'
    BY <1>2, <1>4 DEF IInv, LockInv, Holding, Distributing, MutexFree
  <1>9. PlaceInv'
    BY <1>2, <1>4 DEF IInv, PlaceInv
  <1>10. StatusInv'
    BY <1>2, <1>4, <1>13 DEF IInv, StatusInv, taskMaps
  <1>11. ReadyInv'
    BY <1>2, <1>4, <1>6, <1>13 DEF IInv, ReadyInv, taskMaps
  <1>12. WorkerStatusAccurate'
    BY <1>2, <1>4 DEF IInv, WorkerStatusAccurate, taskMaps
  <1> QED BY <1>5, <1>7, <1>8, <1>9, <1>10, <1>11, <1>12 DEF IInv

--------------------------------------------------------------------------------
(* The client *)

LEMMA ClientKeepsIInv ==
  ASSUME IInv, AddTasksCheck \/ Close
  PROVE  IInv'
  <1>1. /\ UNCHANGED <<setup, batch, status, dependencies, dependents, queues, readyQueue,
                       current, worker, plan, order, aborts>>
        /\ adding' => adding \/ batch <= Len(Batches)
    BY DEF AddTasksCheck, Close, taskMaps
  <1>2. ClientType /\ MapType /\ WorkerType /\ RestType /\ QueueType
    BY TypeParts DEF IInv
  <1>3. UNCHANGED <<QueueCapacity, ReadyCapacity, Batches, declared, MaxAborts, Cyclic,
                    DependencyAnalysis>>
        /\ SetupOK(setup)' /\ OnceEach(setup)' /\ (HasRoom(setup)' => HasRoom(setup))
    BY <1>1, SetupFixed DEF IInv, BatchInv
  <1>4. TypeOK'
    <2>1. ClientType'
      <3>1. adding' \in BOOLEAN /\ shutdown' \in BOOLEAN
        BY <1>2, Zenon DEF ClientType, AddTasksCheck, Close
      <3>2. batch' \in 1 .. Len(Batches') + 1
        BY <1>1, <1>2, <1>3 DEF ClientType
      <3> QED BY <3>1, <3>2, Zenon DEF ClientType
    <2>2. MapType'
      BY <1>1, <1>2 DEF MapType
    <2>3. QueueType'
      BY <1>1, <1>2, <1>3 DEF QueueType
    <2>4. RestType'
      BY <1>1, <1>2, <1>3 DEF RestType
    <2>5. WorkerType'
      BY <1>1, <1>2 DEF WorkerType
    <2> QED BY <2>1, <2>2, <2>3, <2>4, <2>5, TypeParts, PTL
  <1>5. LockInv' /\ PlaceInv' /\ StatusInv' /\ WorkerStatusAccurate'
    BY <1>1 DEF IInv, LockInv, PlaceInv, StatusInv, WorkerStatusAccurate, MutexFree,
              Pushed
  <1>6. ReadyInv'
    BY <1>1, <1>3 DEF IInv, ReadyInv, Pushed
  <1>7. GraphInv'
    BY <1>1, <1>3 DEF IInv, GraphInv
  <1>8. BatchInv'
    BY <1>1, <1>3 DEF IInv, BatchInv
  <1>9. OrderInv'
    BY <1>1 DEF IInv, OrderInv, IsTaskReady
  <1>10. WaitInv'
    BY <1>1, <1>3 DEF IInv, WaitInv, IsTaskReady
  <1> QED BY <1>3, <1>4, <1>5, <1>6, <1>7, <1>8, <1>9, <1>10 DEF IInv

(* What a batch without repetitions adds to the dependents of d. *)
LEMMA EntriesFacts ==
  ASSUME SetupOK(setup), OnceEach(setup), NEW tasks \in Seq(Tasks), IsInjective(tasks),
         NEW d \in Tasks
  PROVE  /\ Entries(tasks, d) \in Seq(Tasks) /\ IsInjective(Entries(tasks, d))
         /\ ToSet(Entries(tasks, d)) = {t \in ToSet(tasks) : d \in ToSet(declared[t])}
  <1> DEFINE sel(i) == Select(declared[tasks[i]], {d})
             part(i) == [k \in DOMAIN sel(i) |-> tasks[i]]
             parts == [i \in DOMAIN tasks |-> part(i)]
  <1>1. ASSUME NEW i \in DOMAIN tasks
        PROVE  /\ tasks[i] \in Tasks /\ part(i) \in Seq(Tasks) /\ IsInjective(part(i))
               /\ ToSet(part(i)) = IF d \in ToSet(declared[tasks[i]]) THEN {tasks[i]} ELSE {}
    <2>1. tasks[i] \in Tasks
      OBVIOUS
    <2>2. declared[tasks[i]] \in Seq(Tasks) /\ IsInjective(declared[tasks[i]])
      BY <2>1 DEF SetupOK, OnceEach, declared
    <2>3. /\ sel(i) \in Seq(Tasks) /\ IsInjective(sel(i))
          /\ ToSet(sel(i)) = ToSet(declared[tasks[i]]) \cap {d}
      BY <2>2, SelectFacts
    <2> HIDE DEF sel
    <2>4. \A j, k \in DOMAIN sel(i) : j = k
      <3>1. \A k \in DOMAIN sel(i) : sel(i)[k] \in ToSet(sel(i))
        BY DEF ToSet
      <3>2. \A k \in DOMAIN sel(i) : sel(i)[k] = d
        BY <2>3, <3>1
      <3> QED BY <2>3, <3>2 DEF IsInjective
    <2>5. DOMAIN sel(i) = 1 .. Len(sel(i)) /\ Len(sel(i)) \in Nat
      BY <2>3
    <2>6. part(i) \in Seq(Tasks) /\ IsInjective(part(i))
      BY <2>1, <2>4, <2>5 DEF IsInjective
    <2>7. ToSet(part(i)) = IF DOMAIN sel(i) # {} THEN {tasks[i]} ELSE {}
      BY DEF ToSet
    <2>8. DOMAIN sel(i) # {} <=> d \in ToSet(declared[tasks[i]])
      <3>1. DOMAIN sel(i) # {} <=> ToSet(sel(i)) # {}
        BY DEF ToSet
      <3> QED BY <2>3, <3>1
    <2> QED BY <2>1, <2>6, <2>7, <2>8
  <1> HIDE DEF part
  <1>2. DOMAIN tasks = 1 .. Len(tasks) /\ Len(tasks) \in Nat
    OBVIOUS
  <1>3. parts \in Seq(Seq(Tasks)) /\ Len(parts) = Len(tasks)
        /\ \A i \in 1 .. Len(tasks) : parts[i] = part(i)
    BY <1>1, <1>2
  <1>4. Entries(tasks, d) = FlattenSeq(parts)
    BY DEF Entries, part
  <1> HIDE DEF parts
  <1>5. \A i \in 1 .. Len(parts) : IsInjective(parts[i])
    BY <1>1, <1>2, <1>3
  <1>6. ASSUME NEW i \in 1 .. Len(parts), NEW j \in 1 .. Len(parts), i # j
        PROVE  ToSet(parts[i]) \cap ToSet(parts[j]) = {}
    <2>1. tasks[i] # tasks[j]
      BY <1>2, <1>3, <1>6 DEF IsInjective
    <2>2. ToSet(parts[i]) \subseteq {tasks[i]} /\ ToSet(parts[j]) \subseteq {tasks[j]}
      BY <1>1, <1>2, <1>3
    <2> QED BY <2>1, <2>2
  <1>7. /\ FlattenSeq(parts) \in Seq(Tasks) /\ IsInjective(FlattenSeq(parts))
        /\ ToSet(FlattenSeq(parts)) = UNION {ToSet(parts[i]) : i \in 1 .. Len(parts)}
    BY <1>3, <1>5, <1>6, FlattenFacts
  <1>8. UNION {ToSet(parts[i]) : i \in 1 .. Len(parts)} =
          {t \in ToSet(tasks) : d \in ToSet(declared[t])}
    <2>1. \A i \in 1 .. Len(parts) :
            ToSet(parts[i]) = IF d \in ToSet(declared[tasks[i]]) THEN {tasks[i]} ELSE {}
      BY <1>1, <1>2, <1>3
    <2>2. ToSet(tasks) = {tasks[i] : i \in 1 .. Len(parts)}
      BY <1>2, <1>3 DEF ToSet
    <2>3. ASSUME NEW t \in UNION {ToSet(parts[i]) : i \in 1 .. Len(parts)}
          PROVE  t \in ToSet(tasks) /\ d \in ToSet(declared[t])
      <3>1. PICK i \in 1 .. Len(parts) : t \in ToSet(parts[i])
        OBVIOUS
      <3>2. d \in ToSet(declared[tasks[i]]) /\ t = tasks[i]
        BY <2>1, <3>1
      <3> QED BY <2>2, <3>2
    <2>4. ASSUME NEW t \in ToSet(tasks), d \in ToSet(declared[t])
          PROVE  t \in UNION {ToSet(parts[i]) : i \in 1 .. Len(parts)}
      <3>1. PICK i \in 1 .. Len(parts) : t = tasks[i]
        BY <2>2
      <3>2. t \in ToSet(parts[i])
        BY <2>1, <2>4, <3>1
      <3> QED BY <3>2
    <2> QED BY <2>3, <2>4
  <1> QED BY <1>4, <1>7, <1>8

(* A cycle among some of the tasks is one among all. *)
LEMMA CycleFacts ==
  ASSUME NEW deps \in [Tasks -> Seq(Tasks)], NEW graph \in [Tasks -> Seq(Tasks)],
         \A t \in Tasks : deps[t] = <<>> \/ deps[t] = graph[t],
         NEW roots, CycleBelow(deps, roots)
  PROVE  CycleBelow(graph, Tasks)
  <1>1. PICK C \in (SUBSET Reachable(deps, roots)) \ {{}} :
               \A t \in C : \E d \in C : Contains(deps[t], d)
    BY DEF CycleBelow
  <1>2. C \in (SUBSET Tasks) \ {{}}
    BY <1>1 DEF Reachable
  <1>3. Tasks \subseteq Reachable(graph, Tasks)
    BY DEF Reachable
  <1>4. ASSUME NEW t \in C
        PROVE  \E d \in C : Contains(graph[t], d)
    <2>1. PICK d \in C : Contains(deps[t], d)
      BY <1>1
    <2>2. deps[t] # <<>>
      BY <2>1 DEF Contains
    <2>3. deps[t] = graph[t]
      BY <1>2, <2>2
    <2> QED BY <2>1, <2>3
  <1> QED BY <1>2, <1>3, <1>4 DEF CycleBelow

LEMMA AddTasksKeepsIInv ==
  ASSUME IInv, AddTasks
  PROVE  IInv'
  <1> DEFINE tasks == Batches[batch]
             T == ToSet(tasks)
             st == SetAll(status, tasks, "pending")
             deps == [t \in Tasks |-> IF t \in T THEN declared[t] ELSE dependencies[t]]
             S == {t \in Tasks : IsTaskReady(st, deps, t)}
             readyTasks == Select(tasks, S)
             rejected == DependencyAnalysis /\ CycleBelow(deps, T)
             pushed == IF rejected THEN <<>> ELSE readyTasks
             R == ToSet(pushed)
  <1>1. ClientType /\ MapType /\ WorkerType /\ RestType /\ QueueType
        /\ SetupOK(setup) /\ OnceEach(setup)
    BY TypeParts DEF IInv, BatchInv
  <1>2. /\ adding /\ MutexFree
        /\ dependencies' = deps
        /\ dependents' = [d \in Tasks |-> dependents[d] \o Entries(tasks, d)]
        /\ adding' = FALSE /\ batch' = batch + 1
        /\ UNCHANGED <<setup, shutdown, queues, current, worker, plan, order, aborts>>
    BY Zenon DEF AddTasks
  <1>3. /\ rejected => status' = st /\ readyQueue' = readyQueue
        /\ ~ rejected => status' = SetAll(st, readyTasks, "ready") /\ PushReady(readyTasks)
    BY DEF AddTasks
  <1>4. /\ Batches \in Seq(Seq(Tasks)) /\ batch \in 1 .. Len(Batches) /\ batch \in DOMAIN Batches
        /\ declared \in [Tasks -> Seq(Tasks)]
    BY <1>1, <1>2 DEF ClientType, IInv, BatchInv, SetupOK, Batches, declared
  <1>5. tasks \in Seq(Tasks) /\ IsInjective(tasks) /\ T \subseteq Tasks
    <2>1. tasks \in Seq(Tasks)
      BY <1>4
    <2>2. IsInjective(tasks)
      BY <1>1, <1>4 DEF OnceEach, Batches
    <2> QED BY <2>1, <2>2 DEF ToSet
  <1>6. \A t \in T : status[t] = "unknown" /\ dependencies[t] = <<>>
    <2>1. \A t \in T : status[t] = "unknown"
      BY <1>4 DEF IInv, BatchInv
    <2> QED BY <1>5, <2>1 DEF IInv, GraphInv
  <1>7. plan = <<>> /\ Pushed = {} /\ Pushed' = {}
    <2>1. plan = <<>>
      BY <1>2 DEF IInv, LockInv
    <2> QED BY <1>2, <2>1 DEF Pushed
  <1>8. /\ st \in [Tasks -> Statuses]
        /\ \A t \in Tasks : st[t] = IF t \in T THEN "pending" ELSE status[t]
    BY <1>1, <1>5 DEF SetAll, MapType, Statuses
  <1>9. /\ deps \in [Tasks -> Seq(Tasks)]
        /\ \A t \in T : deps[t] = declared[t]
        /\ \A t \in Tasks \ T : deps[t] = dependencies[t]
    BY <1>1, <1>4, <1>5 DEF MapType
  <1> HIDE DEF tasks, T, st, deps
  <1>10. readyTasks \in Seq(Tasks) /\ IsInjective(readyTasks) /\ ToSet(readyTasks) = T \cap S
    <2> HIDE DEF S
    <2> QED BY <1>5, SelectFacts DEF T
  <1> HIDE DEF readyTasks, rejected
  <1>11. /\ pushed \in Seq(Tasks) /\ IsInjective(pushed) /\ R \subseteq T \cap S
         /\ ~ rejected => R = T \cap S
    BY <1>10, EmptyFacts
  <1>12. status' = SetAll(st, pushed, "ready")
    <2>1. CASE rejected
      <3>1. pushed = <<>> /\ status' = st
        BY <1>3, <2>1
      <3> QED BY <1>8, <3>1, EmptyFacts DEF SetAll
    <2>2. CASE ~ rejected
      BY <1>3, <2>2
    <2> QED BY <2>1, <2>2
  <1>13. /\ status' \in [Tasks -> Statuses]
         /\ \A t \in Tasks : status'[t] = IF t \in R THEN "ready"
                                          ELSE IF t \in T THEN "pending" ELSE status[t]
    BY <1>8, <1>11, <1>12 DEF SetAll, Statuses
  <1>14. UNCHANGED <<QueueCapacity, ReadyCapacity, Batches, declared, MaxAborts, Cyclic,
                     DependencyAnalysis>>
         /\ SetupOK(setup)' /\ OnceEach(setup)' /\ (HasRoom(setup)' => HasRoom(setup))
    BY <1>1, <1>2, SetupFixed
  <1>15. /\ \A v \in Workers : ToSet(queues[v]) \cap T = {} /\ worker[v].task \notin T
         /\ ToSet(readyQueue) \cap T = {}
    <2>1. \A v \in Workers : worker[v].task # NoTask => status[worker[v].task] # "unknown"
      BY <1>7 DEF IInv, LockInv, StatusInv, WorkerStatusAccurate, Holding
    <2>2. NoTask \notin T
      BY <1>5, NoTaskAssumption
    <2> QED BY <1>6, <1>7, <2>1, <2>2 DEF IInv, StatusInv
  <1>16. /\ readyQueue' \in Seq(Tasks) /\ Len(readyQueue') <= ReadyCapacity
         /\ IsInjective(readyQueue')
         /\ ToSet(readyQueue') \subseteq ToSet(readyQueue) \cup R
         /\ HasRoom(setup) => ToSet(readyQueue') = ToSet(readyQueue) \cup R
    <2>1. /\ readyQueue \in Seq(Tasks) /\ Len(readyQueue) <= ReadyCapacity
          /\ IsInjective(readyQueue)
      BY <1>1 DEF QueueType, IInv, PlaceInv
    <2>2. CASE rejected
      <3>1. readyQueue' = readyQueue /\ R = {}
        BY <1>3, <2>2, EmptyFacts
      <3> QED BY <2>1, <3>1
    <2>3. CASE ~ rejected
      <3>1. PushReady(readyTasks) /\ R = ToSet(readyTasks)
        BY <1>3, <2>3
      <3>2. ToSet(readyQueue) \cap ToSet(readyTasks) = {}
        BY <1>10, <1>15
      <3> HIDE DEF pushed, R
      <3> QED BY <1>1, <1>10, <2>1, <3>1, <3>2, PushFacts
    <2> QED BY <2>2, <2>3
  <1> HIDE DEF pushed, R
  <1>17. ASSUME NEW d \in Tasks
         PROVE  /\ dependents'[d] \in Seq(Tasks) /\ IsInjective(dependents'[d])
                /\ ToSet(dependents'[d]) =
                     ToSet(dependents[d]) \cup {t \in T : d \in ToSet(declared[t])}
    <2>1. /\ Entries(tasks, d) \in Seq(Tasks) /\ IsInjective(Entries(tasks, d))
          /\ ToSet(Entries(tasks, d)) = {t \in T : d \in ToSet(declared[t])}
      BY <1>1, <1>5, EntriesFacts DEF T
    <2>2. dependents[d] \in Seq(Tasks) /\ IsInjective(dependents[d])
      BY <1>1 DEF MapType, IInv, GraphInv
    <2>3. ToSet(dependents[d]) \cap T = {}
      <3>1. ToSet(<<>>) = {}
        BY EmptyFacts
      <3> QED BY <1>5, <1>6, <3>1 DEF IInv, GraphInv
    <2>4. dependents'[d] = dependents[d] \o Entries(tasks, d)
      BY <1>2
    <2> QED BY <2>1, <2>2, <2>3, <2>4, ConcatFacts
  <1>18. TypeOK'
    <2>1. ClientType'
      <3>1. batch' \in 1 .. Len(Batches') + 1
        BY <1>2, <1>4, <1>14
      <3>2. adding' \in BOOLEAN /\ shutdown' \in BOOLEAN
        BY <1>1, <1>2, Zenon DEF ClientType
      <3> QED BY <3>1, <3>2, Zenon DEF ClientType
    <2>2. MapType'
      <3>1. dependents' \in [Tasks -> Seq(Tasks)]
        BY <1>2, <1>17
      <3> QED BY <1>2, <1>9, <1>13, <3>1 DEF MapType
    <2>3. QueueType'
      BY <1>1, <1>2, <1>14, <1>16 DEF QueueType
    <2>4. RestType'
      BY <1>1, <1>2, <1>14 DEF RestType
    <2>5. WorkerType'
      BY <1>1, <1>2 DEF WorkerType
    <2> QED BY <2>1, <2>2, <2>3, <2>4, <2>5, TypeParts, PTL
  <1>19. LockInv'
    BY <1>2 DEF IInv, LockInv, MutexFree
  <1>20. PlaceInv'
    BY <1>2, <1>11, <1>15, <1>16 DEF IInv, PlaceInv
  <1>21. StatusInv'
    <2>1. ASSUME NEW t \in ToSet(readyQueue')
          PROVE  status'[t] = "ready"
      <3>1. t \in Tasks
        BY <1>16 DEF ToSet
      <3>2. t \in R \/ (t \in ToSet(readyQueue) /\ t \notin T)
        BY <1>15, <1>16
      <3> QED BY <1>7, <1>13, <3>1, <3>2 DEF IInv, StatusInv
    <2>2. ASSUME NEW v \in Workers, NEW t \in ToSet(queues'[v])
          PROVE  status'[t] = "ready"
      <3>1. t \in Tasks
        BY <1>1, <1>2 DEF QueueType, ToSet
      <3>2. t \in ToSet(queues[v]) /\ t \notin T /\ t \notin R
        BY <1>2, <1>11, <1>15
      <3> QED BY <1>7, <1>13, <3>1, <3>2 DEF IInv, StatusInv
    <2>3. ASSUME NEW v \in Workers, worker'[v].pc \in {"assign", "setRunning"}
          PROVE  status'[worker'[v].task] = "ready"
      <3>1. worker[v].task \in Tasks /\ status[worker[v].task] = "ready"
        BY <1>1, <1>2, <1>7, <2>3 DEF IInv, StatusInv, LockInv, Holding, WorkerType
      <3> QED BY <1>2, <1>11, <1>13, <1>15, <3>1
    <2>4. ASSUME NEW t \in Tasks, status'[t] = "running"
          PROVE  \E v \in Workers : worker'[v].pc = "running" /\ worker'[v].task = t
      <3>1. status[t] = "running"
        BY <1>13, <2>4
      <3> QED BY <1>2, <3>1 DEF IInv, StatusInv
    <2>5. ToSet(plan') = {}
      BY <1>2, <1>7, EmptyFacts
    <2> QED BY <2>1, <2>2, <2>3, <2>4, <2>5 DEF StatusInv
  <1>22. ReadyInv'
    <2> SUFFICES ASSUME HasRoom(setup), NEW t \in Tasks, status'[t] = "ready"
                 PROVE  \/ t \in ToSet(readyQueue')
                        \/ \E v \in Workers : t \in ToSet(queues[v]) \/ worker[v].task = t
      BY <1>2, <1>7, <1>14 DEF ReadyInv
    <2>1. CASE t \in R
      BY <1>16, <2>1
    <2>2. CASE t \notin R
      <3>1. status[t] = "ready"
        BY <1>13, <2>2
      <3> QED BY <1>16, <3>1 DEF IInv, ReadyInv
    <2> QED BY <2>1, <2>2
  <1>23. GraphInv'
    <2>1. ASSUME NEW t \in Tasks, NEW d \in Tasks
          PROVE  t \in ToSet(dependents'[d]) <=> d \in ToSet(dependencies'[t])
      <3>1. t \in ToSet(dependents[d]) <=> d \in ToSet(dependencies[t])
        BY DEF IInv, GraphInv
      <3>2. CASE t \in T
        <4>1. t \notin ToSet(dependents[d])
          BY <1>6, <3>1, <3>2, EmptyFacts
        <4> QED BY <1>2, <1>9, <1>17, <3>2, <4>1
      <3>3. CASE t \notin T
        BY <1>2, <1>9, <1>17, <3>1, <3>3
      <3> QED BY <3>2, <3>3
    <2>2. ASSUME NEW t \in Tasks, status'[t] = "unknown"
          PROVE  dependencies'[t] = <<>>
      BY <1>2, <1>9, <1>11, <1>13, <2>2 DEF IInv, GraphInv
    <2>3. ASSUME aborts' = 0, NEW t \in Tasks, status'[t] # "unknown"
          PROVE  dependencies'[t] = declared'[t]
      <3>1. CASE t \in T
        BY <1>2, <1>9, <1>14, <3>1
      <3>2. CASE t \notin T
        BY <1>2, <1>9, <1>11, <1>13, <1>14, <2>3, <3>2 DEF IInv, GraphInv
      <3> QED BY <3>1, <3>2
    <2>4. \A d \in Tasks : IsInjective(dependents'[d])
      BY <1>17
    <2> QED BY <2>1, <2>2, <2>3, <2>4 DEF GraphInv
  <1>24. BatchInv'
    <2>1. ASSUME NEW b \in batch' .. Len(Batches'), NEW t \in ToSet(Batches'[b])
          PROVE  status'[t] = "unknown"
      <3>1. b \in batch .. Len(Batches) /\ b \in DOMAIN Batches /\ b # batch
        BY <1>2, <1>4, <1>14
      <3>2. t \in ToSet(Batches[b]) /\ status[t] = "unknown"
        BY <1>14, <3>1 DEF IInv, BatchInv
      <3>3. t \notin T
        BY <1>1, <1>4, <3>1, <3>2 DEF OnceEach, Batches, T, tasks
      <3>4. t \in Tasks
        <4>1. Batches[b] \in Seq(Tasks)
          BY <1>4, <3>1
        <4> QED BY <3>2, <4>1 DEF ToSet
      <3> QED BY <1>11, <1>13, <3>2, <3>3, <3>4
    <2> QED BY <1>2, <1>14, <2>1 DEF BatchInv
  <1>25. \A t \in Tasks : status'[t] = "completed" <=> status[t] = "completed"
    BY <1>6, <1>11, <1>13
  <1>26. \A t \in Tasks : st[t] = "completed" <=> status[t] = "completed"
    BY <1>6, <1>8
  <1>27. \A t \in Tasks : IsTaskReady(status', deps, t) <=> IsTaskReady(st, deps, t)
    BY <1>8, <1>9, <1>13, <1>25, <1>26, ReadyByCompleted
  <1>28. \A t \in Tasks \ T : IsTaskReady(status', deps, t) <=> IsTaskReady(status, dependencies, t)
    <2>1. \A t \in Tasks : IsTaskReady(status', deps, t) <=> IsTaskReady(status, deps, t)
      BY <1>1, <1>9, <1>13, <1>25, ReadyByCompleted DEF MapType
    <2> QED BY <1>9, <2>1 DEF IsTaskReady
  <1>29. OrderInv'
    <2>1. ASSUME NEW t \in Tasks, status'[t] \in {"ready", "running"} \/ t \in ToSet(plan')
          PROVE  IsTaskReady(status', deps, t)
      <3>1. status'[t] \in {"ready", "running"}
        BY <1>2, <1>7, <2>1, EmptyFacts
      <3>2. CASE t \in R
        BY <1>11, <1>27, <3>2
      <3>3. CASE t \notin R
        <4>1. t \notin T /\ status[t] \in {"ready", "running"}
          BY <1>13, <3>1, <3>3
        <4> QED BY <1>28, <4>1 DEF IInv, OrderInv
      <3> QED BY <3>2, <3>3
    <2> QED BY <1>2, <2>1 DEF OrderInv
  <1>30. WaitInv'
    <2> SUFFICES ASSUME aborts = 0, NEW t \in Tasks, status'[t] = "pending",
                        IsTaskReady(status', deps, t)
                 PROVE  DependencyAnalysis /\ Cyclic
      BY <1>2, <1>14 DEF WaitInv
    <2>1. CASE t \in T
      <3>1. t \in T \cap S
        BY <1>27, <2>1
      <3>2. rejected
        BY <1>11, <1>13, <3>1
      <3>3. \A u \in Tasks : deps[u] = <<>> \/ deps[u] = setup.graph[u]
        BY <1>9 DEF IInv, GraphInv, declared
      <3>4. setup.graph \in [Tasks -> Seq(Tasks)]
        BY <1>1 DEF SetupOK
      <3> QED BY <1>9, <3>2, <3>3, <3>4, CycleFacts DEF rejected, Cyclic
    <2>2. CASE t \notin T
      <3>1. status[t] = "pending" /\ IsTaskReady(status, dependencies, t)
        BY <1>13, <1>28, <2>2
      <3> QED BY <1>7, <3>1, EmptyFacts DEF IInv, WaitInv
    <2> QED BY <2>1, <2>2
  <1>31. WorkerStatusAccurate'
    <2>1. ASSUME NEW v \in Workers, worker'[v].pc = "running"
          PROVE  status'[worker'[v].task] = "running"
      <3>1. worker[v].task \in Tasks /\ status[worker[v].task] = "running"
        BY <1>1, <1>2, <2>1 DEF IInv, WorkerStatusAccurate, LockInv, Holding, WorkerType
      <3> QED BY <1>2, <1>11, <1>13, <1>15, <3>1
    <2> QED BY <1>2, <2>1 DEF IInv, WorkerStatusAccurate
  <1> QED BY <1>14, <1>18, <1>19, <1>20, <1>21, <1>22, <1>23, <1>24, <1>29, <1>30, <1>31
          DEF IInv

--------------------------------------------------------------------------------
(* The theorems *)

LEMMA StutterKeepsIInv ==
  ASSUME IInv, UNCHANGED vars
  PROVE  IInv'
  <1>1. UNCHANGED <<setup, batch, adding, shutdown, status, dependencies, dependents, queues,
                    readyQueue, current, worker, plan, order, aborts>>
    BY DEF vars, taskMaps
  <1>2. ClientType /\ MapType /\ WorkerType /\ RestType /\ QueueType
    BY TypeParts DEF IInv
  <1>3. SetupOK(setup)' /\ ClientType' /\ MapType' /\ GraphInv' /\ BatchInv' /\ OrderInv'
        /\ WaitInv'
    BY <1>1, MapsFrame DEF client, taskMaps
  <1>4. UNCHANGED <<QueueCapacity, ReadyCapacity, MaxAborts>>
        /\ (HasRoom(setup)' => HasRoom(setup))
    BY <1>1, SetupFixed
  <1>5. QueueType' /\ RestType' /\ WorkerType'
    BY <1>1, <1>2, <1>4 DEF QueueType, RestType, WorkerType
  <1>6. TypeOK'
    BY <1>3, <1>5, TypeParts, PTL
  <1>7. LockInv' /\ PlaceInv' /\ StatusInv' /\ WorkerStatusAccurate'
    BY <1>1 DEF IInv, LockInv, PlaceInv, StatusInv, WorkerStatusAccurate, MutexFree,
              Pushed
  <1>8. ReadyInv'
    BY <1>1, <1>4 DEF IInv, ReadyInv, Pushed
  <1> QED BY <1>3, <1>6, <1>7, <1>8 DEF IInv

LEMMA NextKeepsIInv ==
  ASSUME IInv, [Next]_vars
  PROVE  IInv'
  <1>1. ASSUME NEW w \in Workers, WorkerStep(w)
        PROVE  IInv'
    BY <1>1, SearchStepsKeepIInv, PopBottomKeepsIInv, PopReadyKeepsIInv, StealKeepsIInv,
       AssignCurrentKeepsIInv, SetRunningKeepsIInv, CompleteTaskKeepsIInv,
       SortWorkersKeepsIInv, PushToWorkerKeepsIInv, MarkReadyKeepsIInv, OverflowToReadyKeepsIInv,
       DistributionDoneKeepsIInv, AddToGlobalQueueKeepsIInv, AbortTaskKeepsIInv, Zenon
       DEF WorkerStep
  <1> QED BY <1>1, ClientKeepsIInv, AddTasksKeepsIInv, StutterKeepsIInv DEF Next

(* The clients' part of the theorems: no task is submitted twice. *)
TasksSubmittedOnce == \A s \in Setups : OnceEach(s)

LEMMA SetupUnchanged ==
  ASSUME [Next]_vars
  PROVE  UNCHANGED setup
  BY ZenonT(30) DEF Next, vars, client, WorkerStep, AddTasksCheck, AddTasks, Close, NextTask, PopBottom,
         OwnQueueEmpty, PopReady, ReadyQueueEmpty, Steal, StealMiss, AssignCurrent,
         SetRunning, CompleteTask, SortWorkers, PushToWorker, MarkReady, OverflowToReady,
         DistributionDone, AddToGlobalQueue, AbortTask

\* What the specification says under every such setup.
LEMMA Invariance ==
  ASSUME TasksSubmittedOnce
  PROVE  Spec => [](IInv /\ setup \in Setups)
  <1>1. Init => IInv /\ setup \in Setups
    BY InitIInv DEF TasksSubmittedOnce, Init
  <1>2. IInv /\ setup \in Setups /\ [Next]_vars => (IInv /\ setup \in Setups)'
    <2> SUFFICES ASSUME IInv, setup \in Setups, [Next]_vars
                 PROVE  (IInv /\ setup \in Setups)'
      OBVIOUS
    <2>1. UNCHANGED setup
      BY SetupUnchanged
    <2> QED BY <2>1, NextKeepsIInv
  <1> QED BY <1>1, <1>2, PTL DEF Spec

(* Statuses, queues, hands, plan and graph fit together in every reachable state. *)
THEOREM Consistency ==
  ASSUME TasksSubmittedOnce
  PROVE  Spec => []IInv
  BY Invariance, PTL

(* The variables keep their types and the queues their capacities. *)
THEOREM TypeCorrectness ==
  ASSUME TasksSubmittedOnce
  PROVE  Spec => []TypeOK
  <1>1. IInv => TypeOK
    BY DEF IInv
  <1> QED BY <1>1, Consistency, PTL

(* CurrentTask is what the worker executes. *)
THEOREM CurrentTaskIsAccurate ==
  ASSUME TasksSubmittedOnce
  PROVE  Spec => []WorkerStatusAccurate
  <1>1. IInv => WorkerStatusAccurate
    BY DEF IInv
  <1> QED BY <1>1, Consistency, PTL

(* No completion is missed: a pending task waits for one that is not completed. *)
THEOREM NoCompletionIsMissed ==
  ASSUME TasksSubmittedOnce
  PROVE  Spec => []PendingWaits
  <1>1. IInv => PendingWaits
    <2> SUFFICES ASSUME IInv, MutexFree, aborts = 0, NEW t \in Tasks, status[t] = "pending",
                        ~ (DependencyAnalysis /\ Cyclic)
                 PROVE  \E d \in ToSet(dependencies[t]) : status[d] # "completed"
      BY DEF PendingWaits
    <2>1. plan = <<>>
      BY DEF IInv, LockInv
    <2>2. t \notin ToSet(plan)
      BY <2>1, EmptyFacts
    <2> QED BY <2>2 DEF IInv, WaitInv, IsTaskReady
  <1> QED BY <1>1, Consistency, PTL

--------------------------------------------------------------------------------
(* Every task is in one place *)

LEMMA AtMostOne ==
  ASSUME NEW S, \A p, q \in S : p = q
  PROVE  Cardinality(S) = IF S = {} THEN 0 ELSE 1
  <1>1. CASE S = {}
    BY <1>1, FS_EmptySet
  <1>2. CASE S # {}
    <2>1. PICK p \in S : S = {p}
      BY <1>2
    <2> QED BY <1>2, <2>1, FS_Singleton
  <1> QED BY <1>1, <1>2

LEMMA PlacesOfTask ==
  ASSUME IInv, HasRoom(setup), NEW t \in Tasks
  PROVE  Copies(t) = IF status[t] \in {"ready", "running"} \/ Contains(plan, t) THEN 1 ELSE 0
  <1> DEFINE held == {<<"held", w, 0>> : w \in {v \in Workers : worker[v].task = t}}
             global == {<<"global", 0, i>> :
                          i \in {j \in DOMAIN readyQueue : readyQueue[j] = t}}
             planned == {<<"plan", 0, i>> :
                          i \in {j \in DOMAIN plan : plan[j] = t /\ t \notin Pushed}}
             queued == UNION {{<<"queue", w, i>> :
                                 i \in {j \in DOMAIN queues[w] : queues[w][j] = t}} :
                              w \in Workers}
             places == held \cup global \cup planned \cup queued
  <1>1. \A w \in Workers : worker[w].task = t =>
           status[t] \in {"ready", "running"} \/ t \in Pushed
    BY NoTaskAssumption DEF IInv, LockInv, StatusInv, WorkerStatusAccurate, Holding
  <1>2. t \in ToSet(plan) => status[t] = "pending"
    BY DEF IInv, StatusInv
  <1>3. /\ t \in ToSet(readyQueue) => status[t] = "ready"
        /\ \A w \in Workers : t \in ToSet(queues[w]) => status[t] = "ready" \/ t \in Pushed
    BY DEF IInv, StatusInv
  <1>4. /\ t \in ToSet(readyQueue) <=> \E i \in DOMAIN readyQueue : readyQueue[i] = t
        /\ t \in ToSet(plan) <=> \E i \in DOMAIN plan : plan[i] = t
        /\ \A w \in Workers :
             t \in ToSet(queues[w]) <=> \E i \in DOMAIN queues[w] : queues[w][i] = t
    BY DEF ToSet
  <1>5. /\ held # {} <=> \E w \in Workers : worker[w].task = t
        /\ global # {} <=> t \in ToSet(readyQueue)
        /\ planned # {} <=> t \in ToSet(plan) \ Pushed
        /\ queued # {} <=> \E w \in Workers : t \in ToSet(queues[w])
    <2>1. held # {} <=> \E w \in Workers : worker[w].task = t
      OBVIOUS
    <2>2. global # {} <=> t \in ToSet(readyQueue)
      BY <1>4
    <2>3. planned # {} <=> t \in ToSet(plan) \ Pushed
      BY <1>4
    <2>4. queued # {} <=> \E w \in Workers : t \in ToSet(queues[w])
      <3>1. ASSUME NEW p \in queued
            PROVE  \E w \in Workers : t \in ToSet(queues[w])
        BY <1>4
      <3>2. ASSUME NEW w \in Workers, t \in ToSet(queues[w])
            PROVE  queued # {}
        <4>1. PICK i \in DOMAIN queues[w] : queues[w][i] = t
          BY <1>4, <3>2
        <4>2. <<"queue", w, i>> \in queued
          BY <4>1
        <4> QED BY <4>2
      <3> QED BY <3>1, <3>2
    <2> QED BY <2>1, <2>2, <2>3, <2>4
  <1>6. \A p, q \in held : p = q
    BY NoTaskAssumption DEF IInv, PlaceInv
  <1>7. \A p, q \in global : p = q
    BY DEF IInv, PlaceInv, IsInjective
  <1>8. \A p, q \in planned : p = q
    BY DEF IInv, PlaceInv, IsInjective
  <1>9. \A p, q \in queued : p = q
    <2> SUFFICES ASSUME NEW v \in Workers, NEW i \in DOMAIN queues[v], queues[v][i] = t,
                        NEW w \in Workers, NEW j \in DOMAIN queues[w], queues[w][j] = t
                 PROVE  v = w /\ i = j
      OBVIOUS
    <2>1. v = w
      <3>1. t \in ToSet(queues[v]) /\ t \in ToSet(queues[w])
        BY <1>4
      <3> QED BY <3>1 DEF IInv, PlaceInv
    <2>2. IsInjective(queues[v])
      BY DEF IInv, PlaceInv
    <2> QED BY <2>1, <2>2 DEF IsInjective
  <1>10. /\ held # {} => global = {} /\ planned = {} /\ queued = {}
         /\ global # {} => planned = {} /\ queued = {}
         /\ planned # {} => queued = {}
    <2> HIDE DEF held, global, planned, queued
    <2>1. \A w \in Workers : worker[w].task = t =>
            t \notin ToSet(readyQueue) /\ \A v \in Workers : t \notin ToSet(queues[v])
      BY DEF IInv, PlaceInv
    <2>2. t \in ToSet(readyQueue) => \A v \in Workers : t \notin ToSet(queues[v])
      BY DEF IInv, PlaceInv
    <2> QED BY <1>1, <1>2, <1>3, <1>5, <2>1, <2>2
  <1>11. Copies(t) = Cardinality(places)
    BY DEF Copies
  <1> HIDE DEF held, global, planned, queued
  <1>12. \A p, q \in places : p = q
    BY <1>6, <1>7, <1>8, <1>9, <1>10
  <1>13. places # {} <=> status[t] \in {"ready", "running"} \/ t \in ToSet(plan)
    <2>1. status[t] = "running" => \E w \in Workers : worker[w].task = t
      BY DEF IInv, StatusInv
    <2>2. status[t] = "ready" \/ t \in Pushed =>
                                 \/ t \in ToSet(readyQueue)
                                 \/ \E w \in Workers : t \in ToSet(queues[w])
                                 \/ \E w \in Workers : worker[w].task = t
      BY DEF IInv, ReadyInv
    <2>3. places # {} <=> held # {} \/ global # {} \/ planned # {} \/ queued # {}
      OBVIOUS
    <2>4. t \in Pushed => t \in ToSet(plan)
      BY PushedFacts
    <2> HIDE DEF places
    <2> QED BY <1>1, <1>3, <1>5, <2>1, <2>2, <2>3, <2>4
  <1>14. Contains(plan, t) <=> t \in ToSet(plan)
    <2>1. plan \in Seq(Tasks)
      BY TypeParts DEF IInv, RestType
    <2> QED BY <2>1 DEF Contains, ToSet
  <1>15. Cardinality(places) = IF places = {} THEN 0 ELSE 1
    <2> HIDE DEF places
    <2> QED BY <1>12, AtMostOne
  <1> HIDE DEF places
  <1> QED BY <1>11, <1>13, <1>14, <1>15

(* While it is ready or running a task is in one queue or one worker's hands, and in none *)
(* before and after.                                                                      *)
THEOREM NoTaskLostOrDuplicated ==
  ASSUME TasksSubmittedOnce, \A s \in Setups : HasRoom(s)
  PROVE  Spec => []OnePlace
  <1>1. IInv /\ setup \in Setups => OnePlace
    BY PlacesOfTask DEF OnePlace
  <1> QED BY <1>1, Invariance, PTL

--------------------------------------------------------------------------------
(* The scheduler implements TaskExecution *)

Submitted == {t \in Tasks : status[t] # "unknown"}
Executing == [w \in Workers |-> IF worker[w].pc = "running" THEN worker[w].task ELSE NoTask]
Done == {t \in Tasks : status[t] = "completed"}

LEMMA Unobserved ==
  ASSUME UNCHANGED <<dependencies, Submitted, Executing, Done>>
  PROVE  UNCHANGED Execution!vars
  BY DEF Execution!vars, Submitted, Executing, Done

(* Statuses that become neither unknown nor completed, nor were. *)
LEMMA StatusesUnobserved ==
  ASSUME \A t \in Tasks : /\ status'[t] = "unknown" <=> status[t] = "unknown"
                          /\ status'[t] = "completed" <=> status[t] = "completed"
  PROVE  UNCHANGED <<Submitted, Done>>
  BY DEF Submitted, Done

LEMMA StepsUnobserved ==
  ASSUME IInv, IInv', NEW w \in Workers,
         \/ NextTask(w) \/ PopBottom(w) \/ OwnQueueEmpty(w) \/ PopReady(w)
         \/ ReadyQueueEmpty(w) \/ Steal(w) \/ StealMiss(w) \/ AssignCurrent(w)
         \/ SortWorkers(w) \/ PushToWorker(w) \/ MarkReady(w) \/ OverflowToReady(w)
         \/ DistributionDone(w) \/ AddToGlobalQueue(w)
  PROVE  UNCHANGED Execution!vars
  <1>1. WorkerType /\ WorkerType' /\ MapType /\ RestType
    BY TypeParts, PTL DEF IInv
  <1>2. UNCHANGED dependencies
    BY DEF NextTask, PopBottom, OwnQueueEmpty, PopReady, ReadyQueueEmpty, Steal, StealMiss,
           AssignCurrent, SortWorkers, PushToWorker, MarkReady, OverflowToReady, DistributionDone,
           AddToGlobalQueue, taskMaps
  <1>3. /\ worker[w].pc # "running" /\ worker'[w].pc # "running"
        /\ \A v \in Workers \ {w} : worker'[v] = worker[v]
    BY <1>1 DEF NextTask, PopBottom, OwnQueueEmpty, PopReady, ReadyQueueEmpty, Steal, StealMiss,
           AssignCurrent, SortWorkers, PushToWorker, MarkReady, OverflowToReady, DistributionDone,
           AddToGlobalQueue, Goto, Hold, Return, WorkerType
  <1>4. UNCHANGED Executing
    BY <1>3 DEF Executing
  <1>5. UNCHANGED <<Submitted, Done>>
    <2>1. CASE UNCHANGED status
      BY <2>1 DEF Submitted, Done
    <2>2. CASE MarkReady(w) \/ OverflowToReady(w)
      <3>1. plan # <<>> /\ status' = [status EXCEPT ![Head(plan)] = "ready"]
        BY <2>2 DEF MarkReady, OverflowToReady, IInv, LockInv
      <3>2. Head(plan) \in ToSet(plan) /\ Head(plan) \in Tasks
        BY <1>1, <3>1 DEF RestType, ToSet
      <3>3. status[Head(plan)] = "pending"
        BY <3>2 DEF IInv, StatusInv
      <3> QED BY <1>1, <3>1, <3>2, <3>3, StatusesUnobserved DEF MapType
    <2>3. CASE AddToGlobalQueue(w)
      <3>1. status' = SetAll(status, plan, "ready")
        BY <2>3 DEF AddToGlobalQueue
      <3>2. \A t \in ToSet(plan) : status[t] = "pending"
        BY DEF IInv, StatusInv
      <3> QED BY <1>1, <3>1, <3>2, StatusesUnobserved DEF MapType, SetAll
    <2>4. UNCHANGED status \/ MarkReady(w) \/ OverflowToReady(w) \/ AddToGlobalQueue(w)
      BY DEF NextTask, PopBottom, OwnQueueEmpty, PopReady, ReadyQueueEmpty, Steal, StealMiss,
             AssignCurrent, SortWorkers, PushToWorker, DistributionDone, taskMaps
    <2> QED BY <2>1, <2>2, <2>3, <2>4
  <1> QED BY <1>2, <1>4, <1>5, Unobserved

LEMMA SetRunningStarts ==
  ASSUME IInv, NEW w \in Workers, SetRunning(w)
  PROVE  \E t \in Tasks : Execution!Start(w, t)
  <1>1. WorkerType /\ MapType
    BY TypeParts DEF IInv
  <1>2. worker[w].pc = "setRunning"
    BY DEF SetRunning
  <1>3. PICK t \in Tasks : t = worker[w].task /\ t # NoTask /\ status[t] = "ready"
    BY <1>1, <1>2, PushedFacts DEF SetRunning, IInv, LockInv, StatusInv, Holding, WorkerType
  <1>4. /\ UNCHANGED dependencies
        /\ status' = [status EXCEPT ![t] = "running"]
        /\ worker' = [worker EXCEPT ![w].pc = "running"]
    BY <1>3 DEF SetRunning, Goto
  <1>5. UNCHANGED <<Submitted, Done>> /\ t \in Submitted \ Done
    <2>1. UNCHANGED <<Submitted, Done>>
      BY <1>4, <1>1, <1>3, StatusesUnobserved DEF MapType
    <2> QED BY <1>3, <2>1 DEF Submitted, Done
  <1>6. Executing[w] = NoTask /\ Executing' = [Executing EXCEPT ![w] = t]
    <2>1. /\ worker'[w].pc = "running" /\ worker'[w].task = t
          /\ \A v \in Workers \ {w} : worker'[v] = worker[v]
      BY <1>4, <1>1, <1>3 DEF WorkerType
    <2> QED BY <1>2, <2>1 DEF Executing
  <1>7. \A v \in Workers : Executing[v] # t
    BY <1>2, <1>3 DEF Executing, IInv, PlaceInv
  <1>8. ToSet(dependencies[t]) \subseteq Done
    <2>1. IsTaskReady(status, dependencies, t)
      BY <1>3 DEF IInv, OrderInv
    <2>2. dependencies[t] \in Seq(Tasks)
      BY <1>1, <1>3 DEF MapType
    <2> QED BY <2>1, <2>2 DEF IsTaskReady, ToSet, Done
  <1>9. Execution!Start(w, t)
    <2>1. \A s : Execution!ToSet(s) = ToSet(s)
      BY DEF Execution!ToSet, ToSet
    <2> QED BY <1>4, <1>5, <1>6, <1>7, <1>8, <2>1
            DEF Execution!Start, Submitted, Done, Executing
  <1> QED BY <1>3, <1>9

LEMMA CompleteTaskFinishes ==
  ASSUME IInv, NEW w \in Workers, CompleteTask(w)
  PROVE  Execution!Finish(w)
  <1> DEFINE t == worker[w].task
  <1>1. WorkerType /\ MapType
    BY TypeParts DEF IInv
  <1>2. /\ worker[w].pc = "running" /\ UNCHANGED dependencies
        /\ status' = [status EXCEPT ![t] = "completed"]
        /\ worker'[w].pc # "running" /\ \A v \in Workers \ {w} : worker'[v] = worker[v]
    BY <1>1 DEF CompleteTask, WorkerType
  <1>3. t \in Tasks /\ t # NoTask /\ status[t] = "running"
    BY <1>1, <1>2 DEF IInv, LockInv, WorkerStatusAccurate, Holding, WorkerType
  <1>4. Submitted' = Submitted /\ Done' = Done \cup {t}
    BY <1>1, <1>2, <1>3 DEF Submitted, Done, MapType
  <1>5. Executing[w] = t /\ Executing' = [Executing EXCEPT ![w] = NoTask]
    BY <1>2 DEF Executing
  <1> HIDE DEF t
  <1> QED BY <1>2, <1>3, <1>4, <1>5 DEF Execution!Finish, Submitted, Done, Executing

LEMMA AbortTaskAborts ==
  ASSUME IInv, NEW w \in Workers, NEW d \in Tasks, AbortTask(w, d)
  PROVE  Execution!Abort(w, d)
  <1> DEFINE t == worker[w].task
  <1>1. WorkerType /\ MapType
    BY TypeParts DEF IInv
  <1>2. /\ worker[w].pc = "running"
        /\ dependencies' = [dependencies EXCEPT ![t] =
                               IF Contains(dependencies[t], d) THEN @ ELSE Append(@, d)]
        /\ status' = [status EXCEPT ![t] = "pending"]
        /\ worker'[w].pc # "running" /\ \A v \in Workers \ {w} : worker'[v] = worker[v]
    BY <1>1 DEF AbortTask, Return, WorkerType
  <1>3. t \in Tasks /\ t # NoTask /\ status[t] = "running"
    BY <1>1, <1>2 DEF IInv, LockInv, WorkerStatusAccurate, Holding, WorkerType
  <1>4. UNCHANGED <<Submitted, Done>>
    BY <1>1, <1>2, <1>3, StatusesUnobserved DEF MapType
  <1>5. Executing[w] = t /\ Executing' = [Executing EXCEPT ![w] = NoTask]
    BY <1>2 DEF Executing
  <1>6. dependencies' = [dependencies EXCEPT ![t] =
                           IF Execution!Contains(@, d) THEN @ ELSE Append(@, d)]
    BY <1>1, <1>2, <1>3 DEF Contains, Execution!Contains, MapType
  <1> HIDE DEF t
  <1> QED BY <1>3, <1>4, <1>5, <1>6 DEF Execution!Abort, Submitted, Done, Executing

LEMMA AddTasksStatuses ==
  ASSUME IInv, AddTasks
  PROVE  LET T == ToSet(Batches[batch])
         IN  /\ T \subseteq Tasks /\ \A t \in T : status[t] = "unknown"
             /\ \A t \in T : status'[t] \in {"pending", "ready"}
             /\ \A t \in Tasks \ T : status'[t] = status[t]
  <1> DEFINE T == ToSet(Batches[batch])
  <1>1. MapType /\ ClientType /\ SetupOK(setup)
    BY TypeParts DEF IInv
  <1>2. /\ UNCHANGED worker /\ adding
        /\ dependencies' = [t \in Tasks |-> IF t \in T THEN declared[t] ELSE dependencies[t]]
    BY Zenon DEF AddTasks
  <1>3. batch \in DOMAIN Batches /\ Batches[batch] \in Seq(Tasks)
    BY <1>1, <1>2 DEF IInv, BatchInv, ClientType, SetupOK, Batches
  <1>4. T \subseteq Tasks /\ \A t \in T : status[t] = "unknown"
    <2>1. batch \in batch .. Len(Batches)
      BY <1>1, <1>3 DEF ClientType, SetupOK, Batches
    <2>2. T \subseteq Tasks
      BY <1>3 DEF ToSet
    <2> QED BY <2>1, <2>2 DEF IInv, BatchInv
  <1>5. /\ \A t \in T : status'[t] \in {"pending", "ready"}
        /\ \A t \in Tasks \ T : status'[t] = status[t]
    <2> DEFINE st == SetAll(status, Batches[batch], "pending")
    <2>1. \/ status' = st
          \/ \E deps : status' = SetAll(st, Select(Batches[batch],
                                {t \in Tasks : IsTaskReady(st, deps, t)}), "ready")
      BY DEF AddTasks
    <2>2. st \in [Tasks -> STRING \cup Statuses]
          /\ \A t \in Tasks : st[t] = IF t \in T THEN "pending" ELSE status[t]
      BY <1>1 DEF SetAll, MapType, Statuses
    <2> HIDE DEF st
    <2>3. CASE status' = st
      BY <1>4, <2>2, <2>3
    <2>4. ASSUME NEW deps,
                 status' = SetAll(st, Select(Batches[batch],
                             {t \in Tasks : IsTaskReady(st, deps, t)}), "ready")
          PROVE  /\ \A t \in T : status'[t] \in {"pending", "ready"}
                 /\ \A t \in Tasks \ T : status'[t] = status[t]
      <3> DEFINE S == {t \in Tasks : IsTaskReady(st, deps, t)}
                 R == Select(Batches[batch], S)
      <3>1. ToSet(R) \subseteq T
        <4> HIDE DEF S
        <4> QED BY <1>3, SelectFacts
      <3>2. status' = SetAll(st, R, "ready")
        BY <2>4
      <3> HIDE DEF R
      <3> QED BY <1>4, <2>2, <3>1, <3>2 DEF SetAll
    <2> QED BY <2>1, <2>3, <2>4
  <1> QED BY <1>4, <1>5

LEMMA AddTasksSubmits ==
  ASSUME IInv, AddTasks
  PROVE  Execution!Submit
  <1> DEFINE T == ToSet(Batches[batch])
  <1>1. MapType /\ ClientType /\ SetupOK(setup)
    BY TypeParts DEF IInv
  <1>2. /\ UNCHANGED worker /\ adding
        /\ dependencies' = [t \in Tasks |-> IF t \in T THEN declared[t] ELSE dependencies[t]]
    BY Zenon DEF AddTasks
  <1>4. T \subseteq Tasks /\ \A t \in T : status[t] = "unknown"
    BY AddTasksStatuses
  <1>5. /\ \A t \in T : status'[t] \in {"pending", "ready"}
        /\ \A t \in Tasks \ T : status'[t] = status[t]
    BY AddTasksStatuses
  <1> HIDE DEF T
  <1>6. T \in SUBSET (Tasks \ Submitted) /\ Submitted' = Submitted \cup T
    <2>1. ASSUME NEW t \in Tasks
          PROVE  status'[t] # "unknown" <=> status[t] # "unknown" \/ t \in T
      <3>1. CASE t \in T
        <4>1. status'[t] \in {"pending", "ready"}
          BY <1>5, <3>1
        <4> QED BY <3>1, <4>1
      <3>2. CASE t \notin T
        BY <1>5, <3>2
      <3> QED BY <3>1, <3>2
    <2> QED BY <1>4, <2>1 DEF Submitted
  <1>7. UNCHANGED <<Executing, Done>>
    <2>1. ASSUME NEW t \in Tasks
          PROVE  status'[t] = "completed" <=> status[t] = "completed"
      <3>1. CASE t \in T
        <4>1. status'[t] \in {"pending", "ready"}
          BY <1>5, <3>1
        <4>2. status[t] = "unknown"
          BY <1>4, <3>1
        <4> QED BY <4>1, <4>2
      <3>2. CASE t \notin T
        BY <1>5, <3>2
      <3> QED BY <3>1, <3>2
    <2> QED BY <1>2, <2>1 DEF Executing, Done
  <1>8. DOMAIN dependencies' = Tasks /\ \A t \in Tasks \ T : dependencies'[t] = dependencies[t]
    BY <1>2
  <1> QED BY <1>6, <1>7, <1>8 DEF Execution!Submit, Submitted, Done, Executing

LEMMA InitImplements ==
  ASSUME Init
  PROVE  Execution!Init
  <1>1. Submitted = {} /\ Done = {} /\ Executing = [w \in Workers |-> NoTask]
    BY DEF Init, Submitted, Done, Executing
  <1> QED BY <1>1 DEF Init, Execution!Init, Submitted, Done, Executing

LEMMA StepImplements ==
  ASSUME IInv, [Next]_vars
  PROVE  [Execution!Next]_(Execution!vars)
  <1>1. IInv'
    BY NextKeepsIInv
  <1>2. ASSUME NEW w \in Workers, WorkerStep(w)
        PROVE  [Execution!Next]_(Execution!vars)
    <2>1. CASE SetRunning(w)
      BY <2>1, SetRunningStarts DEF Execution!Next
    <2>2. CASE CompleteTask(w)
      BY <2>2, CompleteTaskFinishes DEF Execution!Next
    <2>3. ASSUME NEW d \in Tasks, AbortTask(w, d)
          PROVE  Execution!Next
      BY <2>3, AbortTaskAborts DEF Execution!Next
    <2> QED BY <1>1, <1>2, <2>1, <2>2, <2>3, StepsUnobserved DEF WorkerStep
  <1>3. CASE AddTasks
    BY <1>3, AddTasksSubmits DEF Execution!Next
  <1>4. CASE AddTasksCheck \/ Close \/ UNCHANGED vars
    <2>1. UNCHANGED <<status, dependencies, worker>>
      BY <1>4 DEF AddTasksCheck, Close, vars, taskMaps
    <2> QED BY <2>1, Unobserved DEF Submitted, Executing, Done
  <1> QED BY <1>2, <1>3, <1>4 DEF Next

(* A task starts when its dependencies are done, on one worker, and never again once done: *)
(* every behaviour of the scheduler is one of TaskExecution.                               *)
THEOREM Refinement ==
  ASSUME TasksSubmittedOnce
  PROVE  Spec => RunsInOrder
  <1>1. Init => Execution!Init
    BY InitImplements
  <1>2. IInv /\ [Next]_vars => [Execution!Next]_(Execution!vars)
    BY StepImplements
  <1> QED BY <1>1, <1>2, Consistency, PTL DEF Spec, RunsInOrder, Execution!Spec

================================================================================
