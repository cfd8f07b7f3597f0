------------------------- MODULE WorkStealingScheduler -------------------------
(***************************************************************************)
(* scheduler/workstealing.go with the workers that drive it                *)
(* (executor/parallel.go, workerLoop).  Each worker loops over NextTask,   *)
(* the execution of the task, and CompleteTask or AbortTask; a client      *)
(* submits batches with AddTasks.                                          *)
(*                                                                         *)
(* taskMutex guards the task maps.  An operation that holds it to the end  *)
(* and touches nothing else the other goroutines read is one step;         *)
(* CompleteTask pushes to queues the others pop from, so every push is a   *)
(* step of its own, followed by one that marks the task ready, and the     *)
(* lock stays taken in between.  Worker queues are atomic deques, which    *)
(* ChaseLevQueue implements from its local end; the ready queue is a       *)
(* bounded heap under readyMutex.  Which ready task the heap returns       *)
(* depends on estimates of gas and is left open.                           *)
(***************************************************************************)
EXTENDS Integers, DependencyGraph, Selection

CONSTANTS
  Tasks,               \* task IDs
  NoTask,              \* CurrentTask of an idle worker: -1
  NumWorkers,
  Setups               \* configurations with the tasks that are submitted and the
                       \* bounds of the behaviour

ASSUME NoTaskAssumption == NoTask \notin Tasks
ASSUME NumWorkersAssumption == NumWorkers \in Nat \ {0}
SetupOK(s) ==
  /\ s.graph \in [Tasks -> Seq(Tasks)] /\ s.batches \in Seq(Seq(Tasks))
  /\ s.queueSize \in Nat \ {0}
  /\ s.stealing \in BOOLEAN /\ s.balancing \in BOOLEAN /\ s.analysis \in BOOLEAN
  /\ s.maxAborts \in Nat /\ s.maxClose \in {0, 1}
ASSUME SetupsAssumption == \A s \in Setups : SetupOK(s)

Workers == 0 .. NumWorkers - 1

VARIABLES
  setup,         \* the configuration and the tasks, which never change
  batch,         \* the number of the next call of AddTasks
  adding,        \* has that call passed its check of shutdown?
  shutdown,      \* has Close been called?
  status,        \* taskStatus; "unknown" is a task not in the map
  dependencies,  \* task -> tasks it depends on
  dependents,    \* task -> tasks that depend on it
  queues,        \* worker -> its deque, top first
  readyQueue,    \* the tasks in the global queue, in order of arrival
  current,       \* worker -> workerStatus.CurrentTask
  worker,        \* worker -> pc, the task it holds, its next steal victim
  plan,          \* the tasks the holder of taskMutex still has to mark ready
  order,         \* the workers it pushes them to, next one first
  aborts         \* number of aborted executions

vars == <<setup, batch, adding, shutdown, status, dependencies, dependents,
          queues, readyQueue, current, worker, plan, order, aborts>>

taskMaps == <<status, dependencies, dependents>>
client == <<setup, batch, adding, shutdown>>

declared == setup.graph       \* what Dependencies() returns for each task
Batches == setup.batches      \* the tasks of the successive calls of AddTasks
QueueSize == setup.queueSize
StealingEnabled == setup.stealing
LoadBalancing == setup.balancing
DependencyAnalysis == setup.analysis
MaxAborts == setup.maxAborts  \* bound on the executions that report a conflict
MaxClose == setup.maxClose    \* bound on the calls of Close

Statuses == {"unknown", "pending", "ready", "running", "completed"}
PCs == {"idle", "own", "global", "steal", "assign", "setRunning", "running",
        "sort", "distribute", "markReady", "addGlobal"}
Distributing == {"sort", "distribute", "markReady", "addGlobal"}

\* Only CompleteTask keeps taskMutex between steps.
MutexFree == \A w \in Workers : worker[w].pc \notin Distributing

Init ==
  /\ setup \in Setups
  /\ batch = 1
  /\ adding = FALSE
  /\ shutdown = FALSE
  /\ status = [t \in Tasks |-> "unknown"]
  /\ dependencies = [t \in Tasks |-> <<>>]
  /\ dependents = [t \in Tasks |-> <<>>]
  /\ queues = [w \in Workers |-> <<>>]
  /\ readyQueue = <<>>
  /\ current = [w \in Workers |-> NoTask]
  /\ worker = [w \in Workers |-> [pc |-> "idle", task |-> NoTask, victim |-> 0]]
  /\ plan = <<>>
  /\ order = <<>>
  /\ aborts = 0

--------------------------------------------------------------------------------
(* Helpers *)

\* NewChaseLevQueue rounds the size of its buffer up.
NextPowerOfTwo(n) == Min({p \in Range(PowersOfTwo(n)) : p >= n})

QueueCapacity == NextPowerOfTwo(QueueSize)

ReadyCapacity == QueueSize * NumWorkers

\* readyQueue.Push for each of the tasks: what no longer fits is dropped.
PushReady(tasks) ==
  LET all == readyQueue \o tasks
  IN  readyQueue' = SubSeq(all, 1, Min({Len(all), ReadyCapacity}))

\* Mutant: one completed dependency is enough.
IsTaskReadyAny(st, deps, t) ==
  deps[t] = <<>> \/ \E d \in ToSet(deps[t]) : st[d] = "completed"

IsTaskReady(st, deps, t) ==
  \A d \in ToSet(deps[t]) : st[d] = "completed"

\* Mutant: the dependents are checked before the task counts as completed.
CheckDependentTasksEarly(st, t) ==
  Select(dependents[t],
         {u \in Tasks : IsTaskReady(status, dependencies, u) /\ st[u] = "pending"})

CheckDependentTasks(st, t) ==
  Select(dependents[t],
         {u \in Tasks : IsTaskReady(st, dependencies, u) /\ st[u] = "pending"})

SetAll(st, tasks, s) ==
  [t \in Tasks |-> IF t \in ToSet(tasks) THEN s ELSE st[t]]

\* The loop over workerStatus stops at the first worker that runs t.
ClearCurrent(t) ==
  LET holders == {w \in Workers : current[w] = t}
  IN  current' = [w \in Workers |->
                    IF holders # {} /\ w = Min(holders) THEN NoTask ELSE current[w]]

\* A call that returns no task: workerLoop sleeps and tries again.
Return(w) == worker' = [worker EXCEPT ![w].pc = "idle", ![w].task = NoTask]

Hold(w, t) == worker' = [worker EXCEPT ![w].pc = "assign", ![w].task = t]

Goto(w, pc) == worker' = [worker EXCEPT ![w].pc = pc]

--------------------------------------------------------------------------------
(* AddTasks *)

AddTasksCheck ==
  /\ ~ adding
  /\ ~ shutdown
  /\ batch <= Len(Batches)
  /\ adding' = TRUE
  /\ UNCHANGED <<setup, batch, shutdown, taskMaps, queues, readyQueue,
                 current, worker, plan, order, aborts>>

\* What a batch adds to dependents[d]: each task as often as it lists d.
Entries(tasks, d) ==
  FlattenSeq([i \in DOMAIN tasks |->
                [k \in DOMAIN Select(declared[tasks[i]], {d}) |-> tasks[i]]])

\* The first pass enters the whole batch before the second looks for cycles: a
\* rejected batch stays in the maps.
AddTasks ==
  /\ adding
  /\ MutexFree
  /\ LET tasks == Batches[batch]
         st == SetAll(status, tasks, "pending")
         deps == [t \in Tasks |-> IF t \in ToSet(tasks) THEN declared[t]
                                                        ELSE dependencies[t]]
         readyTasks == Select(tasks, {t \in Tasks : IsTaskReady(st, deps, t)})
     IN  /\ dependencies' = deps
         /\ dependents' = [d \in Tasks |-> dependents[d] \o Entries(tasks, d)]
         /\ IF DependencyAnalysis /\ CycleBelow(deps, ToSet(tasks))
            THEN status' = st /\ UNCHANGED readyQueue
            ELSE status' = SetAll(st, readyTasks, "ready") /\ PushReady(readyTasks)
  /\ adding' = FALSE
  /\ batch' = batch + 1
  /\ UNCHANGED <<setup, shutdown, queues, current, worker, plan, order, aborts>>

Close ==
  /\ MaxClose = 1
  /\ ~ shutdown
  /\ shutdown' = TRUE
  /\ UNCHANGED <<setup, batch, adding, taskMaps, queues, readyQueue, current,
                 worker, plan, order, aborts>>

--------------------------------------------------------------------------------
(* NextTask *)

NextTask(w) ==
  /\ worker[w].pc = "idle"
  /\ ~ shutdown
  /\ Goto(w, "own")
  /\ UNCHANGED <<client, taskMaps, queues, readyQueue, current, plan, order, aborts>>

PopBottom(w) ==
  /\ worker[w].pc = "own"
  /\ queues[w] # <<>>
  /\ queues' = [queues EXCEPT ![w] = Front(@)]
  /\ Hold(w, Last(queues[w]))
  /\ UNCHANGED <<client, taskMaps, readyQueue, current, plan, order, aborts>>

OwnQueueEmpty(w) ==
  /\ worker[w].pc = "own"
  /\ queues[w] = <<>>
  /\ Goto(w, "global")
  /\ UNCHANGED <<client, taskMaps, queues, readyQueue, current, plan, order, aborts>>

PopReady(w) ==
  /\ worker[w].pc = "global"
  /\ \E i \in 1 .. Len(readyQueue) :
       /\ readyQueue' = RemoveAt(readyQueue, i)
       /\ Hold(w, readyQueue[i])
  /\ UNCHANGED <<client, taskMaps, queues, current, plan, order, aborts>>

ReadyQueueEmpty(w) ==
  /\ worker[w].pc = "global"
  /\ readyQueue = <<>>
  /\ IF StealingEnabled
     THEN worker' = [worker EXCEPT ![w].pc = "steal", ![w].victim = 0]
     ELSE Return(w)
  /\ UNCHANGED <<client, taskMaps, queues, readyQueue, current, plan, order, aborts>>

Victim(w) == (w + worker[w].victim + 1) % NumWorkers

\* Mutant: the thief reads the task and leaves it in the victim's queue.
StealWithoutRemoving(w) ==
  /\ worker[w].pc = "steal"
  /\ queues[Victim(w)] # <<>>
  /\ Hold(w, Head(queues[Victim(w)]))
  /\ UNCHANGED <<client, taskMaps, queues, readyQueue, current, plan, order, aborts>>

Steal(w) ==
  /\ worker[w].pc = "steal"
  /\ queues[Victim(w)] # <<>>
  /\ queues' = [queues EXCEPT ![Victim(w)] = Tail(@)]
  /\ Hold(w, Head(queues[Victim(w)]))
  /\ UNCHANGED <<client, taskMaps, readyQueue, current, plan, order, aborts>>

\* Mutant: one victim too many.
StealMissOffByOne(w) ==
  /\ worker[w].pc = "steal"
  /\ IF worker[w].victim <= NumWorkers - 1
     THEN worker' = [worker EXCEPT ![w].victim = @ + 1]
     ELSE Return(w)
  /\ UNCHANGED <<client, taskMaps, queues, readyQueue, current, plan, order, aborts>>

\* PopTop returns nothing when the queue is empty, and also when another worker
\* wins the race for the task.
StealMiss(w) ==
  /\ worker[w].pc = "steal"
  /\ IF worker[w].victim < NumWorkers - 1
     THEN worker' = [worker EXCEPT ![w].victim = @ + 1]
     ELSE Return(w)
  /\ UNCHANGED <<client, taskMaps, queues, readyQueue, current, plan, order, aborts>>

\* assignTaskToWorker takes workerMutex, then taskMutex.
AssignCurrent(w) ==
  /\ worker[w].pc = "assign"
  /\ current' = [current EXCEPT ![w] = worker[w].task]
  /\ Goto(w, "setRunning")
  /\ UNCHANGED <<client, taskMaps, queues, readyQueue, plan, order, aborts>>

\* Mutant: the status is written without taskMutex.
SetRunningUnlocked(w) ==
  /\ worker[w].pc = "setRunning"
  /\ status' = [status EXCEPT ![worker[w].task] = "running"]
  /\ Goto(w, "running")
  /\ UNCHANGED <<client, dependencies, dependents, queues, readyQueue, current,
                 plan, order, aborts>>

SetRunning(w) ==
  /\ worker[w].pc = "setRunning"
  /\ MutexFree
  /\ status' = [status EXCEPT ![worker[w].task] = "running"]
  /\ Goto(w, "running")
  /\ UNCHANGED <<client, dependencies, dependents, queues, readyQueue, current,
                 plan, order, aborts>>

--------------------------------------------------------------------------------
(* CompleteTask and AbortTask, which executeTask calls at its end *)

\* The result is not looked at: a failed task is completed as well.
CompleteTask(w) ==
  /\ worker[w].pc = "running"
  /\ MutexFree
  /\ LET t == worker[w].task
         st == [status EXCEPT ![t] = "completed"]
         readyTasks == CheckDependentTasks(st, t)
         next == IF readyTasks = <<>> THEN "idle"
                 ELSE IF LoadBalancing THEN "sort" ELSE "addGlobal"
     IN  /\ status' = st
         /\ ClearCurrent(t)
         /\ plan' = readyTasks
         /\ worker' = [worker EXCEPT ![w].pc = next, ![w].task = NoTask]
  /\ UNCHANGED <<client, dependencies, dependents, queues, readyQueue, order, aborts>>

\* distributeTasksEvenly: sort.Slice is not stable, equal loads come in any order.
SortWorkers(w) ==
  /\ worker[w].pc = "sort"
  /\ \E o \in SetToSeqs(Workers) :
       /\ \A i, j \in 1 .. NumWorkers :
            i < j => Len(queues[o[i]]) <= Len(queues[o[j]])
       /\ order' = o
  /\ Goto(w, "distribute")
  /\ UNCHANGED <<client, taskMaps, queues, readyQueue, current, plan, aborts>>

PushToWorker(w) ==
  /\ worker[w].pc = "distribute"
  /\ plan # <<>>
  /\ Len(queues[Head(order)]) < QueueCapacity
  /\ queues' = [queues EXCEPT ![Head(order)] = Append(@, Head(plan))]
  /\ Goto(w, "markReady")
  /\ UNCHANGED <<client, taskMaps, readyQueue, current, plan, order, aborts>>

\* A thief may hold the task by now, but only after taskMutex is free can it mark it
\* running.
MarkReady(w) ==
  /\ worker[w].pc = "markReady"
  /\ status' = [status EXCEPT ![Head(plan)] = "ready"]
  /\ plan' = Tail(plan)
  /\ order' = Append(Tail(order), Head(order))
  /\ Goto(w, "distribute")
  /\ UNCHANGED <<client, dependencies, dependents, queues, readyQueue, current, aborts>>

\* The worker's queue is full: the task goes to the global queue.
OverflowToReady(w) ==
  /\ worker[w].pc = "distribute"
  /\ plan # <<>>
  /\ Len(queues[Head(order)]) >= QueueCapacity
  /\ PushReady(<<Head(plan)>>)
  /\ status' = [status EXCEPT ![Head(plan)] = "ready"]
  /\ plan' = Tail(plan)
  /\ order' = Append(Tail(order), Head(order))
  /\ UNCHANGED <<client, dependencies, dependents, queues, current, worker, aborts>>

DistributionDone(w) ==
  /\ worker[w].pc = "distribute"
  /\ plan = <<>>
  /\ order' = <<>>
  /\ Goto(w, "idle")
  /\ UNCHANGED <<client, taskMaps, queues, readyQueue, current, plan, aborts>>

\* Without load balancing all go to the global queue, under readyMutex.
AddToGlobalQueue(w) ==
  /\ worker[w].pc = "addGlobal"
  /\ PushReady(plan)
  /\ status' = SetAll(status, plan, "ready")
  /\ plan' = <<>>
  /\ Goto(w, "idle")
  /\ UNCHANGED <<client, dependencies, dependents, queues, current, order, aborts>>

\* Mutant: an aborted task is marked ready but put into no queue.
AbortTaskReady(w, d) ==
  /\ worker[w].pc = "running"
  /\ MutexFree
  /\ aborts < MaxAborts
  /\ aborts' = aborts + 1
  /\ status' = [status EXCEPT ![worker[w].task] = "ready"]
  /\ ClearCurrent(worker[w].task)
  /\ Return(w)
  /\ UNCHANGED <<client, dependencies, dependents, queues, readyQueue, plan, order>>

AbortTask(w, d) ==
  /\ worker[w].pc = "running"
  /\ MutexFree
  /\ aborts < MaxAborts
  /\ aborts' = aborts + 1
  /\ LET t == worker[w].task
         known == Contains(dependencies[t], d)
     IN  /\ dependencies' =
              [dependencies EXCEPT ![t] = IF known THEN @ ELSE Append(@, d)]
         /\ dependents' = [dependents EXCEPT ![d] = IF known THEN @ ELSE Append(@, t)]
         /\ status' = [status EXCEPT ![t] = "pending"]
         /\ ClearCurrent(t)
  /\ Return(w)
  /\ UNCHANGED <<client, queues, readyQueue, plan, order>>

--------------------------------------------------------------------------------

\* One round of workerLoop, at the end of which the worker is idle again.
WorkerStep(w) ==
  \/ NextTask(w)
  \/ PopBottom(w)
  \/ OwnQueueEmpty(w)
  \/ PopReady(w)
  \/ ReadyQueueEmpty(w)
  \/ Steal(w)
  \/ StealMiss(w)
  \/ AssignCurrent(w)
  \/ SetRunning(w)
  \/ CompleteTask(w)
  \/ SortWorkers(w)
  \/ PushToWorker(w)
  \/ MarkReady(w)
  \/ OverflowToReady(w)
  \/ DistributionDone(w)
  \/ AddToGlobalQueue(w)
  \/ \E d \in Tasks : AbortTask(w, d)

Next ==
  \/ AddTasksCheck
  \/ AddTasks
  \/ Close
  \/ \E w \in Workers : WorkerStep(w)

Spec == Init /\ [][Next]_vars

\* Every worker keeps looping, executions end, the mutexes are fair, and a call of
\* AddTasks that started returns.  Clients need not submit every batch.
FairSpec == Spec /\ WF_vars(AddTasks) /\ \A w \in Workers : WF_vars(WorkerStep(w))

--------------------------------------------------------------------------------
(* Properties *)

\* The values the variables may take, and the capacities of the queues.
TypeOK ==
  /\ batch \in 1 .. Len(Batches) + 1
  /\ adding \in BOOLEAN /\ shutdown \in BOOLEAN
  /\ status \in [Tasks -> Statuses]
  /\ dependencies \in [Tasks -> Seq(Tasks)]
  /\ dependents \in [Tasks -> Seq(Tasks)]
  /\ queues \in [Workers -> Seq(Tasks)]
  /\ \A w \in Workers : Len(queues[w]) <= QueueCapacity
  /\ readyQueue \in Seq(Tasks) /\ Len(readyQueue) <= ReadyCapacity
  /\ current \in [Workers -> Tasks \cup {NoTask}]
  /\ worker \in [Workers -> [pc: PCs, task: Tasks \cup {NoTask}, victim: Workers]]
  /\ plan \in Seq(Tasks)
  /\ order \in Seq(Workers)
  /\ aborts \in 0 .. MaxAborts

\* The task that is pushed and not yet marked ready.
Pushed ==
  {t \in Tasks : plan # <<>> /\ t = Head(plan) /\ \E w \in Workers : worker[w].pc = "markReady"}

\* In how many places a task is on its way from ready to completed.
Copies(t) ==
  LET places == {<<"held", w, 0>> : w \in {v \in Workers : worker[v].task = t}}
                \cup {<<"global", 0, i>> : i \in {j \in DOMAIN readyQueue : readyQueue[j] = t}}
                \cup {<<"plan", 0, i>> : i \in {j \in DOMAIN plan : plan[j] = t /\ t \notin Pushed}}
                \cup UNION {{<<"queue", w, i>> :
                               i \in {j \in DOMAIN queues[w] : queues[w][j] = t}} :
                            w \in Workers}
  IN  Cardinality(places)

\* A task is in exactly one place while it is ready or running, and in none before
\* and after: the hand-overs between CompleteTask, the queues, thieves and workers
\* neither lose nor duplicate it, nor does the mark that follows a push bring back a
\* task that another worker has taken.
OnePlace ==
  \A t \in Tasks :
    Copies(t) = IF status[t] \in {"ready", "running"} \/ Contains(plan, t) THEN 1 ELSE 0

\* workerStatus.CurrentTask is the task the worker executes, and -1 if it is idle,
\* though it is written under two different mutexes.
WorkerStatusAccurate ==
  \A w \in Workers :
    /\ current[w] = IF worker[w].pc \in {"setRunning", "running"}
                    THEN worker[w].task ELSE NoTask
    /\ worker[w].pc = "running" => status[worker[w].task] = "running"

Cyclic == CycleBelow(setup.graph, Tasks)

\* A pending task waits for something: no completion is missed between AddTasks,
\* which looks at the dependencies, and CompleteTask, which looks at the dependents.
\* Aborts are an exception, as the dependency they name may be completed already, and so
\* are batches rejected for a cycle, whose ready tasks stay pending with the others.
PendingWaits ==
  MutexFree /\ aborts = 0 =>
    \A t \in Tasks : status[t] = "pending" =>
      \/ \E d \in ToSet(dependencies[t]) : status[d] # "completed"
      \/ DependencyAnalysis /\ Cyclic

Execution ==
  INSTANCE TaskExecution WITH
    submitted <- {t \in Tasks : status[t] # "unknown"},
    executing <- [w \in Workers |->
                    IF worker[w].pc = "running" THEN worker[w].task ELSE NoTask],
    done <- {t \in Tasks : status[t] = "completed"}

\* Whatever the interleaving of workers, thieves and clients, a task starts only
\* when its dependencies are completed, on one worker, and never after it completed.
RunsInOrder == Execution!Spec

\* Every submitted task is eventually completed: from any point on there comes one at
\* which none is left, unless the scheduler is closed, an execution was aborted, or the
\* tasks depend on each other in a cycle.
EveryTaskCompletes ==
  (\E t \in Tasks : status[t] # "unknown") ~>
     \/ \A t \in Tasks : status[t] \in {"unknown", "completed"}
     \/ shutdown \/ aborts > 0 \/ Cyclic

--------------------------------------------------------------------------------
(* What the comments and tests say, which fails *)

\* A ready task is in a queue or in the hands of a worker.
ReadyIsQueued == \A t \in Tasks : status[t] = "ready" => Copies(t) >= 1

\* A worker whose CurrentTask is -1 executes nothing.
IdleExecutesNothing ==
  \A w \in Workers : current[w] = NoTask => worker[w].pc # "running"

--------------------------------------------------------------------------------
(* The inductive invariant.  It holds if the batches repeat no task, within a batch or *)
(* in a later one, and no task lists a dependency twice.                               *)

OnceEach(s) ==
  /\ \A t \in Tasks : IsInjective(s.graph[t])
  /\ \A b \in DOMAIN s.batches : IsInjective(s.batches[b])
  /\ \A b, c \in DOMAIN s.batches :
       b # c => ToSet(s.batches[b]) \cap ToSet(s.batches[c]) = {}

\* The global queue has room for every task.
HasRoom(s) == IsFiniteSet(Tasks) /\ Cardinality(Tasks) <= s.queueSize * NumWorkers

Holding == {"assign", "setRunning", "running"}

\* Who holds a task, and who holds taskMutex between steps.
LockInv ==
  /\ \A w \in Workers : worker[w].task # NoTask <=> worker[w].pc \in Holding
  /\ \A v, w \in Workers :
       worker[v].pc \in Distributing /\ worker[w].pc \in Distributing => v = w
  /\ MutexFree => plan = <<>>
  /\ \A w \in Workers : /\ worker[w].pc \in {"distribute", "markReady"} => order # <<>>
                        /\ worker[w].pc = "markReady" => plan # <<>>

\* No task is in two places, nor twice in one.
PlaceInv ==
  /\ IsInjective(readyQueue) /\ IsInjective(plan)
  /\ \A w \in Workers : /\ IsInjective(queues[w])
                        /\ ToSet(queues[w]) \cap ToSet(readyQueue) = {}
                        /\ worker[w].task \notin ToSet(readyQueue)
  /\ \A v, w \in Workers : worker[v].task \notin ToSet(queues[w])
  /\ \A v, w \in Workers : v # w =>
       /\ ToSet(queues[v]) \cap ToSet(queues[w]) = {}
       /\ worker[v].task # NoTask => worker[v].task # worker[w].task

\* The status of a task says where it is, but for the one between push and mark.
StatusInv ==
  /\ \A w \in Workers : \A t \in ToSet(queues[w]) : status[t] = "ready" \/ t \in Pushed
  /\ \A t \in ToSet(readyQueue) : status[t] = "ready"
  /\ \A t \in ToSet(plan) : status[t] = "pending"
  /\ \A w \in Workers :
       worker[w].pc \in {"assign", "setRunning"} =>
         status[worker[w].task] = "ready" \/ worker[w].task \in Pushed
  /\ \A t \in Tasks : status[t] = "running" =>
       \E w \in Workers : worker[w].pc = "running" /\ worker[w].task = t

\* A ready task is somewhere, if nothing is dropped, and so is one that was pushed.
ReadyInv ==
  \A t \in Tasks : (HasRoom(setup) /\ status[t] = "ready") \/ t \in Pushed =>
    \/ t \in ToSet(readyQueue)
    \/ \E w \in Workers : t \in ToSet(queues[w]) \/ worker[w].task = t

\* The two maps of the graph agree, and before the first abort they hold what the known
\* tasks declare.
GraphInv ==
  /\ \A d \in Tasks : IsInjective(dependents[d])
  /\ \A t, d \in Tasks : t \in ToSet(dependents[d]) <=> d \in ToSet(dependencies[t])
  /\ \A t \in Tasks : status[t] = "unknown" => dependencies[t] = <<>>
  /\ aborts = 0 =>
       \A t \in Tasks : status[t] # "unknown" => dependencies[t] = declared[t]

\* The tasks of later batches are not known yet.
BatchInv ==
  /\ OnceEach(setup)
  /\ adding => batch <= Len(Batches)
  /\ \A b \in batch .. Len(Batches) : \A t \in ToSet(Batches[b]) : status[t] = "unknown"

\* What a ready task waited for is done, and stays done.
OrderInv ==
  \A t \in Tasks :
    status[t] \in {"ready", "running"} \/ t \in ToSet(plan) =>
      IsTaskReady(status, dependencies, t)

\* A pending task waits, or the holder of taskMutex is about to push it.
WaitInv ==
  aborts = 0 =>
    \A t \in Tasks : status[t] = "pending" =>
      \/ t \in ToSet(plan)
      \/ ~ IsTaskReady(status, dependencies, t)
      \/ DependencyAnalysis /\ Cyclic

IInv ==
  /\ SetupOK(setup)
  /\ TypeOK /\ LockInv /\ PlaceInv /\ StatusInv /\ ReadyInv /\ GraphInv
  /\ BatchInv /\ OrderInv /\ WaitInv /\ WorkerStatusAccurate

================================================================================
