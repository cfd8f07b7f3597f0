# Formal models of pevm-go

TLA+ specifications of pevm-go, the configurations that check them with TLC, and
theorems about each of its components that TLAPS proves for every value of the
constants. Line numbers refer to the files under `src/`.

## The system

pevm-go executes a batch of tasks (transactions) in parallel. `ParallelEngine.Execute`
gives the batch to the `Coordinator`, the `Planner` adds dependencies between tasks that
touch the same keys, `WorkStealingScheduler.AddTasks` enters the tasks into the maps of
the scheduler, and the workers of `ParallelExecutor` loop over `NextTask`, the execution
and `CompleteTask`. `LockFreeStorage` keeps several versions of each key, and
`FastValidator` checks read sets against it.

| component | state | operations | what is hard | what makes it correct |
|---|---|---|---|---|
| `ChaseLevQueue` (`scheduler/queues.go`) | circular buffer, `top`, `bottom` | `PushBottom`, `PopBottom`, `PopTop` | no lock: atomic operations on two indices, plain accesses to slots of two words | no accepted task is lost, returned twice or half written; the calls act as on an atomic deque |
| `WorkStealingScheduler` (`scheduler/workstealing.go`) | task maps, `dependents`, worker queues, global queue, `workerStatus` | `AddTasks`, `NextTask`, `CompleteTask`, `AbortTask`, `Close` | three mutexes and lock-free queues; a task is handed from queue to worker to queue in steps | every task runs once, after its dependencies, on one worker, and every task runs |
| `ParallelExecutor` (`executor/parallel.go`) | workers, context, statistics | worker loop, `executeTask`, `Shutdown` | panics, time limits, shutdown while workers run | each started task is reported exactly once |
| `LockFreeStorage` (`storage/lockfree.go`) | buckets, version chains, counters | `Read`, `Write`, `Validate`, `Commit`, `GC`, `Snapshot` | readers walk chains without a lock while GC unlinks nodes | a reader misses no version; a version is committed by its own commit; counters balance |
| `Planner`, `StaticOracle` (`access/`) | none between calls | `Plan` | maps in random order, dependencies against those the tasks declare | tasks of a partition share no key; the added dependencies close no cycle |
| `Coordinator` (`engine/coordinator.go`) | none | `Prepare` | passes the errors of `AddTasks` on | the scheduler gets every task of the plan |
| `ParallelEngine` (`engine/engine.go`) | `started`, components, metrics loop | `Start`, `Stop`, `Configure`, `SetAccessOracle`, `Execute`, `ExecuteWithExecutor`, `GetMetrics`, `GetStatus` | mutex held while waiting for goroutines; fields read without it; restart | `Stop` returns and leaves nothing running; a batch goes to workers that run, unless a `Stop` overlaps it |
| `AdaptivePriorityQueue`, `DistributedQueue` (`scheduler/queues.go`) | heap, hot tasks; several queues | `Push`, `Pop` | bound, priorities, `Pop` over several queues without a common lock | nothing is lost; order of priorities |
| `FastValidator`, `ConflictCache` (`validation/validator.go`) | metrics, cache | `Validate`, `ValidateBatch`, `DetectConflicts` | reads compared one by one while the store changes; answers from a shared cache | an accepted result is one of a snapshot; exactly the conflicts are found |
| `EarlyValidator` (`validation/validator.go`) | queue of requests, workers | `ValidateAsync`, `Shutdown` | full queue; shutdown against waiting requests | a request is answered unless it waits at a shutdown; `Shutdown` returns |
| `simpleResourceManager` (`engine/engine.go`) | a counter | `AllocateResources`, `ReleaseResources` | called by all workers without a lock | IDs are unique |

Calls go from the engine down to the scheduler and the storage. Goroutines share state in
three places: the task maps (`taskMutex`), the worker queues (lock-free), and the version
chains (a lock per bucket for the map, none for the chain). Nothing is persisted, so there
is no recovery after a crash.

## The modules

| module | models | extends or instantiates |
|---|---|---|
| `TaskDeque` | abstract: a bounded deque with atomic operations | |
| `ChaseLevQueue` | `ChaseLevQueue`, one step per atomic operation | implements `TaskDeque` |
| `TaskExecution` | abstract: tasks run once, in order of dependencies | |
| `DependencyGraph` | reachability in the dependency graph, the meaning of `detectCycles` | |
| `CycleDetection` | `detectCycles` and `hasCycle` as the recursive search of the code, operators without state | compared with `CycleBelow` of `DependencyGraph` in `scheduler` |
| `WorkStealingScheduler` | the scheduler with its workers and a client | implements `TaskExecution`, extends `DependencyGraph` |
| `Planner` | `Planner.Plan` and `StaticOracle.KeysFor`, operators without state | |
| `Coordinator` | `Coordinator.Prepare`: requests are planned and given to the scheduler | composes `Planner` and `WorkStealingScheduler` |
| `ParallelExecutor` | the workers, the statistics and `Shutdown` | |
| `EngineLifecycle` | the operations of the engine and the metrics loop | |
| `VersionStore` | abstract: a store of versions with atomic reads, writes, marks and removals | |
| `LockFreeStorage` | the storage with transactions, readers and GC | implements `VersionStore` without a `MemoryPool` |
| `FastValidator` | `Validate` and `ValidateBatch` over a store that changes | |
| `ConflictDetection` | `DetectConflicts` with the `ConflictCache` | extends `FastValidator` |
| `EarlyValidator` | the queue of requests, its workers and `Shutdown` | extends `ConflictDetection` |
| `Selection` | loops that collect the elements of a slice that pass a test, and powers of two, as recursive functions | |
| `ChaseLevQueueProofs`, `WorkStealingSchedulerProofs`, `CoordinatorProofs`, `ParallelExecutorProofs`, `EngineLifecycleProofs`, `LockFreeStorageProofs`, `EarlyValidatorProofs` | theorems about the module in their name | extend it; `CoordinatorProofs` also extends `WorkStealingSchedulerProofs` |
| `SequenceLemmas` | lemmas about sequences, sets and indices that several proofs need | |
| `MCWorkStealingScheduler`, `MCCoordinator`, `MCLockFreeStorage`, `MCEngineLifecycle`, `MCEarlyValidator` | values of the constants for TLC; in `MCCoordinator` also the comparison with `CycleDetection` | |

A definition whose comment starts with "Mutant" is a plausible mistake in the definition
after it. No specification uses it; it shows which property would notice the mistake.

### ChaseLevQueue

`buffer`, `top` and `bottom` are the fields of the struct. `push`, `pop` and
`steal[thief]` are the local variables and the program counter of the running calls, and
every atomic load, store, add and compare-and-swap is an action. A slot holds an interface
value, which Go writes as two words, so `PushStoreFirstWord` leaves the slot `Torn` until
`PushStoreSecondWord`. `todo`, `rejected` and `taken` are history. `Size` and `IsEmpty`
only read. The indices are int64 in the code; they only grow with the number of tasks and
their overflow is not modelled.

`RemotePush` says who pushes. With `FALSE`, a push never overlaps a pop of the owner: the
discipline the comments ask for ("local end"). With `TRUE`, any goroutine that holds
`taskMutex` pushes, as `distributeTasksEvenly` does.

### WorkStealingScheduler

`Setups` is a set of records, each a configuration of the scheduler with the tasks of a
client: the declared dependencies, the batches they are submitted in, the queue size and
the three switches of `Config` the code reads. `Init` picks one into `setup`, which no
action changes, so that one run covers many configurations and graphs.

The variables are the maps of the scheduler (`status` is `taskStatus`), the queues,
`current` for `workerStatus[].CurrentTask`, and per worker its program counter and the task
it holds. `AddTasks` is one step under `taskMutex`, after the check of `shutdown`, which
the code makes without it. `NextTask` is a step for each queue it looks at and one for each
mutex `assignTaskToWorker` takes. `CompleteTask` keeps `taskMutex` while it sorts the
workers by load and pushes task after task, so the pops and thefts of the others can come
between any two of these pushes. Pushing a task to a worker's queue and marking it ready are
two steps of it (`PushToWorker`, `MarkReady`): in between a thief may already hold the task, but
needs `taskMutex` to mark it running. The `running` state stands for the execution.

The worker queues are atomic deques here: `ChaseLevQueue` shows that this is right for
pushes from the local end, and the finding of `queue_remote` that the scheduler leaves this
discipline. The results of `scheduler_*` therefore hold if the pushes are made safe. The
global queue is bounded, and which of its tasks `Pop` returns is left open because it
depends on estimates of gas. Task IDs are unique, as `common.TaskID` documents.

### Planner and Coordinator

`Planner` translates `Plan` step by step into operators: the keys of a task, when two tasks
conflict, the greedy colouring in the order of the batch, the partitions by colour and the
dependencies on conflicting tasks of lower colour. The code collects these dependencies by
ranging over a map, so `Plan` is the set of all orders they can come in. `Hash` is a
constant: keys that collide are one key for the planner. `Coordinator` takes a client's
request - access lists, declared dependencies, batches -, plans
every batch with what `Prepare` does, and runs the scheduler on the wrapped tasks. Here the
properties of the planner meet those of the scheduler: `ConflictsNeverOverlap` needs both.
`PlanIsSound` says of the plan itself that partitions are disjoint, that the added
dependencies order every pair that conflicts and no other, and that they close no cycle by
themselves. Together with declared dependencies they may: if a task conflicts with two others
it can get the later colour and depend on a task after it, which may declare the opposite.
`AddTasks` then rejects the batch although the tasks declare no cycle, after it has entered
all of it; the instance `Reversed(<<t2>>)` has this case.

### ParallelExecutor

The loop of a worker is a step for each thing others can see: the check of the context, the
call of `NextTask`, `currentTask`, the allocation, the execution with its outcome, each
atomic addition of `updateWorkerStats`, the report and the reset of `currentTask`. A panic
inside the call of `Execute` becomes an error. One in the task's `EstimatedGas` or
`EstimatedDuration`, or while `createStorageView` runs, is outside the function that recovers
(`parallel.go:237-241`, `277`): it ends the process and is not modelled. `AllocationFailed` is the early return, which leaves
`currentTask` and the statistics alone. The collector loads the counters of the workers one by
one (`Load`) and publishes sums (`Publish`) while the workers go on. `Shutdown` may time out
at any moment. The scheduler is a set of tasks to hand out, which an aborted task enters
again; `NothingReady` may also happen when tasks are ready, as `NextTask` looks at its queues
one after the other.

### EngineLifecycle

Each `Start` creates a scheduler, an executor and, with `EnableMetrics`, a collector with its
loop: the generation `gen`. `pe.mutex` is a `sync.RWMutex`: `writer` is the caller of `Lock`,
which keeps new readers out at once, and `readers` are those who are in. `Start`,
`Configure` and `SetAccessOracle` are one step once they have the mutex; `Stop` holds it from
`Stop` to `StopReturn`, with a step for the end or the timeout of `Shutdown`, for `Close` and
for `wg.Wait`. `Execute` is a step for each thing it reads or does without the mutex: `started`
(`Execute`), the coordinator (`Prepare`), the scheduler's look at `shutdown` (`AddTasksCheck`) and
the entry of the batch under `taskMutex` (`AddTasks`, or `CircularDependency` when it returns that
error). Then it collects metrics; `waitForCompletion` is a stub that waits for nothing. The loops of all generations read the collector of the present one, as in the
code, and the context is never made anew after a `Stop`. A panic stops everything.

`pe.executor` has a variable of its own, `peExecutor`, because `ExecuteWithExecutor` reads it
before it calls `Execute` and writes the value back after it, without the mutex and perhaps
with a `Start` in between: `putBack` collects the executors that are forgotten this way, nil
written over them included. `Stop` does not find those and their workers run on, which
`OldGenerationsEnd` says. In `Stop` the check for nil and the call of `Shutdown` are
one step. `MayCall` gives each client its operations.

`BatchesFindWorkers` says what the unlocked reads leave to a batch. It passes the check only in
the scheduler of the present start, and only while that has workers or a `Stop` waits for them to
end; a batch that comes with such a `Stop` is dropped. The check is not repeated under
`taskMutex`, so a `Close`, with the rest of its `Stop` and even another `Start`, may come before the
batch enters. It then enters a scheduler that is closed, nobody ever runs it, and `Execute` returns
no error. The property names this case as the one in which an entering batch need not find
workers. It makes no promise that an accepted batch is run; what it excludes is that a batch enters
an old scheduler, or one without workers, in any other way.

### LockFreeStorage

Nodes and chains are numbered in the order of their creation and pointers are numbers, with
0 for nil. `Write` holds the lock of the bucket and is one step. `Read` is a lookup under
the lock (`ReadLookup`), the load of the head, and a step per node; `Commit` is the same for
each write of the set; `GC` is a step per bucket, key and node, with the bucket locked from
`GCLock` to `GCUnlock`. A walking GC reads the status of a node and unlinks it in one step:
a commit that marks the node in between has the same effect as one that marks it after.
`Validate` is a second read of the key and the comparison of `isReadValid`. A value is known
by its key and version; the versions of the transactions in `NilTxs` have none, which is what
`isReadValid` asks of a read when it now finds nothing. A transaction writes each key at most once per incarnation. With a
pool, a node that is reused changes in one step, though in Go its fields are written one
after the other while others may read them.

`VersionStore` is what this promises to callers. Its state has no chains: every version
written, in the order of the writes; which are still `live` and which were marked
`committed`; what each transaction and each reader is doing; and the argument of a running
GC. A write adds a version, the mark of a commit and a removal by GC take one each, and a read
answers in one step. `reader[r].must` has the versions the read may not pass by: those that
suit it and were live when it was called, and of those written meanwhile whichever it happens
to notice. It may return one of them or one that is newer, removed or not, and "not found"
only if there is none. A removal takes a committed version only if a newer one of the key,
committed or not, stays; `Mark` may reach a version that is no longer live, because the commit
holds its node. The mapping in `LockFreeStorage` gives each of these as a function of the
chains: `Written`, `Live`, `Committed`, `Transactions`, `Calls` and `Horizon`. Steps along a
chain do not show.

"Most recent" means written last, in `VersionStore` as in the code. The README of the repository
says that reads see the latest committed version before their transaction
(src/README.md:429), which is the same only if transactions write a key in their order: when
transaction 2 writes and commits before transaction 1 does, a read at 3 finds the version of 1.
No run checks that sentence; `KeepsVersions` and the theorems hold for writes in any order.

### FastValidator, ConflictDetection and EarlyValidator

The store has per key the versions in the order of their writes, the newest last, and the places
of those that GC has removed. A `Read` returns the last one of a lower transaction that is still
there. It is one step, though in `LockFreeStorage` it walks a chain: reads that a write or a removal
overlaps are abstracted to one moment. A write (`StoreWrite`), a commit (`StoreCommit`) or the removal of
a version by GC (`StoreRemove`) may come between any two steps of a validation. GC takes any
uncommitted version, and a committed one only if it keeps a later one: committed, or of a higher
transaction, which may be an estimate that GC does not reach. `Execute` is the execution that reads
the keys of a result one by one, so that what it has seen need not be a snapshot. `Validate` goes
from the call over one step per read, and on the full path one per write, to the answer. `start` is
history: what the store held when the validation began. `ValidateBatch` gives worker `w` the results
`w`, `w + n`, `w + 2n` and so on.

`ValidIsSnapshot` is about accepted results: each read was the current one when the validation
began. `FromSnapshot` names what the comparison lets pass besides, three things:
- a read that found nothing, when transaction 0 has written the key;
- a read of a transaction that has written the key more than once;
- what GC makes look unchanged. If a key is written, validation begins, and GC removes the
  version (which it does also below a version that is not committed and invisible to the task), then a
  read that found nothing before the write is accepted. And a version that was read without a
  value and removed passes for a read of nothing, as the comparison asks for the value
  (`validator.go:401`).

What the code says, and the properties account for:
- A read that found nothing has the zero version, which is also version 0 of transaction 0; it
  stays valid when that transaction writes the key.
- A read is compared with an estimate by the transaction only; it stays valid when a later
  incarnation of the transaction has written the key.
- `isWriteValid` reads below the transaction of the write, so what it finds is always of a lower
  one: with `LockFreeStorage` it never rejects. `CheckWrite` has the comparison all the same.
- `ctx.Dependencies` is set nowhere: the check of dependencies has nothing to check.

The metrics of the validator are left out, as nothing but `GetMetrics` reads them. They do not
agree with the comments of their fields (`validator.go:37-39`, "Total validations performed",
"Validations that failed"): a batch counts its results in the total a second time (171), and a
rejection of the fast path (255-270) is counted in the total (132) but not as failed. Nor do they agree
with each other at all times, since the total, the successes and the failures are counted in
critical sections of their own.

`ConflictDetection` turns the access maps of `DetectConflicts` into the sequence of questions
`hasConflict` is asked, in any order of the keys. Look-up and update of the cache are two
critical sections; several calls share the cache and `CacheStore` evicts any entry of a full
one. The cached answer of a key is used for every pair of tasks. It is right because the answer
is "no" for a task and itself only, a question the read-write pass filters out; a
task that writes a key twice is asked about by the write-write pass, and the "no" then hides
the conflicts of other tasks on that key, in other calls too. `ConflictsExact` is about the keys
no task writes twice.

`EarlyValidator` adds the channel, with room for ten requests per worker, and the workers,
each waiting in a `select` of the shutdown and the requests, or validating. When the channel
is full a goroutine validates the request alone. A `Config` without `ConcurrentValidations`
gives an `EarlyValidator` without workers and without room, as the default only reaches the
embedded `FastValidator`; all its requests are validated this way. Requests left in the channel
at `Shutdown` are never answered, those that come after it may be left there too, and
`RequestsAnswered` excepts them. `Shutdown` is called once: a second call would close a closed
channel.

## The runs

| run | instance | result |
|---|---|---|
| `queue_local` | 3 tasks, 2 slots, 2 thieves | types, no loss, no duplicate, the inductive invariant (which has that no value is torn), refinement of `TaskDeque`, every accepted task is returned |
| `queue_remote` | 1 task, 2 slots | **violated**: a push from another goroutine loses the task |
| `scheduler` | 2 workers; `AllRequests`: 3 tasks in 2 batches with every acyclic graph and each configuration; a fan-out of 3 into worker queues of one slot or into the global queue; 3 tasks with access lists over an account and two slots, alone and with declared dependencies; graphs with cycles; chains with an aborted execution or with `Close` | the inductive invariant (types included), each task in one place, accurate worker status, no missed completion, sound plans, conflicting tasks never at once, refinement of `TaskExecution`, every submitted task completes, the search finds a cycle exactly when there is one |
| `scheduler_full` | 2 tasks, room for 1 | **violated**: a task marked ready is in no queue |
| `scheduler_repeated` | a dependency declared and planned | **violated**: a worker marked idle executes |
| `executor` | 1 task, 2 workers, 1 abort, failing allocations, `Shutdown` | the inductive invariant, each hand-out is reported once and counted once, published totals become exact, nothing happens after `Shutdown` returned, all goroutines end |
| `lifecycle` | 2 clients, an owner (`Start`, `Stop`, `Configure`) and a user (`ExecuteWithExecutor` with the `Execute` in it, `SetAccessOracle`, `Stop`), 2 starts, metrics on and off | the inductive invariant, `Stop` leaves nothing behind but executors put aside, returns unless a metrics loop waits for its mutex, and panics only because of a collector of an earlier start; a batch passes the scheduler's check, and enters it, only where workers run or a `Stop` waits for them, unless the scheduler was closed between the two |
| `lifecycle_stop` | 1 client, 1 start, metrics on | **violated**: `Stop` and the metrics loop wait for each other |
| `storage_reads` | 1 key, 2 transactions, the first of up to 2 incarnations, 1 reader at 2 and 3, versions without a value, GC(3) at all times, `SmallChains` | the inductive invariant, a reader skips no version, a valid read is current, versions are committed exactly, counters balance, refinement of `VersionStore` |
| `storage_pool` | 2 keys in one bucket, 1 transaction, 1 reader, reuse of nodes, GC at all times | chains stay separate, every commit and read returns |
| `storage_gc` | an uncommitted version on top | **violated**: GC removes the only committed version |
| `validation` | 2 keys, transactions 0, 1 and 3 that write and commit, GC, versions of 1 without a value, validations of transaction 2 on both paths by a worker, by two, by none and in batches; two calls of `DetectConflicts` with a cache of one entry | the inductive invariant, an accepted result is one of a snapshot but for what `FromSnapshot` excepts, conflicts are exact, requests are answered, `Shutdown` returns and leaves nothing half-way |

The runs marked **violated** state what a comment or the documentation says and show by
a counterexample that the code does something else; `PROJECT.json` quotes both.

### Bounds

The theorems have none of these bounds; they matter for liveness, for the other properties that
are only model-checked, and as a check that `IInv` is what the proofs take it for.

*Queue.* Two slots and three tasks fill the buffer, wrap around and reuse a slot while a
thief holds an old `top`; two thieves and the owner compete for one task.

*Scheduler.* `OrdinaryRequests` has all acyclic graphs over three tasks up to renaming.
`CyclicRequests` has graphs with cycles of one, two and three tasks, within a batch, across
both, and in the second batch alone. Two workers are enough for two completions at once, for
a theft while the owner pops, and for the race between `CompleteTask` and `AddTasks`; three tasks give a chain, a
fan-out and a join; the second batch adds a task while the first runs, before or after its
dependencies completed. `maxAborts` and `maxClose` of a setup bound what could happen for
ever.

*Planner.* Three tasks with four kinds of access lists have every conflict graph over three
tasks, also those whose colouring reverses the order of two tasks or leaves the last task in
the first partition. No two keys collide in these instances.

*Executor.* One task that may be handed out twice lets two workers run and count it in turn,
race with `Shutdown`, and change counters that the collector has or has not yet loaded.
`MaxAborts` bounds how often a task can meet a conflict.

*Engine.* Two starts give a restart with every change of the metrics in between, two clients
the overlap of any operation of the owner with any of the user; both may stop it.
`Execute` and `GetMetrics` are not called by themselves: the first begins where
`ExecuteWithExecutor` delegates to it, the second is what it ends with.
`MaxStarts` bounds the generations: after the last a `Start` that
would create another one waits.

*Storage.* Versions of two transactions, or of two incarnations, are enough for a reader to
stand on a node that is unlinked, for the head or a later node to go, and for a chain to be
deleted and created anew. A reader at 2 walks past the version of 2 that GC(3) unlinks; one
at 3 reads and validates while both versions are written. `MaxIncarnation` bounds how often
a transaction executes. GC and the readers run without a bound. The constraint `SmallChains` (`MCLockFreeStorage`)
follows the third write, the one of the second incarnation or of the other transaction, only
while the key has had one chain and no reader validates: chains of three versions are read,
committed and collected, validations and chains that are created anew meet up to two. The
theorems, `Refinement` among them, have none of these bounds.

*Validation.* One result with two reads and up to three writes, commits and removals in between
(`maxChanges` of a setup) has a read that becomes stale before, between and after the
comparisons; one with a single read and four changes has a version that is written, committed,
hidden under one of transaction 3, which the task does not see, and removed. Transaction 0 brings
the zero version, transaction 1 the reads without a value. The limits of the fast path are 1 read
and 1 write instead of 10 and 5, so that results of one and of two reads are on both sides. A
worker has room for one request in the channel instead of ten: three requests fill the worker
and the channel and leave one over. The cache has one entry for two keys, so that every
question about the other key evicts.

### Fairness

`ChaseLevQueue!FairSpec` has weak fairness of the owner's pops (its worker calls `NextTask`
in a loop) and of a push that began, none of the thieves. `WorkStealingScheduler!FairSpec`
has weak fairness of each worker, since `workerLoop` only ends when the context is cancelled
and executions end or time out, and of an `AddTasks` that began. Nobody has to submit a
batch. `LockFreeStorage!FairSpec` has weak fairness of a GC that runs and strong fairness of
commits and reads that began: they wait for the lock of a bucket, which GC takes again and
again, and a `sync.RWMutex` lets the waiting readers in whenever a writer unlocks.

`ParallelExecutor!FairSpec` has weak fairness of the workers and the collector, and strong
fairness of the collector's end, since `select` picks among the ready cases at random; nobody
has to call `Shutdown`. `EngineLifecycle!FairSpec` has fairness of every call that began, of
the workers that were told to stop and of the metrics loops: strong where they wait for
the mutex, which a `sync.RWMutex` gives to everyone in turn, or choose in a `select`; the
ticker need never fire.

`EarlyValidator!FairSpec` has weak fairness of every validation that began, of the workers,
of a batch and of a `Shutdown` that began; nobody has to submit, to write or to shut down
anything, and a worker that may return or take a request may do either.

`CHECK_DEADLOCK FALSE` is set where the system may stop: in `Scheduler` after `Close`, a
rejected batch or an abort, in `Executor` after `Shutdown`, in `Engine` and `EngineStop` after
a panic, in the deadlock that `lifecycle_stop` shows, and when all starts are used up, and in
`Validation` when the results and calls are used up.

## The proofs

Each component has a module of theorems. All of them follow one plan. The properties the runs
check are not inductive: whether the next step keeps them depends on what a goroutine has read
before, on who holds which lock, on what a queue contains. The model's module therefore states
an inductive invariant `IInv`, a conjunction of named parts; TLC checks it on the instances of
the component's run (of the storage's second one, `ChainInv` for a MemoryPool, a run checks the
part `ChainsWellFormed`); the proof shows that `Init` implies it and that every action keeps it, with
a lemma for each action (or for each kind of action) and each part it can disturb, and that it
implies the properties. Action properties and refinements use it as what is known of the state
before a step. The theorems are about `Spec`, without fairness.

### Work-stealing queue (`ChaseLevQueueProofs`)

For every set of tasks and thieves and every size, assuming `~RemotePush`, that pushes come from
the local end. Without this the theorems are false, as `queue_remote` shows.

| theorem | establishes |
|---|---|
| `Consistency`, `TypeCorrectness` | `Spec => []IInv`, `Spec => []TypeOK` |
| `NoTaskTakenTwice` | `Spec => []TakenAtMostOnce` |
| `NoTornTask` | `Spec => []OnlyTasksTaken` |
| `AcceptedTaskKept` | `Spec => []NoTaskLost` |
| `Refinement` | `Spec => RefinesTaskDeque`: the calls act as on an atomic bounded deque |

Whether a successful compare-and-swap hands out a task for the first time depends on what the
goroutine read earlier and on what may have happened to `top`, `bottom` and the slot since.
`IInv` says where the indices can be at each point of the owner's pop (`OwnerInv`, `PopInv`), that
a thief whose compare-and-swap can still succeed holds the oldest live task (`StealInv`), that the
live slots hold distinct tasks not yet returned (`LiveInv`), and that each task is waiting,
refused, live or returned once (`HistoryInv`). The arithmetic of the buffer is in lemmas: two
indices less than `Size` apart have different slots, so a push writes a slot no live index uses.

### Scheduler (`WorkStealingSchedulerProofs`)

For any number of workers, any queue size, graphs with cycles, aborts, `Close`, and full worker
queues, assuming `TasksSubmittedOnce`: batches repeat no task, within a batch or in a later one,
and no task lists a dependency twice. The code needs this: `scheduler_repeated` shows what a
repeated dependency does.

| theorem | establishes |
|---|---|
| `Consistency`, `TypeCorrectness` | `Spec => []IInv`, `Spec => []TypeOK` |
| `CurrentTaskIsAccurate` | `Spec => []WorkerStatusAccurate` |
| `NoCompletionIsMissed` | `Spec => []PendingWaits` |
| `NoTaskLostOrDuplicated` | `Spec => []OnePlace`, if the global queue has room for all tasks (`HasRoom`; `scheduler_full` shows the loss otherwise) |
| `Refinement` | `Spec => RunsInOrder`: the scheduler implements `TaskExecution` |

The parts of `IInv`: who holds tasks and `taskMutex` (`LockInv`), no task in two places
(`PlaceInv`), the status says which place (`StatusInv`; a task that was pushed and is not yet marked ready, `Pushed`,
is pending in a queue or in the hand of a worker that waits for `taskMutex`), a ready task has one (`ReadyInv`), the two
maps of the graph agree (`GraphInv`), later batches are unknown (`BatchInv`), the dependencies of
a ready or running task are completed (`OrderInv`), and a pending task waits for one unless it is
in the plan of the worker that holds the mutex (`WaitInv`). `WaitInv` is why no completion is
missed although `CompleteTask` and `AddTasks` each look at half of the picture. `Refinement` has a
lemma per action: each step starts or ends one execution, or stutters.

### Planner and coordinator (`CoordinatorProofs`)

| theorem | assumption | establishes |
|---|---|---|
| `PlanningIsSound` | no task is submitted twice | `Spec => []PlanIsSound` |
| `ConflictsAreSerialized` | `TasksSubmittedOnce` of the planned batches | `Spec => []ConflictsNeverOverlap` |

Both are for all access lists, hash functions and orders in which Go may range over the maps of
the planner. The colouring is a recursive function over the batch. Two neighbours get different
colours because each avoids those of the earlier ones, and the dependencies close no cycle because
they lead from a higher colour to a lower one. `ConflictsAreSerialized` joins this to the
scheduler: of two tasks that share a key, one depends on the other, a known task keeps what it
was submitted with whatever is reported about executions (`DeclaredInv`), and a running
task's dependencies are completed (`OrderInv`).

### Executor (`ParallelExecutorProofs`)

For any number of workers, any finite set of tasks and any `MaxAborts`, without assumptions.

| theorem | establishes |
|---|---|
| `Consistency`, `TypeCorrectness` | `Spec => []IInv`, `Spec => []TypeOK` |
| `HandoutsAreReported` | `Spec => []EveryHandoutReported` |
| `StatisticsMatchReports` | `Spec => []StatsMatchReports` |
| `NothingRunsAfterShutdown` | `Spec => ShutdownIsFinal` |

A worker's task, result and allocation follow from its place in `executeTask` (`WorkerInv`), and a
task is ready, held by one worker, or has ended once (`TaskInv`): so the reports and the hand-outs
balance while they change in different steps. `StatsMatchReports` compares sums over all workers
with sums over all tasks; the lemmas say what a change at one element does to a sum over a
finite set. `ShutdownInv` ties the result nil of `Shutdown` to the end of all goroutines.

### Engine (`EngineLifecycleProofs`)

For any clients, any operations each of them may call, and any number of starts, without
assumptions besides that clients are no numbers of generations.

| theorem | establishes |
|---|---|
| `Consistency`, `TypeCorrectness` | `Spec => []IInv`, `Spec => []TypeOK` |
| `StopLeavesNothing` | `Spec => []OldGenerationsEnd` |
| `PanicOnlyOfOldCollector` | `Spec => []PanicNeedsOldCollector` |
| `AcceptedBatchesFindWorkers` | `Spec => BatchesFindWorkers` |

The invariant says what a `Stop` has done at each of its steps (`StopInv`) and that only a `Stop`
ends what the present generation has (`PresentInv`), so that a scheduler that is not closed has
workers or a `Stop` that waits for them, although `Execute` and `ExecuteWithExecutor`
read and write the fields without the mutex; `GenerationInv` keeps account of the executors that
are put back over newer ones.

### Storage (`LockFreeStorageProofs`)

For any keys, buckets, transactions, incarnations, readers and calls of GC. The first four hold
with and without a `MemoryPool`; the others assume `UsePool = FALSE`, which is how the engine runs:
it passes on its field `memoryPool`, which nothing in the repository sets. With a pool a node can
be reused under a reader, and what a read or a commit then finds is anything.

| theorem | assumption | establishes |
|---|---|---|
| `ChainConsistency`, `TypeCorrectness` | | `Spec => []ChainInv`, `Spec => []TypeOK` |
| `ChainsStayWhole` | | `Spec => []ChainsWellFormed` |
| `TheAccountsBalance` | | `Spec => []AccountsBalance` |
| `Consistency` | no pool | `Spec => []IInv` |
| `ReadsSkipNoVersion` | no pool | `Spec => []NoVersionSkipped` |
| `ValidationIsSound` | no pool | `Spec => []ValidReadIsCurrent` |
| `CommitsAreExact` | no pool | `Spec => []CommitExact` |
| `Refinement` | no pool | `Spec => KeepsVersions`: the storage implements `VersionStore` |

*Without a pool* nodes are numbered as they are created, so pointers go to smaller numbers
(`LinksInv`). What
readers without a lock rely on is `NoGap`: from every node of a key, also one that GC has unlinked
and a reader still stands on, the next pointer passes by no version that is still in the chain.
`ReaderInv` and `TxInv` say that what a walk has yet to find lies at or below the node it is on,
`ChainOf` that a chain in a walker's hand is the one of its key or empty for good, `GCInv` where GC
stands. The nodes a chain links are given by a recursive function; the proofs unfold it along
pointers with strong induction on the numbers. The sums behind the two counters are cardinalities
of the sets of keys and of linked nodes.

`Refinement` uses this invariant: that a read may return the node it stands on, or nothing, is
`ReaderInv`; that a finished commit leaves none of its versions unmarked is `TxInv`; that GC has
kept a newer version than the committed one it removes is `GCInv`, since the node before it is
linked and has a larger number. A read that holds a chain from which everything has gone, and that
has been replaced by a new one, has nothing left that it must find; this is why `must` does not
grow with every write.

*With a pool* the numbers say nothing, as `Write` may put an old node in front of a younger one.
`ChainInv` has `Acyclic` instead: no set of nodes is closed under the pointers. This gives an
induction along the pointers, and with it that a chain is a line: a node has at most one
predecessor in it and is not behind itself, so that GC unlinks the node it stands on and no other.
That the pool and the chains have no node in common then follows step by step, together with
`OwnChain` (no two keys have one chain), `HoldsChain` (who is about to load a head has a chain) and
the counters, which need that every removed node was counted once.

### Validators (`EarlyValidatorProofs`)

For all configurations, keys, results, calls and sizes, and any number of writes, commits and
removals while results are validated, without assumptions besides the types in `SetupsAssumption` and
`CallsAssumption`.

| theorem | establishes |
|---|---|
| `Consistency`, `TypeCorrectness` | `Spec => []IInv`, `Spec => []TypeOK` |
| `AcceptedIsSnapshot` | `Spec => []ValidIsSnapshot` |
| `ConflictsAreExact` | `Spec => []ConflictsExact` |
| `ShutdownIsClean` | `Spec => []ShutdownLeavesNoneHalfway` |

A comparison happens after the validation began, and the execution read before. `JobInv` orders
the three: the version read, the one that was current at the beginning and the one compared have
positions among the versions written. What is current moves up, except that GC moves it down by
taking the version away: if the beginning found an earlier one than the read, the version read is
gone, and no comparison can meet it again. So when the first and the last are equal, the one in
between is too, unless GC took it away, which `FromSnapshot` excepts. `StoreInv` (a transaction numbers
its versions of a key upwards) makes the versions the comparison takes as equal the same.
`DetectionInv` says that of a key no task writes twice every
conflict is found or still to be asked, and that the cache, whatever it evicted, answers "conflict"
for it; the lemmas below it compute the questions of `DetectConflicts` as sets. `RequestInv` keeps each
request in one place.

### Lemmas (`SequenceLemmas`)

The prover cannot instantiate the library's induction theorems, which take an operator. Two lemmas
replace them. `NatSetInduction` is induction for a set of numbers instead of a predicate, proved
from the well-foundedness of inclusion on finite sets. `RecursionSolvable` says that a recursion
over an initial interval of the numbers has a solution, so that the recursive function of a
definition has the values its equation gives. With these the lemmas say what `Append`, `Tail`,
concatenation, removal, selection and flattening do to the elements of a sequence, to their order
and to the absence of repetitions. `Selection` exists because `SelectSeq` and `^` are recursive
operators the prover knows nothing of.

### Only model-checked

- Liveness, in every component, and whatever speaks of `ENABLED`: `EventuallyTaken`,
  `EveryTaskCompletes`, `OperationsReturn`, `GoroutinesEnd`, `StatsBecomeExact`,
  `StopReturnsUnlessMetricsWait`, `RequestsAnswered`, `ShutdownReturns`. The prover has no rules for
  fairness.
- `DetectsCycles`: the search of `CycleDetection` is recursive as in the code.
- The runs marked **violated**, which are counterexamples.

## Not modelled

`DistributedQueue` is not modelled: nothing in the repository creates one. The priorities of
`AdaptivePriorityQueue` are left open. The metrics of the validator, `GetWorkerStats` and
`GetStatus` of the scheduler only read. Statistics that are only displayed, gas and durations,
estimates of memory, the EVM itself and the example program are left out for good.

The planner sees one batch at a time, and so does `ConflictsNeverOverlap`: conflicting tasks of
two calls of `Execute` get no dependency and may run together. What a read returns while the node
it stands on is taken from a `MemoryPool` for another key is in the model as the steps that do it,
but no property excludes it: the code has nothing that would.

An abort that names a completed dependency leaves a task pending for ever, and a task of a
rejected batch may wait for ever; `PendingWaits` and `EveryTaskCompletes` therefore except
behaviours in which an execution was aborted and graphs with a cycle. `DefaultExecutor`, the only
executor, never returns the error that makes a worker call `AbortTask`.

## Plan

Modules still to write, the most important first:

1. Reused task IDs and dependencies on unknown tasks in the scheduler.
2. The priorities of `AdaptivePriorityQueue` and its hot tasks.

Theorems still to prove:

1. `FastValidator` over `LockFreeStorage`: that the store of the validators, where a read is one
   step, is an abstraction of `VersionStore`, for reads that no write overlaps.
2. `NoTaskLostOrDuplicated` for setups whose global queue is too small, up to the tasks that
   `scheduler_full` shows to be dropped.
