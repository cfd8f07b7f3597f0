--------------------------- MODULE ParallelExecutor ---------------------------
(***************************************************************************)
(* executor/parallel.go: the workers of a ParallelExecutor, the collector  *)
(* of its statistics and Shutdown.  The scheduler is reduced to a set of   *)
(* tasks it can hand out (WorkStealingScheduler has the rest), the         *)
(* resource manager to allocations that succeed or fail, and an execution  *)
(* to its outcome.  Times, gas and throughput are left out.  A panic is    *)
(* recovered inside the call of Execute only: one in EstimatedGas, in      *)
(* EstimatedDuration or while the view of the storage is made ends the     *)
(* process, and is not modelled.                                           *)
(***************************************************************************)
EXTENDS Integers, FiniteSetsExt

CONSTANTS
  Tasks,
  NoTask,
  NumWorkers,
  AllocationsFail,   \* can AllocateResources return an error?
  MaxAborts          \* bound on the reports of a conflict for each task

ASSUME TasksAssumption == IsFiniteSet(Tasks) /\ NoTask \notin Tasks
ASSUME BoundsAssumption ==
  NumWorkers \in Nat \ {0} /\ MaxAborts \in Nat /\ AllocationsFail \in BOOLEAN

Workers == 1 .. NumWorkers

\* How an execution ends.  DefaultExecutor succeeds or returns the error of its context;
\* Task.Execute may panic; other executors may report a conflict.
Outcomes == {"success", "error", "panic", "conflict"}

\* What is known of it afterwards: a panic is recovered and becomes an error.
Results == {"none", "success", "error", "conflict"}
Reports == {"completed", "failed", "aborted", "unallocated"}

VARIABLES
  ready,        \* the tasks NextTask can hand out
  handed,       \* task -> how often it was handed out
  reports,      \* task -> how often each kind of end was reported to the scheduler
  worker,       \* worker -> pc, its task, the result of the execution
  currentTask,  \* worker -> Worker.currentTask
  wstats,       \* worker -> its WorkerStats
  allocated,    \* the workers that hold an allocation
  cancelled,    \* is pe.ctx done?
  collector,    \* the stats collector: pc, position of its next load, sums
  stats,        \* the published ExecutorStats
  shutdown      \* the running or last Shutdown

vars == <<ready, handed, reports, worker, currentTask, wstats, allocated,
          cancelled, collector, stats, shutdown>>

NoSums == [active |-> 0, total |-> 0, successful |-> 0, failed |-> 0]
IdleCollector == [pc |-> "wait", next |-> 1, sums |-> NoSums]

Init ==
  /\ ready = Tasks
  /\ handed = [t \in Tasks |-> 0]
  /\ reports = [t \in Tasks |-> [r \in Reports |-> 0]]
  /\ worker = [w \in Workers |-> [pc |-> "loop", task |-> NoTask, result |-> "none"]]
  /\ currentTask = [w \in Workers |-> NoTask]
  /\ wstats = [w \in Workers |-> [executed |-> 0, succeeded |-> 0, failed |-> 0]]
  /\ allocated = {}
  /\ cancelled = FALSE
  /\ collector = IdleCollector
  /\ stats = NoSums
  /\ shutdown = "none"

Goto(w, pc) == worker' = [worker EXCEPT ![w].pc = pc]

background == <<cancelled, collector, stats, shutdown>>

--------------------------------------------------------------------------------
(* workerLoop *)

CheckContext(w) ==
  /\ worker[w].pc = "loop"
  /\ Goto(w, IF cancelled THEN "exited" ELSE "next")
  /\ UNCHANGED <<ready, handed, reports, currentTask, wstats, allocated, background>>

\* Between the check and this call the context may have been cancelled.
NextTask(w, t) ==
  /\ worker[w].pc = "next"
  /\ t \in ready
  /\ ready' = ready \ {t}
  /\ handed' = [handed EXCEPT ![t] = @ + 1]
  /\ worker' = [worker EXCEPT ![w].pc = "store", ![w].task = t]
  /\ UNCHANGED <<reports, currentTask, wstats, allocated, background>>

\* No task is ready, or none that this worker finds: it sleeps and tries again.
NothingReady(w) ==
  /\ worker[w].pc = "next"
  /\ Goto(w, "loop")
  /\ UNCHANGED <<ready, handed, reports, currentTask, wstats, allocated, background>>

--------------------------------------------------------------------------------
(* executeTask *)

StoreCurrent(w) ==
  /\ worker[w].pc = "store"
  /\ currentTask' = [currentTask EXCEPT ![w] = worker[w].task]
  /\ Goto(w, "allocate")
  /\ UNCHANGED <<ready, handed, reports, wstats, allocated, background>>

AllocateResources(w) ==
  /\ worker[w].pc = "allocate"
  /\ allocated' = allocated \cup {w}
  /\ Goto(w, "execute")
  /\ UNCHANGED <<ready, handed, reports, currentTask, wstats, background>>

\* Mutant: the early return does not tell the scheduler.
AllocationFailedSilently(w) ==
  /\ AllocationsFail
  /\ worker[w].pc = "allocate"
  /\ worker' = [worker EXCEPT ![w].pc = "loop", ![w].task = NoTask]
  /\ UNCHANGED <<ready, handed, reports, currentTask, wstats, allocated, background>>

\* The early return neither counts the task nor clears currentTask.
AllocationFailed(w) ==
  /\ AllocationsFail
  /\ worker[w].pc = "allocate"
  /\ reports' = [reports EXCEPT ![worker[w].task]["unallocated"] = @ + 1]
  /\ worker' = [worker EXCEPT ![w].pc = "loop", ![w].task = NoTask]
  /\ UNCHANGED <<ready, handed, currentTask, wstats, allocated, background>>

Execute(w, outcome) ==
  /\ worker[w].pc = "execute"
  /\ outcome = "conflict" => reports[worker[w].task]["aborted"] < MaxAborts
  /\ worker' = [worker EXCEPT ![w].pc = "release",
                              ![w].result = IF outcome = "panic" THEN "error" ELSE outcome]
  /\ UNCHANGED <<ready, handed, reports, currentTask, wstats, allocated, background>>

ReleaseResources(w) ==
  /\ worker[w].pc = "release"
  /\ allocated' = allocated \ {w}
  /\ Goto(w, "count")
  /\ UNCHANGED <<ready, handed, reports, currentTask, wstats, background>>

\* updateWorkerStats: one atomic addition after the other.
CountExecuted(w) ==
  /\ worker[w].pc = "count"
  /\ wstats' = [wstats EXCEPT ![w].executed = @ + 1]
  /\ Goto(w, "countOutcome")
  /\ UNCHANGED <<ready, handed, reports, currentTask, allocated, background>>

\* Mutant: a conflict counts neither as a success nor as a failure.
CountOutcomeOfFinished(w) ==
  /\ worker[w].pc = "countOutcome"
  /\ wstats' = CASE worker[w].result = "success" -> [wstats EXCEPT ![w].succeeded = @ + 1]
               [] worker[w].result = "error" -> [wstats EXCEPT ![w].failed = @ + 1]
               [] OTHER -> wstats
  /\ Goto(w, "report")
  /\ UNCHANGED <<ready, handed, reports, currentTask, allocated, background>>

CountOutcome(w) ==
  /\ worker[w].pc = "countOutcome"
  /\ wstats' = IF worker[w].result = "success"
               THEN [wstats EXCEPT ![w].succeeded = @ + 1]
               ELSE [wstats EXCEPT ![w].failed = @ + 1]
  /\ Goto(w, "report")
  /\ UNCHANGED <<ready, handed, reports, currentTask, allocated, background>>

\* extractDependency recognises a conflict by the text of the error.
ReportOf(result) ==
  CASE result = "success" -> "completed"
    [] result = "conflict" -> "aborted"
    [] OTHER -> "failed"

\* CompleteTask or AbortTask; an aborted task will be handed out again.
Report(w) ==
  /\ worker[w].pc = "report"
  /\ LET t == worker[w].task
         r == ReportOf(worker[w].result)
     IN  /\ reports' = [reports EXCEPT ![t][r] = @ + 1]
         /\ ready' = IF r = "aborted" THEN ready \cup {t} ELSE ready
  /\ worker' = [worker EXCEPT ![w].pc = "clear", ![w].task = NoTask,
                              ![w].result = "none"]
  /\ UNCHANGED <<handed, currentTask, wstats, allocated, background>>

ClearCurrent(w) ==
  /\ worker[w].pc = "clear"
  /\ currentTask' = [currentTask EXCEPT ![w] = NoTask]
  /\ Goto(w, "loop")
  /\ UNCHANGED <<ready, handed, reports, wstats, allocated, background>>

WorkerStep(w) ==
  \/ CheckContext(w)
  \/ \E t \in Tasks : NextTask(w, t)
  \/ NothingReady(w)
  \/ StoreCurrent(w)
  \/ AllocateResources(w)
  \/ AllocationFailed(w)
  \/ \E o \in Outcomes : Execute(w, o)
  \/ ReleaseResources(w)
  \/ CountExecuted(w)
  \/ CountOutcome(w)
  \/ Report(w)
  \/ ClearCurrent(w)

--------------------------------------------------------------------------------
(* statsCollector *)

work == <<ready, handed, reports, worker, currentTask, wstats, allocated>>

\* A tick and the end of the context may be ready together; select takes either.
Tick ==
  /\ collector.pc = "wait"
  /\ collector' = [collector EXCEPT !.pc = "load"]
  /\ UNCHANGED <<work, cancelled, stats, shutdown>>

\* Mutant: the collector waits for the end of Shutdown, which waits for the collector.
CollectorExitLast ==
  /\ collector.pc = "wait"
  /\ shutdown = "done"
  /\ collector' = [collector EXCEPT !.pc = "exited"]
  /\ UNCHANGED <<work, cancelled, stats, shutdown>>

CollectorExit ==
  /\ collector.pc = "wait"
  /\ cancelled
  /\ collector' = [collector EXCEPT !.pc = "exited"]
  /\ UNCHANGED <<work, cancelled, stats, shutdown>>

\* Mutant: the last worker is left out.
LoadsOfOthers == 4 * (NumWorkers - 1)

Loads == 4 * NumWorkers

\* The loads of updateOverallStats, four for each worker; the workers go on meanwhile.
Load ==
  /\ collector.pc = "load"
  /\ collector.next <= Loads
  /\ LET w == (collector.next - 1) \div 4 + 1
         s == collector.sums
     IN  collector' = [collector EXCEPT !.next = @ + 1, !.sums =
           CASE (collector.next - 1) % 4 = 0 ->
                  [s EXCEPT !.active = @ + (IF currentTask[w] = NoTask THEN 0 ELSE 1)]
             [] (collector.next - 1) % 4 = 1 -> [s EXCEPT !.total = @ + wstats[w].executed]
             [] (collector.next - 1) % 4 = 2 -> [s EXCEPT !.successful = @ + wstats[w].succeeded]
             [] (collector.next - 1) % 4 = 3 -> [s EXCEPT !.failed = @ + wstats[w].failed]]
  /\ UNCHANGED <<work, cancelled, stats, shutdown>>

\* Mutant: the sums are not started anew.
PublishKeepingSums ==
  /\ collector.pc = "load"
  /\ collector.next > Loads
  /\ stats' = collector.sums
  /\ collector' = [collector EXCEPT !.pc = "wait", !.next = 1]
  /\ UNCHANGED <<work, cancelled, shutdown>>

\* The results are written under statsMutex, so that GetStats sees all of them.
Publish ==
  /\ collector.pc = "load"
  /\ collector.next > Loads
  /\ stats' = collector.sums
  /\ collector' = IdleCollector
  /\ UNCHANGED <<work, cancelled, shutdown>>

CollectorStep == Tick \/ CollectorExit \/ Load \/ Publish

--------------------------------------------------------------------------------
(* Shutdown *)

Shutdown ==
  /\ shutdown = "none"
  /\ cancelled' = TRUE
  /\ shutdown' = "waiting"
  /\ UNCHANGED <<work, collector, stats>>

\* Mutant: only the workers with a task are waited for.
ShutdownDoneWhenIdle ==
  /\ shutdown = "waiting"
  /\ \A w \in Workers : currentTask[w] = NoTask
  /\ shutdown' = "done"
  /\ UNCHANGED <<work, cancelled, collector, stats>>

\* The goroutine that waits for the WaitGroup closes done.
ShutdownDone ==
  /\ shutdown = "waiting"
  /\ \A w \in Workers : worker[w].pc = "exited"
  /\ collector.pc = "exited"
  /\ shutdown' = "done"
  /\ UNCHANGED <<work, cancelled, collector, stats>>

ShutdownTimeout ==
  /\ shutdown = "waiting"
  /\ shutdown' = "timeout"
  /\ UNCHANGED <<work, cancelled, collector, stats>>

Next ==
  \/ \E w \in Workers : WorkerStep(w)
  \/ CollectorStep
  \/ Shutdown
  \/ ShutdownDone
  \/ ShutdownTimeout

Spec == Init /\ [][Next]_vars

\* Workers and the collector run; select, which picks among the ready cases at random,
\* does not prefer the ticker for ever.  Nobody has to call Shutdown.
FairSpec ==
  /\ Spec
  /\ \A w \in Workers : WF_vars(WorkerStep(w))
  /\ WF_vars(CollectorStep) /\ SF_vars(CollectorExit)

--------------------------------------------------------------------------------
(* Properties *)

Pcs == {"loop", "next", "store", "allocate", "execute", "release", "count",
        "countOutcome", "report", "clear", "exited"}

\* No more workers can be active than there are.
Sums == [active: 0 .. NumWorkers, total: Nat, successful: Nat, failed: Nat]

\* The values the variables may take.  A task ends once, after at most MaxAborts
\* conflicts; and a collector that adds up what it loaded at different times counts
\* each worker once.
TypeOK ==
  /\ ready \in SUBSET Tasks
  /\ handed \in [Tasks -> 0 .. MaxAborts + 1]
  /\ reports \in [Tasks -> [Reports -> 0 .. MaxAborts + 1]]
  /\ worker \in [Workers -> [pc: Pcs, task: Tasks \cup {NoTask}, result: Results]]
  /\ currentTask \in [Workers -> Tasks \cup {NoTask}]
  /\ wstats \in [Workers -> [executed: Nat, succeeded: Nat, failed: Nat]]
  /\ allocated \in SUBSET Workers
  /\ cancelled \in BOOLEAN
  /\ collector \in [pc: {"wait", "load", "exited"}, next: 1 .. Loads + 1, sums: Sums]
  /\ stats \in Sums
  /\ shutdown \in {"none", "waiting", "done", "timeout"}

Total(counter) == SumFunction([w \in Workers |-> wstats[w][counter]])
Reported(kind) == SumFunction([t \in Tasks |-> reports[t][kind]])

\* Whatever becomes of a task - success, error, panic, conflict, no resources - each time
\* it is handed out is reported to the scheduler exactly once.
EveryHandoutReported ==
  \A t \in Tasks :
    handed[t] = reports[t]["completed"] + reports[t]["failed"] + reports[t]["aborted"]
                + reports[t]["unallocated"] + Cardinality({w \in Workers : worker[w].task = t})

\* The statistics of the workers count what was reported to the scheduler, each
\* execution once as a success or a failure, up to the executions that end just now.
StatsMatchReports ==
  /\ Total("executed") =
       Reported("completed") + Reported("failed") + Reported("aborted")
       + Cardinality({w \in Workers : worker[w].pc \in {"countOutcome", "report"}})
  /\ \A w \in Workers :
       wstats[w].executed = wstats[w].succeeded + wstats[w].failed
                            + (IF worker[w].pc = "countOutcome" THEN 1 ELSE 0)

\* When Shutdown returns nil, no worker holds a task or an allocation, and none ever
\* calls the scheduler again, though a worker that checked the context before it was
\* cancelled takes another task after.
ShutdownIsFinal ==
  [][shutdown = "done" =>
       /\ \A w \in Workers : worker[w].task = NoTask
       /\ allocated = {}
       /\ UNCHANGED <<handed, reports, stats>>]_vars

\* After Shutdown, also after one that timed out, all goroutines end.
GoroutinesEnd ==
  cancelled ~> collector.pc = "exited" /\ \A w \in Workers : worker[w].pc = "exited"

\* When the work is done, the published statistics become exact, although the collector
\* reads the counters one by one while the workers change them.
StatsBecomeExact ==
  (ready = {} /\ \A w \in Workers : worker[w].task = NoTask) ~>
    \/ cancelled
    \/ /\ stats.active = Cardinality({w \in Workers : currentTask[w] # NoTask})
       /\ stats.total = Total("executed")
       /\ stats.successful = Reported("completed")
       /\ stats.failed = Reported("failed") + Reported("aborted")

--------------------------------------------------------------------------------
(* The inductive invariant *)

Holding == {"store", "allocate", "execute", "release", "count", "countOutcome", "report"}
Finishing == {"release", "count", "countOutcome", "report"}

\* What a worker has at each point of executeTask.
WorkerInv ==
  \A w \in Workers :
    /\ worker[w].task # NoTask <=> worker[w].pc \in Holding
    /\ worker[w].result # "none" <=> worker[w].pc \in Finishing
    /\ w \in allocated <=> worker[w].pc \in {"execute", "release"}

Held(t) == \E w \in Workers : worker[w].task = t

\* A task can be handed out, is held by one worker, or has ended for good, once; before
\* that it only met conflicts.
TaskInv ==
  /\ \A v, w \in Workers : worker[v].task = worker[w].task => v = w \/ worker[v].task = NoTask
  /\ \A t \in Tasks :
       LET ends == reports[t]["completed"] + reports[t]["failed"] + reports[t]["unallocated"]
       IN  /\ Held(t) => t \notin ready
           /\ ends = IF t \in ready \/ Held(t) THEN 0 ELSE 1
           /\ handed[t] = reports[t]["aborted"] + ends + (IF Held(t) THEN 1 ELSE 0)
           /\ reports[t]["aborted"] <= MaxAborts
  /\ \A w \in Workers : worker[w].result = "conflict" =>
       reports[worker[w].task]["aborted"] < MaxAborts

\* A worker is loaded as active at most once in a round, and each round starts at zero.
CollectorInv ==
  /\ 4 * collector.sums.active <= collector.next + 2
  /\ collector.pc # "load" => collector.next = 1 /\ collector.sums = NoSums

\* The goroutines end after the context, and Shutdown returns nil after them.
ShutdownInv ==
  /\ shutdown # "none" <=> cancelled
  /\ \A w \in Workers : worker[w].pc = "exited" => cancelled
  /\ collector.pc = "exited" => cancelled
  /\ shutdown = "done" => /\ collector.pc = "exited"
                          /\ \A w \in Workers : worker[w].pc = "exited"

IInv ==
  /\ TypeOK /\ WorkerInv /\ TaskInv /\ CollectorInv /\ ShutdownInv /\ StatsMatchReports

================================================================================
