--------------------------- MODULE EngineLifecycle ---------------------------
(***************************************************************************)
(* The life cycle of a ParallelEngine in engine/engine.go: its operations, *)
(* called by several clients, and the metrics loop.  Every Start creates   *)
(* its own scheduler, executor and perhaps a metrics collector; they are   *)
(* known by the number of that Start, their generation.  The executor is   *)
(* reduced to its ending (ParallelExecutor has the rest), a batch to the   *)
(* scheduler it goes to and whether that takes it.  The field pe.executor  *)
(* has a variable of its own: ExecuteWithExecutor writes it without the    *)
(* mutex.                                                                  *)
(***************************************************************************)
EXTENDS Integers

CONSTANTS
  Clients,
  NoClient,
  MayCall,          \* client -> the operations it calls
  MaxStarts,        \* bound on the generations
  MetricsSettings   \* the values Config.EnableMetrics takes

Operations == {"start", "stop", "configure", "setOracle", "execute", "executeWith",
               "getMetrics"}

ASSUME NoClientAssumption == NoClient \notin Clients
ASSUME MayCallAssumption == MayCall \in [Clients -> SUBSET Operations]
ASSUME MaxStartsAssumption == MaxStarts \in Nat \ {0}
ASSUME MetricsSettingsAssumption == MetricsSettings \in (SUBSET BOOLEAN) \ {{}}

Generations == 1 .. MaxStarts

\* A client and a metrics loop are never the same reader of the mutex.
ASSUME ClientsAssumption == Clients \cap Generations = {}

VARIABLES
  enableMetrics,   \* pe.config.EnableMetrics
  started,         \* pe.started
  ctxDone,         \* has pe.cancel been called?
  gen,             \* the generation of the components, 0 before the first Start
  peExecutor,      \* the generation of pe.executor, 0 for nil
  putBack,         \* the executors that ExecuteWithExecutor replaced by an earlier one
  executor,        \* generation -> what its goroutines do
  closed,          \* the generations whose scheduler is closed
  collector,       \* the generation of pe.metricsCollector, 0 for nil
  closedChannels,  \* the collectors whose shutdown channel is closed
  loop,            \* generation -> its metrics loop
  writer,          \* who called pe.mutex.Lock last and has not unlocked
  readers,         \* the loops and clients that hold it for reading
  client,          \* client -> its operation, where it is, the executor and the
                   \*           scheduler it has read
  panicked         \* has the program crashed?

vars == <<enableMetrics, started, ctxDone, gen, peExecutor, putBack, executor, closed,
          collector, closedChannels, loop, writer, readers, client, panicked>>

held == <<peExecutor, putBack>>
components == <<gen, held, executor, closed, collector, closedChannels, loop>>
mutex == <<writer, readers>>

Idle == [op |-> "none", pc |-> "idle", exec |-> 0, sched |-> 0]

Init ==
  /\ enableMetrics \in MetricsSettings
  /\ started = FALSE
  /\ ctxDone = FALSE
  /\ gen = 0
  /\ peExecutor = 0
  /\ putBack = {}
  /\ executor = [g \in Generations |-> "none"]
  /\ closed = {}
  /\ collector = 0
  /\ closedChannels = {}
  /\ loop = [g \in Generations |-> "none"]
  /\ writer = NoClient
  /\ readers = {}
  /\ client = [c \in Clients |-> Idle]
  /\ panicked = FALSE

Goto(c, pc) == client' = [client EXCEPT ![c].pc = pc]
Return(c) == client' = [client EXCEPT ![c] = Idle]

\* A client calls an operation, which begins at the program counter of its name;
\* GetStatus locks as GetMetrics does.
Call(c, op) ==
  /\ client[c].pc = "idle"
  /\ client' = [client EXCEPT ![c] = [op |-> op, pc |-> op, exec |-> 0, sched |-> 0]]
  /\ UNCHANGED <<enableMetrics, started, ctxDone, components, mutex, panicked>>

\* Lock keeps new readers out at once and has the mutex when the present ones are gone.
\* The bound on the starts is in the guard.
Lock(c) ==
  /\ client[c].pc \in {"start", "stop", "configure", "setOracle"}
  /\ writer = NoClient
  /\ client[c].pc = "start" => started \/ gen < MaxStarts
  /\ writer' = c
  /\ UNCHANGED <<enableMetrics, started, ctxDone, components, readers, client, panicked>>

Locked(c) == writer = c /\ readers = {}

--------------------------------------------------------------------------------
(* Start *)

StartReturn(c) == IF client[c].op = "start" THEN Return(c) ELSE Goto(c, "prepare")

AlreadyStarted(c) ==
  /\ client[c].pc = "start"
  /\ Locked(c)
  /\ started
  /\ StartReturn(c)
  /\ writer' = NoClient
  /\ UNCHANGED <<enableMetrics, started, ctxDone, components, readers, panicked>>

\* Storage, scheduler, validator, executor and coordinator are all made anew.
InitializeComponents ==
  /\ gen' = gen + 1
  /\ peExecutor' = gen + 1
  /\ executor' = [executor EXCEPT ![gen + 1] = "running"]

\* Mutant: a collector that exists already is used again.
StartMetricsCollectionAgain ==
  /\ collector' = IF collector = 0 THEN gen + 1 ELSE collector
  /\ loop' = [loop EXCEPT ![gen + 1] = "select"]

StartMetricsCollection ==
  /\ collector' = gen + 1
  /\ loop' = [loop EXCEPT ![gen + 1] = "select"]

\* Without metrics the collector of an earlier start stays where it is, and so does the
\* context in any case.
Start(c) ==
  /\ client[c].pc = "start"
  /\ Locked(c)
  /\ ~ started
  /\ InitializeComponents
  /\ IF enableMetrics THEN StartMetricsCollection ELSE UNCHANGED <<collector, loop>>
  /\ started' = TRUE
  /\ StartReturn(c)
  /\ writer' = NoClient
  /\ UNCHANGED <<enableMetrics, ctxDone, putBack, closed, closedChannels, readers, panicked>>

--------------------------------------------------------------------------------
(* Stop, which holds the mutex to its end *)

NotStarted(c) ==
  /\ client[c].pc = "stop"
  /\ Locked(c)
  /\ ~ started
  /\ Return(c)
  /\ writer' = NoClient
  /\ UNCHANGED <<enableMetrics, started, ctxDone, components, readers, panicked>>

\* Cancels the context, closes the channel of the collector and begins the Shutdown of
\* pe.executor, if there is one.  Closing a closed channel is a panic.
Stop(c) ==
  /\ client[c].pc = "stop"
  /\ Locked(c)
  /\ started
  /\ ctxDone' = TRUE
  /\ IF collector \in closedChannels
     THEN panicked' = TRUE /\ UNCHANGED <<executor, closedChannels, client>>
     ELSE /\ closedChannels' = closedChannels \cup ({collector} \ {0})
          /\ executor' = [g \in Generations |->
                            IF g = peExecutor /\ executor[g] = "running"
                            THEN "stopping" ELSE executor[g]]
          /\ client' = [client EXCEPT ![c].exec = peExecutor,
                          ![c].pc = IF peExecutor = 0 THEN "close" ELSE "shutdown"]
          /\ UNCHANGED panicked
  /\ UNCHANGED <<enableMetrics, started, gen, held, closed, collector, loop, mutex>>

ShutdownDone(c) ==
  /\ client[c].pc = "shutdown"
  /\ executor[client[c].exec] = "ended"
  /\ Goto(c, "close")
  /\ UNCHANGED <<enableMetrics, started, ctxDone, components, mutex, panicked>>

\* The error is ignored; the goroutines end later.
ShutdownTimeout(c) ==
  /\ client[c].pc = "shutdown"
  /\ executor[client[c].exec] # "ended"
  /\ executor' = [executor EXCEPT ![client[c].exec] = "timedOut"]
  /\ Goto(c, "close")
  /\ UNCHANGED <<enableMetrics, started, ctxDone, gen, held, closed, collector,
                 closedChannels, loop, mutex, panicked>>

CloseScheduler(c) ==
  /\ client[c].pc = "close"
  /\ closed' = closed \cup {gen}
  /\ Goto(c, "wait")
  /\ UNCHANGED <<enableMetrics, started, ctxDone, gen, held, executor, collector,
                 closedChannels, loop, mutex, panicked>>

\* Mutant: the metrics loops are not waited for.
StopReturnAtOnce(c) ==
  /\ client[c].pc = "wait"
  /\ started' = FALSE
  /\ writer' = NoClient
  /\ Return(c)
  /\ UNCHANGED <<enableMetrics, ctxDone, components, readers, panicked>>

\* Mutant: the mutex is not unlocked.
StopReturnLocked(c) ==
  /\ client[c].pc = "wait"
  /\ \A g \in Generations : loop[g] \in {"none", "ended"}
  /\ started' = FALSE
  /\ Return(c)
  /\ UNCHANGED <<enableMetrics, ctxDone, components, mutex, panicked>>

\* wg.Wait returns when all metrics loops have ended.
StopReturn(c) ==
  /\ client[c].pc = "wait"
  /\ \A g \in Generations : loop[g] \in {"none", "ended"}
  /\ started' = FALSE
  /\ writer' = NoClient
  /\ Return(c)
  /\ UNCHANGED <<enableMetrics, ctxDone, components, readers, panicked>>

--------------------------------------------------------------------------------
(* Configure and SetAccessOracle *)

Configure(c, metrics) ==
  /\ client[c].pc = "configure"
  /\ Locked(c)
  /\ enableMetrics' = metrics
  /\ Return(c)
  /\ writer' = NoClient
  /\ UNCHANGED <<started, ctxDone, components, readers, panicked>>

\* The new coordinator has the scheduler of the present generation.
SetAccessOracle(c) ==
  /\ client[c].pc = "setOracle"
  /\ Locked(c)
  /\ Return(c)
  /\ writer' = NoClient
  /\ UNCHANGED <<enableMetrics, started, ctxDone, components, readers, panicked>>

--------------------------------------------------------------------------------
(* ExecuteWithExecutor, Execute and GetMetrics *)

\* The executor that is given is ignored.
ExecuteWithExecutor(c) ==
  /\ client[c].pc = "executeWith"
  /\ client' = [client EXCEPT ![c].exec = peExecutor, ![c].pc = "execute"]
  /\ UNCHANGED <<enableMetrics, started, ctxDone, components, mutex, panicked>>

PutBack(c) ==
  /\ client[c].pc = "putBack"
  /\ peExecutor' = client[c].exec
  /\ putBack' = putBack \cup ({peExecutor} \ {client[c].exec, 0})
  /\ Return(c)
  /\ UNCHANGED <<enableMetrics, started, ctxDone, gen, executor, closed, collector,
                 closedChannels, loop, mutex, panicked>>

\* Execute reads started without the mutex.
Execute(c) ==
  /\ client[c].pc = "execute"
  /\ Goto(c, IF started THEN "prepare" ELSE "start")
  /\ UNCHANGED <<enableMetrics, started, ctxDone, components, mutex, panicked>>

ExecuteReturn(c) == IF client[c].op = "executeWith" THEN Goto(c, "putBack") ELSE Return(c)

\* The coordinator is also read without the mutex; it has the scheduler of the start, or
\* of the SetAccessOracle, that made it.
Prepare(c) ==
  /\ client[c].pc = "prepare"
  /\ client' = [client EXCEPT ![c].sched = gen, ![c].pc = "check"]
  /\ UNCHANGED <<enableMetrics, started, ctxDone, components, mutex, panicked>>

\* Mutant: the scheduler does not look whether it is closed.
AddTasksUnchecked(c) ==
  /\ client[c].pc = "check"
  /\ Goto(c, "addTasks")
  /\ UNCHANGED <<enableMetrics, started, ctxDone, components, mutex, panicked>>

\* The scheduler looks at shutdown before it locks; the error of a closed one ends
\* Execute.
AddTasksCheck(c) ==
  /\ client[c].pc = "check"
  /\ IF client[c].sched \in closed THEN ExecuteReturn(c) ELSE Goto(c, "addTasks")
  /\ UNCHANGED <<enableMetrics, started, ctxDone, components, mutex, panicked>>

\* The batch enters under taskMutex, whatever has become of the scheduler since;
\* waitForCompletion is a stub that does not wait.
AddTasks(c) ==
  /\ client[c].pc = "addTasks"
  /\ client' = [client EXCEPT ![c].sched = 0, ![c].pc = "getMetrics"]
  /\ UNCHANGED <<enableMetrics, started, ctxDone, components, mutex, panicked>>

\* The tasks depend on each other in a circle: Execute returns the error.
CircularDependency(c) ==
  /\ client[c].pc = "addTasks"
  /\ ExecuteReturn(c)
  /\ UNCHANGED <<enableMetrics, started, ctxDone, components, mutex, panicked>>

GetMetrics(c) ==
  /\ client[c].pc = "getMetrics"
  /\ writer = NoClient
  /\ readers' = readers \cup {c}
  /\ Goto(c, "collect")
  /\ UNCHANGED <<enableMetrics, started, ctxDone, components, writer, panicked>>

\* Mutant: GetMetrics keeps the mutex.
GetMetricsReturnLocked(c) ==
  /\ client[c].pc = "collect"
  /\ ExecuteReturn(c)
  /\ UNCHANGED <<enableMetrics, started, ctxDone, components, mutex, panicked>>

GetMetricsReturn(c) ==
  /\ client[c].pc = "collect"
  /\ readers' = readers \ {c}
  /\ ExecuteReturn(c)
  /\ UNCHANGED <<enableMetrics, started, ctxDone, components, writer, panicked>>

--------------------------------------------------------------------------------
(* Goroutines *)

\* The workers end; before a Stop they run on.
ExecutorEnds(g) ==
  /\ executor[g] \in {"stopping", "timedOut"}
  /\ executor' = [executor EXCEPT ![g] = "ended"]
  /\ UNCHANGED <<enableMetrics, started, ctxDone, gen, held, closed, collector,
                 closedChannels, loop, mutex, client, panicked>>

\* The channel the loop listens to is the one of the present collector.
LoopEnd(g) ==
  /\ loop[g] = "select"
  /\ ctxDone \/ collector \in closedChannels
  /\ loop' = [loop EXCEPT ![g] = "ended"]
  /\ UNCHANGED <<enableMetrics, started, ctxDone, gen, held, executor, closed, collector,
                 closedChannels, mutex, client, panicked>>

\* The ticker fires; select may take it although the loop could end as well.
LoopTick(g) ==
  /\ loop[g] = "select"
  /\ loop' = [loop EXCEPT ![g] = "getMetrics"]
  /\ UNCHANGED <<enableMetrics, started, ctxDone, gen, held, executor, closed, collector,
                 closedChannels, mutex, client, panicked>>

LoopRLock(g) ==
  /\ loop[g] = "getMetrics"
  /\ writer = NoClient
  /\ readers' = readers \cup {g}
  /\ loop' = [loop EXCEPT ![g] = "collect"]
  /\ UNCHANGED <<enableMetrics, started, ctxDone, gen, held, executor, closed, collector,
                 closedChannels, writer, client, panicked>>

LoopRUnlock(g) ==
  /\ loop[g] = "collect"
  /\ readers' = readers \ {g}
  /\ loop' = [loop EXCEPT ![g] = "select"]
  /\ UNCHANGED <<enableMetrics, started, ctxDone, gen, held, executor, closed, collector,
                 closedChannels, writer, client, panicked>>

--------------------------------------------------------------------------------

ClientStep(c) ==
  \/ Lock(c)
  \/ AlreadyStarted(c)
  \/ Start(c)
  \/ NotStarted(c)
  \/ Stop(c)
  \/ ShutdownDone(c)
  \/ ShutdownTimeout(c)
  \/ CloseScheduler(c)
  \/ StopReturn(c)
  \/ \E m \in MetricsSettings : Configure(c, m)
  \/ SetAccessOracle(c)
  \/ ExecuteWithExecutor(c)
  \/ PutBack(c)
  \/ Execute(c)
  \/ Prepare(c)
  \/ AddTasksCheck(c)
  \/ AddTasks(c)
  \/ CircularDependency(c)
  \/ GetMetrics(c)
  \/ GetMetricsReturn(c)

LoopStep(g) == LoopEnd(g) \/ LoopTick(g) \/ LoopRLock(g) \/ LoopRUnlock(g)

\* A panic that nobody recovers ends the program.
Next ==
  /\ ~ panicked
  /\ \/ \E c \in Clients : (\E op \in MayCall[c] : Call(c, op)) \/ ClientStep(c)
     \/ \E g \in Generations : ExecutorEnds(g) \/ LoopStep(g)

Spec == Init /\ [][Next]_vars

\* Calls that began go on, also those that wait for the mutex again and again; the
\* workers that were told to stop end; a metrics loop runs, and select does not take
\* the ticker for ever when the loop could end.
FairSpec ==
  /\ Spec
  /\ \A c \in Clients : SF_vars(~ panicked /\ ClientStep(c))
  /\ \A g \in Generations : /\ WF_vars(~ panicked /\ ExecutorEnds(g))
                            /\ SF_vars(~ panicked /\ LoopRLock(g))
                            /\ WF_vars(~ panicked /\ LoopRUnlock(g))
                            /\ SF_vars(~ panicked /\ LoopEnd(g))

--------------------------------------------------------------------------------
(* Properties *)

\* The values the variables may take; the mutex is held, or waited for, by an operation
\* that unlocks it, and for reading by those who collect metrics.
TypeOK ==
  /\ enableMetrics \in BOOLEAN /\ started \in BOOLEAN
  /\ ctxDone \in BOOLEAN /\ panicked \in BOOLEAN
  /\ gen \in 0 .. MaxStarts
  /\ peExecutor \in 0 .. MaxStarts /\ putBack \in SUBSET Generations
  /\ executor \in [Generations -> {"none", "running", "stopping", "timedOut", "ended"}]
  /\ closed \in SUBSET Generations
  /\ collector \in 0 .. MaxStarts /\ closedChannels \in SUBSET Generations
  /\ loop \in [Generations -> {"none", "select", "getMetrics", "collect", "ended"}]
  /\ client \in [Clients -> [op: Operations \cup {"none"},
                             pc: Operations \cup {"idle", "shutdown", "close", "wait",
                                                   "putBack", "prepare", "check",
                                                   "addTasks", "collect"},
                             exec: 0 .. MaxStarts,
                             sched: 0 .. MaxStarts]]
  /\ writer \in {c \in Clients : client[c].pc \in {"start", "stop", "configure", "setOracle",
                                                    "shutdown", "close", "wait"}}
                \cup {NoClient}
  /\ readers = {c \in Clients : client[c].pc = "collect"}
               \cup {g \in Generations : loop[g] = "collect"}

\* Of the components of all starts, only those of the present one are active, and only
\* while the engine is started: Stop leaves no metrics loop, no open scheduler and no
\* worker behind, except workers it stopped waiting for, and those of an executor that
\* ExecuteWithExecutor replaced by the one it had read, perhaps nil, before a start.
OldGenerationsEnd ==
  \A g \in 1 .. gen : (g < gen \/ ~ started) =>
    /\ loop[g] \in {"none", "ended"}
    /\ g \in closed
    /\ executor[g] \in {"timedOut", "ended"} \/ g \in putBack

\* There are workers that take tasks from the scheduler of the present generation, or a
\* Stop waits for them to end and has not closed the scheduler yet.
WorkersRun ==
  \/ executor[gen] = "running"
  \/ \E d \in Clients : client[d].pc \in {"shutdown", "close"}

\* Execute reads the engine without the mutex, perhaps before a Stop and a new Start, and
\* yet a batch passes the check of AddTasks only in the scheduler of the present start,
\* and while that has workers or a Stop waits for them.  Both still hold when the batch
\* enters, unless the scheduler was closed in between, as the check is not repeated under
\* taskMutex: then Execute reports success for a batch that nobody ever runs.
BatchesFindWorkers ==
  [][\A c \in Clients :
       LET sched == client[c].sched IN
       /\ client[c].pc = "check" /\ client'[c].pc = "addTasks" => sched = gen /\ WorkersRun
       /\ client[c].pc = "addTasks" /\ client'[c].pc = "getMetrics" =>
            sched \in closed \/ (sched = gen /\ WorkersRun)]_vars

\* Stop closes a channel twice only if the last Start made no collector.
PanicNeedsOldCollector == panicked => loop[gen] = "none"

\* Stop returns, unless a metrics loop waits for the mutex that a Stop holds which waits
\* for that loop: nothing else keeps it, neither readers nor a Shutdown that times out.
StopReturnsUnlessMetricsWait ==
  \A c \in Clients :
    client[c].pc = "stop" ~>
      \/ client[c].pc = "idle"
      \/ panicked
      \/ \E d \in Clients, g \in Generations :
           client[d].pc = "wait" /\ loop[g] = "getMetrics"

\* "Stop gracefully stops the engine": it returns.
StopReturns == \A c \in Clients : client[c].pc = "stop" ~> client[c].pc = "idle" \/ panicked

--------------------------------------------------------------------------------
(* The inductive invariant *)

\* The client is inside a Stop that has told the components to end.
Stopping(c) == client[c].pc \in {"shutdown", "close", "wait"}

\* A Stop holds the mutex from its beginning to its end; a Start that waits for the
\* readers has a generation left, and a batch only comes to an engine that was started.
MutexInv ==
  \A c \in Clients :
    /\ Stopping(c) => writer = c /\ readers = {} /\ started
    /\ client[c].pc = "start" /\ writer = c => started \/ gen < MaxStarts
    /\ client[c].pc = "prepare" => gen > 0
    /\ client[c].pc \in {"check", "addTasks"} => client[c].sched > 0

\* No component is of a generation to come, and the present one has an executor, which
\* pe.executor holds unless another one was put back.
GenerationInv ==
  /\ started => gen > 0
  /\ \A g \in Generations : g > gen => executor[g] = "none" /\ loop[g] = "none"
  /\ \A g \in 1 .. gen : executor[g] # "none"
  /\ closed \subseteq 1 .. gen /\ closedChannels \subseteq 1 .. gen
  /\ collector <= gen /\ peExecutor <= gen /\ putBack \subseteq 1 .. gen
  /\ \A c \in Clients : client[c].exec <= gen /\ client[c].sched <= gen
  /\ peExecutor = gen \/ gen \in putBack

\* What a Stop has done when it is at each of its steps.
StopInv ==
  \A c \in Clients :
    /\ client[c].pc = "shutdown" =>
         /\ client[c].exec > 0
         /\ \/ gen \in putBack
            \/ client[c].exec = gen /\ executor[gen] \in {"stopping", "timedOut", "ended"}
    /\ client[c].pc \in {"close", "wait"} =>
         gen \in putBack \/ executor[gen] \in {"timedOut", "ended"}
    /\ client[c].pc = "wait" => gen \in closed

\* Only a Stop ends the components of the present generation, and its metrics loop
\* listens to the collector of its own start.
PresentInv ==
  gen > 0 =>
    /\ gen \in closed \/ WorkersRun
    /\ loop[gen] # "none" => collector = gen
    /\ started /\ gen \in closedChannels => \E d \in Clients : Stopping(d)

\* Whoever holds the mutex, the generations end one after the other and the components of
\* the present one are what the Stop that is under way, if any, has left of them.
IInv ==
  /\ TypeOK
  /\ MutexInv
  /\ GenerationInv
  /\ StopInv
  /\ PresentInv
  /\ OldGenerationsEnd
  /\ PanicNeedsOldCollector

================================================================================
