------------------------ MODULE EngineLifecycleProofs ------------------------
(***************************************************************************)
(* Proofs about EngineLifecycle, for every set of clients, whatever they   *)
(* call, and every number of starts: a Stop leaves nothing behind that it  *)
(* could find, and batches are accepted only where workers run.            *)
(***************************************************************************)
EXTENDS EngineLifecycle, TLAPS

USE NoClientAssumption, MayCallAssumption, MaxStartsAssumption, MetricsSettingsAssumption,
    ClientsAssumption DEF Generations, WorkersRun

--------------------------------------------------------------------------------
(* The clients *)

ClientState == [op: Operations \cup {"none"},
                pc: Operations \cup {"idle", "shutdown", "close", "wait", "putBack",
                                     "prepare", "check", "addTasks", "collect"},
                exec: 0 .. MaxStarts,
                sched: 0 .. MaxStarts]

\* The parts of TypeOK.
SwitchesOK ==
  /\ enableMetrics \in BOOLEAN /\ started \in BOOLEAN
  /\ ctxDone \in BOOLEAN /\ panicked \in BOOLEAN

ValuesOK ==
  /\ gen \in 0 .. MaxStarts
  /\ peExecutor \in 0 .. MaxStarts /\ putBack \in SUBSET Generations
  /\ executor \in [Generations -> {"none", "running", "stopping", "timedOut", "ended"}]
  /\ closed \in SUBSET Generations
  /\ collector \in 0 .. MaxStarts /\ closedChannels \in SUBSET Generations
  /\ loop \in [Generations -> {"none", "select", "getMetrics", "collect", "ended"}]

WriterOK ==
  writer # NoClient =>
    writer \in Clients /\ client[writer].pc \in {"start", "stop", "configure", "setOracle",
                                                 "shutdown", "close", "wait"}

ReadersOK ==
  /\ readers \subseteq Clients \cup Generations
  /\ \A c \in Clients : c \in readers <=> client[c].pc = "collect"
  /\ \A g \in Generations : g \in readers <=> loop[g] = "collect"

LEMMA TypeParts ==
  TypeOK <=> SwitchesOK /\ ValuesOK /\ client \in [Clients -> ClientState] /\ WriterOK /\ ReadersOK
  <1>1. readers = {c \in Clients : client[c].pc = "collect"}
                  \cup {g \in Generations : loop[g] = "collect"} <=> ReadersOK
    BY DEF ReadersOK
  <1>2. writer \in {c \in Clients : client[c].pc \in {"start", "stop", "configure", "setOracle",
                                                    "shutdown", "close", "wait"}}
                \cup {NoClient} <=> WriterOK
    BY DEF WriterOK
  <1> QED
    BY <1>1, <1>2, Zenon DEF TypeOK, SwitchesOK, ValuesOK, ClientState

\* Client c goes to pc with what it has read of pe.executor, and with the scheduler of
\* its batch, if it has one or reads the coordinator; the others stay.
Moved(c, pc, exec) ==
  /\ client' \in [Clients -> ClientState]
  /\ client'[c].pc = pc
  /\ client'[c].exec = exec
  /\ client'[c].sched \in {0, client[c].sched, gen}
  /\ \A d \in Clients \ {c} : client'[d] = client[d]

LEMMA ClientType ==
  ASSUME TypeOK, NEW c \in Clients
  PROVE  client \in [Clients -> ClientState] /\ client[c] \in ClientState
  BY DEF TypeOK, ClientState

LEMMA GotoMoves ==
  ASSUME TypeOK, NEW c \in Clients, NEW pc, Goto(c, pc),
         pc \in Operations \cup {"idle", "shutdown", "close", "wait", "putBack", "prepare",
                                 "check", "addTasks", "collect"}
  PROVE  Moved(c, pc, client[c].exec) /\ client'[c].sched = client[c].sched
  BY ClientType DEF Goto, Moved, ClientState

LEMMA ReturnMoves ==
  ASSUME TypeOK, NEW c \in Clients, Return(c)
  PROVE  Moved(c, "idle", 0)
  BY ClientType DEF Return, Idle, Moved, ClientState

LEMMA CallMoves ==
  ASSUME TypeOK, NEW c \in Clients, NEW op \in MayCall[c], Call(c, op)
  PROVE  op \in Operations /\ Moved(c, op, 0)
  <1>1. op \in Operations
    OBVIOUS
  <1>2. [op |-> op, pc |-> op, exec |-> 0, sched |-> 0] \in ClientState
    BY <1>1 DEF ClientState
  <1> QED
    BY <1>1, <1>2, ClientType DEF Call, Moved

--------------------------------------------------------------------------------
(* The invariant holds initially *)

LEMMA InitIInv == Init => IInv
  <1> SUFFICES ASSUME Init
               PROVE  IInv
    OBVIOUS
  <1> USE DEF Init, Idle
  <1>1. TypeOK
    <2>1. SwitchesOK
      BY Zenon DEF SwitchesOK
    <2>2. ValuesOK
      BY DEF ValuesOK
    <2>3. client \in [Clients -> ClientState]
      BY DEF ClientState
    <2>4. WriterOK /\ ReadersOK
      BY DEF WriterOK, ReadersOK
    <2> QED
      BY <2>1, <2>2, <2>3, <2>4, TypeParts
  <1>2. MutexInv
    BY DEF MutexInv, Stopping
  <1>3. GenerationInv
    BY DEF GenerationInv
  <1>4. StopInv
    BY DEF StopInv
  <1>5. PresentInv
    BY DEF PresentInv
  <1>6. OldGenerationsEnd /\ PanicNeedsOldCollector
    BY DEF OldGenerationsEnd, PanicNeedsOldCollector
  <1> QED
    BY <1>1, <1>2, <1>3, <1>4, <1>5, <1>6 DEF IInv

--------------------------------------------------------------------------------
(* Steps of a client that leave the components alone *)

\* It suffices that the mutex fits the client's next program counter and that the step is
\* no part of a Stop and does not touch the mutex during one.
LEMMA ClientOnly ==
  ASSUME IInv, NEW c \in Clients, NEW pc, NEW exec \in 0 .. gen,
         UNCHANGED <<started, ctxDone, components, panicked>>,
         enableMetrics' \in BOOLEAN,
         Moved(c, pc, exec),
         ~ Stopping(c), pc \notin {"shutdown", "close", "wait"},
         pc = "start" => (writer' = c => started \/ gen < MaxStarts),
         pc = "prepare" => gen > 0,
         pc \in {"check", "addTasks"} => client'[c].sched > 0,
         \A d \in Clients \ {c} : writer' = d => writer = d,
         \A d \in Clients : Stopping(d) => UNCHANGED mutex,
         WriterOK', ReadersOK'
  PROVE  IInv'
  <1> USE DEF components, held, mutex
  <1>1. TypeOK /\ SwitchesOK /\ ValuesOK
    BY TypeParts DEF IInv
  <1>2. TypeOK'
    <2>1. SwitchesOK'
      BY <1>1 DEF SwitchesOK
    <2>2. ValuesOK'
      BY <1>1 DEF ValuesOK
    <2>3. (client \in [Clients -> ClientState])'
      BY DEF Moved, ClientState, Operations
    <2> QED
      BY <2>1, <2>2, <2>3, TypeParts, PTL
  <1>3. /\ \A d \in Clients \ {c} : client'[d] = client[d]
        /\ client'[c].pc = pc /\ client'[c].exec = exec
        /\ client'[c].sched \in {0, client[c].sched, gen}
        /\ \A d \in Clients : Stopping(d) <=> Stopping(d)'
    BY DEF Moved, Stopping
  <1>4. MutexInv'
    BY <1>3 DEF IInv, MutexInv, Stopping
  <1>5. GenerationInv'
    <2>1. \A d \in Clients : client'[d].exec <= gen /\ client'[d].sched <= gen
      BY <1>1, <1>3 DEF IInv, GenerationInv, ValuesOK
    <2> QED
      BY <2>1 DEF IInv, GenerationInv
  <1>6. StopInv'
    BY <1>3 DEF IInv, StopInv
  <1>7. PresentInv'
    BY <1>3 DEF IInv, PresentInv, Stopping
  <1>8. OldGenerationsEnd' /\ PanicNeedsOldCollector'
    BY DEF IInv, OldGenerationsEnd, PanicNeedsOldCollector
  <1> QED
    BY <1>2, <1>4, <1>5, <1>6, <1>7, <1>8 DEF IInv

\* The mutex keeps its holders if a client that has it not moves on without it.
LEMMA MutexUntouched ==
  ASSUME IInv, NEW c \in Clients, NEW pc, NEW exec, Moved(c, pc, exec),
         UNCHANGED <<mutex, loop>>,
         client[c].pc # "collect", pc # "collect",
         writer # c \/ pc \in {"start", "stop", "configure", "setOracle", "shutdown", "close",
                              "wait"}
  PROVE  WriterOK' /\ ReadersOK'
  <1>1. WriterOK /\ ReadersOK
    BY TypeParts DEF IInv
  <1>2. WriterOK'
    BY <1>1 DEF WriterOK, Moved, mutex
  <1>3. ReadersOK'
    BY <1>1 DEF ReadersOK, Moved, mutex
  <1> QED
    BY <1>2, <1>3

\* A client that has the mutex moves on and unlocks it.
LEMMA MutexUnlocked ==
  ASSUME IInv, NEW c \in Clients, NEW pc, NEW exec, Moved(c, pc, exec),
         UNCHANGED <<readers, loop>>,
         writer = c, writer' = NoClient,
         pc # "collect"
  PROVE  WriterOK' /\ ReadersOK'
  <1>1. WriterOK /\ ReadersOK
    BY TypeParts DEF IInv
  <1>2. client[c].pc # "collect"
    BY <1>1 DEF WriterOK
  <1>3. ReadersOK'
    BY <1>1, <1>2 DEF ReadersOK, Moved
  <1> QED
    BY <1>3 DEF WriterOK

LEMMA LockingSteps ==
  ASSUME IInv, NEW c \in Clients,
         \/ Lock(c)
         \/ AlreadyStarted(c)
         \/ NotStarted(c)
         \/ \E m \in MetricsSettings : Configure(c, m)
         \/ SetAccessOracle(c)
  PROVE  IInv'
  <1>1. /\ TypeOK /\ SwitchesOK /\ ValuesOK /\ WriterOK /\ ReadersOK
        /\ client \in [Clients -> ClientState]
    BY TypeParts DEF IInv
  <1>2. client[c].exec \in 0 .. gen
    BY <1>1 DEF IInv, GenerationInv, ClientState
  <1>3. gen >= 0 /\ enableMetrics \in BOOLEAN
    BY <1>1 DEF ValuesOK, SwitchesOK
  <1>4. \A d \in Clients : Stopping(d) => writer = d
    BY DEF IInv, MutexInv
  <1>5. CASE Lock(c)
    <2>1. Moved(c, client[c].pc, client[c].exec)
      BY <1>1, <1>5 DEF Lock, Moved
    <2>2. WriterOK' /\ ReadersOK'
      <3>1. WriterOK'
        BY <1>1, <1>5, <2>1 DEF Lock, WriterOK, Moved
      <3>2. ReadersOK'
        BY <1>1, <1>5, <2>1 DEF Lock, ReadersOK, Moved, components
      <3> QED
        BY <3>1, <3>2
    <2>3. ~ Stopping(c) /\ \A d \in Clients : ~ Stopping(d)
      BY <1>4, <1>5 DEF Lock
    <2>4. client[c].pc \notin {"shutdown", "close", "wait", "prepare", "check", "addTasks"}
      BY <1>5 DEF Lock
    <2> QED
      BY <1>2, <1>3, <1>5, <2>1, <2>2, <2>3, <2>4, ClientOnly DEF Lock
  <1>6. CASE AlreadyStarted(c)
    <2>1. PICK pc \in {"idle", "prepare"}, exec \in 0 .. gen : Moved(c, pc, exec)
      BY <1>1, <1>2, <1>3, <1>6, ReturnMoves, GotoMoves DEF AlreadyStarted, StartReturn
    <2>2. WriterOK' /\ ReadersOK'
      BY <1>6, <2>1, MutexUnlocked DEF AlreadyStarted, Locked, components
    <2>3. ~ Stopping(c) /\ \A d \in Clients : ~ Stopping(d)
      BY <1>4, <1>6 DEF AlreadyStarted, Locked, Stopping
    <2>4. gen > 0
      BY <1>6 DEF AlreadyStarted, IInv, GenerationInv
    <2> QED
      BY <1>2, <1>3, <1>6, <2>1, <2>2, <2>3, <2>4, ClientOnly DEF AlreadyStarted
  <1>7. CASE NotStarted(c) \/ SetAccessOracle(c) \/ \E m \in MetricsSettings : Configure(c, m)
    <2> USE <1>7 DEF NotStarted, SetAccessOracle, Configure
    <2>1. Moved(c, "idle", 0)
      BY <1>1, ReturnMoves
    <2>2. WriterOK' /\ ReadersOK'
      BY <2>1, MutexUnlocked DEF Locked, components
    <2>3. ~ Stopping(c) /\ \A d \in Clients : ~ Stopping(d)
      BY <1>4 DEF Locked, Stopping
    <2>4. enableMetrics' \in BOOLEAN
      BY <1>3
    <2>5. UNCHANGED <<started, ctxDone, components, panicked>> /\ writer' = NoClient
      OBVIOUS
    <2> QED
      BY <1>3, <2>1, <2>2, <2>3, <2>4, <2>5, ClientOnly
  <1> QED
    BY <1>5, <1>6, <1>7

LEMMA FreeSteps ==
  ASSUME IInv, NEW c \in Clients,
         \/ \E op \in MayCall[c] : Call(c, op)
         \/ ExecuteWithExecutor(c)
         \/ Execute(c)
         \/ Prepare(c)
         \/ AddTasksCheck(c)
         \/ AddTasks(c)
         \/ CircularDependency(c)
         \/ GetMetrics(c)
         \/ GetMetricsReturn(c)
  PROVE  IInv'
  <1>1. /\ TypeOK /\ SwitchesOK /\ ValuesOK /\ WriterOK /\ ReadersOK
        /\ client \in [Clients -> ClientState]
    BY TypeParts DEF IInv
  <1>2. client[c].exec \in 0 .. gen
    BY <1>1 DEF IInv, GenerationInv, ClientState
  <1>3. gen >= 0 /\ 0 \in 0 .. gen /\ peExecutor \in 0 .. gen /\ enableMetrics \in BOOLEAN
    BY <1>1 DEF ValuesOK, SwitchesOK, IInv, GenerationInv
  <1>4. ~ Stopping(c) /\ writer # c
    BY <1>1 DEF WriterOK, Stopping, Call, ExecuteWithExecutor, Execute, Prepare,
                AddTasksCheck, AddTasks, CircularDependency, GetMetrics, GetMetricsReturn
  <1>5. \A d \in Clients : Stopping(d) => writer = d
    BY DEF IInv, MutexInv
  <1>6. ASSUME NEW op \in MayCall[c], Call(c, op)
        PROVE  IInv'
    <2>1. op \in Operations /\ Moved(c, op, 0)
      BY <1>1, <1>6, CallMoves
    <2>2. op \notin {"shutdown", "close", "wait", "prepare", "check", "addTasks", "collect"}
      BY <2>1 DEF Operations
    <2>3. client[c].pc # "collect" /\ UNCHANGED <<mutex, loop>>
      BY <1>6 DEF Call, components
    <2>4. WriterOK' /\ ReadersOK'
      BY <1>4, <2>1, <2>2, <2>3, MutexUntouched
    <2>5. UNCHANGED <<enableMetrics, started, ctxDone, components, mutex, panicked>>
      BY <1>6 DEF Call
    <2> QED
      BY <1>3, <1>4, <2>1, <2>2, <2>4, <2>5, ClientOnly DEF mutex
  <1>7. CASE ExecuteWithExecutor(c)
    <2>1. Moved(c, "execute", peExecutor)
      <3>1. peExecutor \in 0 .. MaxStarts /\ "execute" \in Operations
        BY <1>1 DEF ValuesOK, Operations
      <3>2. client' = [client EXCEPT ![c].exec = peExecutor, ![c].pc = "execute"]
        BY <1>7 DEF ExecuteWithExecutor
      <3> QED
        BY <1>1, <3>1, <3>2 DEF Moved, ClientState
    <2>2. WriterOK' /\ ReadersOK'
      BY <1>4, <1>7, <2>1, MutexUntouched DEF ExecuteWithExecutor, components
    <2> QED
      BY <1>3, <1>4, <1>7, <2>1, <2>2, ClientOnly DEF ExecuteWithExecutor, mutex
  <1>8. CASE Execute(c)
    <2>1. PICK pc \in {"start", "prepare"} :
            Moved(c, pc, client[c].exec) /\ (pc = "prepare" => started)
      <3>1. CASE started
        BY <1>1, <1>8, <3>1, GotoMoves DEF Execute
      <3>2. CASE ~ started
        BY <1>1, <1>8, <3>2, GotoMoves DEF Execute, Operations
      <3> QED
        BY <3>1, <3>2
    <2>2. WriterOK' /\ ReadersOK'
      BY <1>4, <1>8, <2>1, MutexUntouched DEF Execute, components
    <2>3. pc = "prepare" => gen > 0
      BY <2>1 DEF IInv, GenerationInv
    <2> QED
      BY <1>2, <1>3, <1>4, <1>8, <2>1, <2>2, <2>3, ClientOnly DEF Execute, mutex
  <1>9. CASE Prepare(c)
    <2>1. gen > 0
      BY <1>9 DEF Prepare, IInv, MutexInv
    <2>2. Moved(c, "check", client[c].exec) /\ client'[c].sched = gen
      BY <1>1, <1>9 DEF Prepare, Moved, ClientState, ValuesOK
    <2>3. WriterOK' /\ ReadersOK'
      BY <1>4, <1>9, <2>2, MutexUntouched DEF Prepare, components
    <2>4. UNCHANGED <<enableMetrics, started, ctxDone, components, mutex, panicked>>
      BY <1>9 DEF Prepare
    <2> QED
      BY <1>2, <1>3, <1>4, <2>1, <2>2, <2>3, <2>4, ClientOnly DEF mutex
  <1>12. CASE AddTasksCheck(c)
    <2>1. client[c].sched > 0
      BY <1>12 DEF AddTasksCheck, IInv, MutexInv
    <2>2. PICK pc \in {"putBack", "idle", "addTasks"}, exec \in 0 .. gen :
            Moved(c, pc, exec) /\ (pc = "addTasks" => client'[c].sched > 0)
      BY <1>1, <1>2, <1>3, <1>12, <2>1, GotoMoves, ReturnMoves DEF AddTasksCheck, ExecuteReturn
    <2>3. WriterOK' /\ ReadersOK'
      BY <1>4, <1>12, <2>2, MutexUntouched DEF AddTasksCheck, components
    <2> QED
      BY <1>3, <1>4, <1>12, <2>2, <2>3, ClientOnly DEF AddTasksCheck, mutex
  <1>13. CASE AddTasks(c)
    <2>1. Moved(c, "getMetrics", client[c].exec)
      BY <1>1, <1>13 DEF AddTasks, Moved, ClientState, Operations
    <2>2. WriterOK' /\ ReadersOK'
      BY <1>4, <1>13, <2>1, MutexUntouched DEF AddTasks, components
    <2> QED
      BY <1>2, <1>3, <1>4, <1>13, <2>1, <2>2, ClientOnly DEF AddTasks, mutex
  <1>14. CASE CircularDependency(c)
    <2>1. PICK pc \in {"putBack", "idle"}, exec \in 0 .. gen : Moved(c, pc, exec)
      BY <1>1, <1>2, <1>3, <1>14, GotoMoves, ReturnMoves DEF CircularDependency, ExecuteReturn
    <2>2. WriterOK' /\ ReadersOK'
      BY <1>4, <1>14, <2>1, MutexUntouched DEF CircularDependency, components
    <2> QED
      BY <1>3, <1>4, <1>14, <2>1, <2>2, ClientOnly DEF CircularDependency, mutex
  <1>10. CASE GetMetrics(c)
    <2>1. Moved(c, "collect", client[c].exec)
      BY <1>1, <1>10, GotoMoves DEF GetMetrics
    <2>2. WriterOK'
      BY <1>10 DEF GetMetrics, WriterOK
    <2>3. ReadersOK'
      BY <1>1, <1>10, <2>1 DEF GetMetrics, ReadersOK, Moved, components
    <2> QED
      BY <1>2, <1>3, <1>4, <1>5, <1>10, <2>1, <2>2, <2>3, ClientOnly DEF GetMetrics
  <1>11. CASE GetMetricsReturn(c)
    <2>1. PICK pc \in {"putBack", "idle"}, exec \in 0 .. gen : Moved(c, pc, exec)
      BY <1>1, <1>2, <1>3, <1>11, GotoMoves, ReturnMoves DEF GetMetricsReturn, ExecuteReturn
    <2>2. WriterOK'
      BY <1>1, <1>4, <1>11, <2>1 DEF GetMetricsReturn, WriterOK, Moved
    <2>3. ReadersOK'
      BY <1>1, <1>11, <2>1 DEF GetMetricsReturn, ReadersOK, Moved, components
    <2>4. \A d \in Clients : ~ Stopping(d)
      <3>1. c \in readers
        BY <1>1, <1>11 DEF GetMetricsReturn, ReadersOK
      <3> QED
        BY <3>1 DEF IInv, MutexInv
    <2> QED
      BY <1>3, <1>4, <1>11, <2>1, <2>2, <2>3, <2>4, ClientOnly DEF GetMetricsReturn
  <1> QED
    BY <1>6, <1>7, <1>8, <1>9, <1>10, <1>11, <1>12, <1>13, <1>14

--------------------------------------------------------------------------------
(* Start *)

LEMMA StartStep ==
  ASSUME IInv, ~ panicked, NEW c \in Clients, Start(c)
  PROVE  IInv'
  <1> USE DEF held
  <1>1. /\ TypeOK /\ SwitchesOK /\ ValuesOK /\ WriterOK /\ ReadersOK
        /\ client \in [Clients -> ClientState]
    BY TypeParts DEF IInv
  <1>2. client[c].exec \in 0 .. gen /\ gen \in Nat
    BY <1>1 DEF IInv, GenerationInv, ClientState, ValuesOK
  <1>3. /\ client[c].pc = "start" /\ writer = c /\ readers = {} /\ ~ started
        /\ started' = TRUE /\ writer' = NoClient /\ ~ panicked'
        /\ UNCHANGED <<putBack, closed, closedChannels, readers, enableMetrics, ctxDone,
                        panicked>>
    BY DEF Start, Locked
  <1>4. gen < MaxStarts /\ gen + 1 \in Generations
    BY <1>2, <1>3 DEF IInv, MutexInv
  <1>5. /\ gen' = gen + 1 /\ peExecutor' = gen + 1
        /\ executor'[gen + 1] = "running"
        /\ \A g \in Generations \ {gen + 1} : executor'[g] = executor[g]
        /\ executor' \in [Generations -> {"none", "running", "stopping", "timedOut", "ended"}]
    BY <1>1, <1>4 DEF Start, InitializeComponents, ValuesOK
  <1>6. /\ loop'[gen + 1] \in {"none", "select"}
        /\ loop'[gen + 1] # "none" => collector' = gen + 1
        /\ \A g \in Generations \ {gen + 1} : loop'[g] = loop[g]
        /\ loop' \in [Generations -> {"none", "select", "getMetrics", "collect", "ended"}]
        /\ collector' \in {collector, gen + 1}
    BY <1>1, <1>2, <1>4 DEF Start, StartMetricsCollection, ValuesOK, IInv, GenerationInv
  <1>7. PICK pc \in {"idle", "prepare"}, exec \in 0 .. gen : Moved(c, pc, exec)
    BY <1>1, <1>2, ReturnMoves, GotoMoves DEF Start, StartReturn
  <1>8. \A d \in Clients : ~ Stopping(d) /\ ~ Stopping(d)'
    BY <1>3, <1>7 DEF IInv, MutexInv, Stopping, Moved
  <1>9. TypeOK'
    <2>1. SwitchesOK'
      BY <1>1, <1>3, Zenon DEF SwitchesOK
    <2>2. ValuesOK'
      BY <1>1, <1>3, <1>4, <1>5, <1>6 DEF ValuesOK
    <2>3. (client \in [Clients -> ClientState])'
      BY <1>7 DEF Moved, ClientState, Operations
    <2>4. WriterOK'
      BY <1>3 DEF WriterOK
    <2>5. ReadersOK'
      <3>1. loop[gen + 1] = "none"
        BY <1>2, <1>4 DEF IInv, GenerationInv
      <3> QED
        BY <1>1, <1>3, <1>4, <1>6, <1>7, <3>1 DEF ReadersOK, Moved
    <2> QED
      BY <2>1, <2>2, <2>3, <2>4, <2>5, TypeParts, PTL
  <1>10. MutexInv'
    <2>1. \A d \in Clients : client'[d].pc \in {"check", "addTasks"} => client'[d].sched > 0
      BY <1>7 DEF IInv, MutexInv, Moved
    <2> QED
      BY <1>2, <1>3, <1>5, <1>7, <1>8, <2>1 DEF MutexInv, Moved
  <1>11. GenerationInv'
    <2>1. \A d \in Clients : client'[d].exec <= gen + 1 /\ client'[d].sched <= gen + 1
      <3>1. client'[c].exec <= gen + 1 /\ client'[c].sched <= gen + 1
        BY <1>1, <1>2, <1>7 DEF Moved, IInv, GenerationInv, ClientState
      <3>2. \A d \in Clients \ {c} : client'[d].exec <= gen + 1 /\ client'[d].sched <= gen + 1
        BY <1>1, <1>2, <1>7 DEF Moved, IInv, GenerationInv, ClientState
      <3> QED
        BY <3>1, <3>2
    <2>2. collector' <= gen + 1
      BY <1>1, <1>2, <1>6 DEF IInv, GenerationInv, ValuesOK
    <2>3. \A g \in 1 .. gen + 1 : executor'[g] # "none"
      BY <1>2, <1>4, <1>5 DEF IInv, GenerationInv
    <2>4. \A g \in Generations : g > gen + 1 => executor'[g] = "none" /\ loop'[g] = "none"
      BY <1>2, <1>5, <1>6 DEF IInv, GenerationInv
    <2> QED
      BY <1>2, <1>3, <1>5, <2>1, <2>2, <2>3, <2>4 DEF IInv, GenerationInv
  <1>12. StopInv'
    BY <1>8 DEF StopInv, Stopping
  <1>13. PresentInv'
    BY <1>1, <1>2, <1>3, <1>4, <1>5, <1>6, <1>7 DEF IInv, GenerationInv, PresentInv
  <1>14. OldGenerationsEnd'
    BY <1>2, <1>3, <1>4, <1>5, <1>6 DEF IInv, OldGenerationsEnd
  <1>15. PanicNeedsOldCollector'
    BY <1>3 DEF PanicNeedsOldCollector
  <1> QED
    BY <1>9, <1>10, <1>11, <1>12, <1>13, <1>14, <1>15 DEF IInv

--------------------------------------------------------------------------------
(* Stop *)

LEMMA StopStep ==
  ASSUME IInv, ~ panicked, NEW c \in Clients, Stop(c)
  PROVE  IInv'
  <1> USE DEF held, mutex
  <1>1. /\ TypeOK /\ SwitchesOK /\ ValuesOK /\ WriterOK /\ ReadersOK
        /\ client \in [Clients -> ClientState]
    BY TypeParts DEF IInv
  <1>2. /\ client[c].pc = "stop" /\ writer = c /\ readers = {} /\ started /\ ctxDone' = TRUE
        /\ UNCHANGED <<enableMetrics, started, gen, peExecutor, putBack, closed, collector,
                       loop, writer, readers>>
    BY DEF Stop, Locked
  <1>3. \A d \in Clients : ~ Stopping(d)
    BY <1>2 DEF IInv, MutexInv, Stopping
  <1>4. gen \in Generations /\ collector \in 0 .. gen /\ peExecutor \in 0 .. gen
    BY <1>1, <1>2 DEF IInv, GenerationInv, ValuesOK
  <1>5. gen \in closedChannels => FALSE
    BY <1>2, <1>3, <1>4 DEF IInv, PresentInv
  <1>6. CASE collector \in closedChannels
    <2>1. UNCHANGED <<executor, closedChannels, client>> /\ panicked' = TRUE
      BY <1>6 DEF Stop
    <2>2. TypeOK'
      <3>1. SwitchesOK'
        BY <1>1, <1>2, <2>1, Zenon DEF SwitchesOK
      <3>2. ValuesOK' /\ (client \in [Clients -> ClientState])' /\ WriterOK' /\ ReadersOK'
        BY <1>1, <1>2, <2>1 DEF ValuesOK, WriterOK, ReadersOK, ClientState
      <3> QED
        BY <3>1, <3>2, TypeParts, PTL
    <2>3. MutexInv' /\ GenerationInv' /\ StopInv'
      BY <1>2, <2>1 DEF IInv, MutexInv, GenerationInv, StopInv, Stopping
    <2>4. PresentInv' /\ OldGenerationsEnd'
      BY <1>2, <2>1 DEF IInv, PresentInv, OldGenerationsEnd, Stopping
    <2>5. PanicNeedsOldCollector'
      BY <1>2, <1>4, <1>5, <1>6 DEF IInv, PresentInv, PanicNeedsOldCollector
    <2> QED
      BY <2>2, <2>3, <2>4, <2>5 DEF IInv
  <1>7. CASE collector \notin closedChannels
    <2>1. /\ closedChannels' = closedChannels \cup ({collector} \ {0})
          /\ executor' = [g \in Generations |-> IF g = peExecutor /\ executor[g] = "running"
                                                THEN "stopping" ELSE executor[g]]
          /\ client' = [client EXCEPT ![c].exec = peExecutor,
                          ![c].pc = IF peExecutor = 0 THEN "close" ELSE "shutdown"]
          /\ UNCHANGED panicked
      BY <1>7 DEF Stop
    <2>2. PICK pc \in {"close", "shutdown"} :
            Moved(c, pc, peExecutor) /\ (pc = "close" <=> peExecutor = 0)
      <3> DEFINE next == IF peExecutor = 0 THEN "close" ELSE "shutdown"
                 read == [client EXCEPT ![c].exec = peExecutor]
      <3>1. peExecutor \in 0 .. MaxStarts
        BY <1>4
      <3>2. /\ read \in [Clients -> ClientState] /\ read[c].exec = peExecutor
            /\ \A d \in Clients \ {c} : read[d] = client[d]
            /\ read[c].sched = client[c].sched
        BY <1>1, <3>1 DEF ClientState
      <3>3. client' = [read EXCEPT ![c].pc = next]
        BY <2>1
      <3> HIDE DEF read
      <3>4. Moved(c, next, peExecutor)
        BY <3>2, <3>3 DEF Moved, ClientState
      <3> QED
        BY <3>4
    <2>3. /\ Stopping(c)' /\ \A d \in Clients \ {c} : ~ Stopping(d)'
          /\ \A d \in Clients \ {c} : client'[d] = client[d]
      BY <1>3, <2>2 DEF Stopping, Moved
    <2>4. TypeOK'
      <3>1. SwitchesOK'
        BY <1>1, <1>2, <2>1, Zenon DEF SwitchesOK
      <3>2. ValuesOK'
        BY <1>1, <1>2, <1>4, <2>1 DEF ValuesOK
      <3>3. (client \in [Clients -> ClientState])'
        BY <2>2 DEF Moved, ClientState, Operations
      <3>4. WriterOK'
        BY <1>2, <2>2 DEF WriterOK, Moved
      <3>5. ReadersOK'
        BY <1>1, <1>2, <2>2 DEF ReadersOK, Moved
      <3> QED
        BY <3>1, <3>2, <3>3, <3>4, <3>5, TypeParts, PTL
    <2>5. MutexInv'
      BY <1>2, <2>2, <2>3 DEF IInv, MutexInv, Moved
    <2>6. GenerationInv'
      <3>1. \A d \in Clients : client'[d].exec <= gen /\ client'[d].sched <= gen
        BY <1>4, <2>2 DEF IInv, GenerationInv, Moved
      <3>2. closedChannels' \subseteq 1 .. gen
        BY <1>4, <2>1 DEF IInv, GenerationInv
      <3>3. /\ \A g \in Generations : g > gen => executor'[g] = "none"
            /\ \A g \in 1 .. gen : executor'[g] # "none"
        BY <1>4, <2>1 DEF IInv, GenerationInv
      <3> QED
        BY <1>2, <3>1, <3>2, <3>3 DEF IInv, GenerationInv
    <2>7. StopInv'
      <3>1. gen \notin putBack => peExecutor = gen
        BY DEF IInv, GenerationInv
      <3>2. executor'[peExecutor] \in {"stopping", "timedOut", "ended"} \/ peExecutor = 0
        BY <1>1, <1>4, <2>1 DEF ValuesOK, IInv, GenerationInv
      <3> QED
        BY <1>2, <1>4, <2>2, <2>3, <3>1, <3>2 DEF StopInv, Moved, Stopping
    <2>8. PresentInv'
      BY <1>2, <2>2, <2>3 DEF IInv, PresentInv, Moved
    <2>9. OldGenerationsEnd' /\ PanicNeedsOldCollector'
      BY <1>1, <1>2, <1>4, <2>1 DEF IInv, OldGenerationsEnd, PanicNeedsOldCollector
    <2> QED
      BY <2>4, <2>5, <2>6, <2>7, <2>8, <2>9 DEF IInv
  <1> QED
    BY <1>6, <1>7

LEMMA ShutdownSteps ==
  ASSUME IInv, NEW c \in Clients, ShutdownDone(c) \/ ShutdownTimeout(c) \/ CloseScheduler(c)
  PROVE  IInv'
  <1> USE DEF held, mutex, components
  <1> DEFINE e == client[c].exec
  <1>1. /\ TypeOK /\ SwitchesOK /\ ValuesOK /\ WriterOK /\ ReadersOK
        /\ client \in [Clients -> ClientState]
    BY TypeParts DEF IInv
  <1>2. /\ client[c].pc \in {"shutdown", "close"}
        /\ UNCHANGED <<enableMetrics, started, ctxDone, gen, peExecutor, putBack, collector,
                       closedChannels, loop, writer, readers, panicked>>
    BY DEF ShutdownDone, ShutdownTimeout, CloseScheduler
  <1>3. writer = c /\ readers = {} /\ started /\ \A d \in Clients \ {c} : ~ Stopping(d)
    BY <1>2 DEF IInv, MutexInv, Stopping
  <1>4. e \in 0 .. gen /\ gen \in Generations
    BY <1>1, <1>3 DEF IInv, GenerationInv, ClientState, ValuesOK
  <1>5. PICK pc \in {"close", "wait"} : Moved(c, pc, e)
    BY <1>1, GotoMoves DEF ShutdownDone, ShutdownTimeout, CloseScheduler
  <1>6. \A d \in Clients \ {c} : client'[d] = client[d] /\ ~ Stopping(d)'
    BY <1>3, <1>5 DEF Moved, Stopping
  <1>7. /\ closed' \in {closed, closed \cup {gen}}
        /\ pc = "wait" => gen \in closed'
        /\ client[c].pc = "close" => pc = "wait"
    BY <1>1, <1>5, GotoMoves DEF ShutdownDone, ShutdownTimeout, CloseScheduler, Moved
  <1>8. /\ executor' \in [Generations -> {"none", "running", "stopping", "timedOut", "ended"}]
        /\ \A g \in Generations : \/ executor'[g] = executor[g]
                                  \/ /\ g = e /\ g <= gen /\ client[c].pc = "shutdown"
                                     /\ executor'[g] = "timedOut"
    BY <1>1, <1>4 DEF ShutdownDone, ShutdownTimeout, CloseScheduler, ValuesOK
  <1>9. gen \in putBack \/ executor'[gen] \in {"timedOut", "ended"}
    BY <1>1, <1>2, <1>4 DEF ShutdownDone, ShutdownTimeout, CloseScheduler, ValuesOK, IInv, StopInv
  <1> HIDE DEF e
  <1>10. TypeOK'
    <2>1. SwitchesOK'
      BY <1>1, <1>2, Zenon DEF SwitchesOK
    <2>2. ValuesOK'
      BY <1>1, <1>2, <1>4, <1>7, <1>8 DEF ValuesOK
    <2>3. (client \in [Clients -> ClientState])'
      BY <1>5 DEF Moved, ClientState, Operations
    <2>4. WriterOK'
      BY <1>2, <1>3, <1>5 DEF WriterOK, Moved
    <2>5. ReadersOK'
      BY <1>1, <1>2, <1>5 DEF ReadersOK, Moved
    <2> QED
      BY <2>1, <2>2, <2>3, <2>4, <2>5, TypeParts, PTL
  <1>11. MutexInv'
    BY <1>2, <1>3, <1>5, <1>6 DEF IInv, MutexInv, Moved
  <1>12. GenerationInv'
    <2>1. \A d \in Clients : client'[d].exec <= gen /\ client'[d].sched <= gen
      BY <1>4, <1>5 DEF IInv, GenerationInv, Moved
    <2>2. closed' \subseteq 1 .. gen
      BY <1>4, <1>7 DEF IInv, GenerationInv
    <2>3. /\ \A g \in Generations : g > gen => executor'[g] = "none"
          /\ \A g \in 1 .. gen : executor'[g] # "none"
      BY <1>4, <1>8 DEF IInv, GenerationInv
    <2> QED
      BY <1>2, <2>1, <2>2, <2>3 DEF IInv, GenerationInv
  <1>13. StopInv'
    BY <1>2, <1>5, <1>6, <1>7, <1>9 DEF StopInv, Moved, Stopping
  <1>14. PresentInv'
    BY <1>2, <1>4, <1>5, <1>7 DEF IInv, PresentInv, Moved, Stopping
  <1>15. OldGenerationsEnd' /\ PanicNeedsOldCollector'
    BY <1>2, <1>3, <1>4, <1>7, <1>8 DEF IInv, OldGenerationsEnd, PanicNeedsOldCollector
  <1> QED
    BY <1>10, <1>11, <1>12, <1>13, <1>14, <1>15 DEF IInv

LEMMA StopReturnStep ==
  ASSUME IInv, ~ panicked, NEW c \in Clients, StopReturn(c)
  PROVE  IInv'
  <1> USE DEF held, components
  <1>1. /\ TypeOK /\ SwitchesOK /\ ValuesOK /\ WriterOK /\ ReadersOK
        /\ client \in [Clients -> ClientState]
    BY TypeParts DEF IInv
  <1>2. /\ client[c].pc = "wait" /\ started' = FALSE /\ writer' = NoClient
        /\ \A g \in Generations : loop[g] \in {"none", "ended"}
        /\ UNCHANGED <<enableMetrics, ctxDone, gen, peExecutor, putBack, executor, closed,
                       collector, closedChannels, loop, readers, panicked>>
    BY DEF StopReturn
  <1>3. writer = c /\ readers = {} /\ started /\ \A d \in Clients \ {c} : ~ Stopping(d)
    BY <1>2 DEF IInv, MutexInv, Stopping
  <1>4. gen \in Generations
    BY <1>1, <1>3 DEF IInv, GenerationInv, ValuesOK
  <1>5. Moved(c, "idle", 0)
    BY <1>1, ReturnMoves DEF StopReturn
  <1>6. \A d \in Clients : ~ Stopping(d)'
    BY <1>3, <1>5 DEF Moved, Stopping
  <1>7. TypeOK'
    <2>1. SwitchesOK'
      BY <1>1, <1>2, Zenon DEF SwitchesOK
    <2>2. ValuesOK'
      BY <1>1, <1>2 DEF ValuesOK
    <2>3. (client \in [Clients -> ClientState])'
      BY <1>5 DEF Moved, ClientState, Operations
    <2>4. WriterOK' /\ ReadersOK'
      BY <1>2, <1>3, <1>5, MutexUnlocked
    <2> QED
      BY <2>1, <2>2, <2>3, <2>4, TypeParts, PTL
  <1>8. MutexInv'
    <2>1. \A d \in Clients : client'[d].pc = "prepare" => gen > 0
      BY <1>4
    <2>2. \A d \in Clients : client'[d].pc \in {"check", "addTasks"} => client'[d].sched > 0
      BY <1>5 DEF IInv, MutexInv, Moved
    <2> QED
      BY <1>2, <1>6, <2>1, <2>2 DEF MutexInv
  <1>9. GenerationInv'
    <2>1. \A d \in Clients : client'[d].exec <= gen /\ client'[d].sched <= gen
      BY <1>4, <1>5 DEF IInv, GenerationInv, Moved
    <2> QED
      BY <1>2, <1>4, <2>1 DEF IInv, GenerationInv
  <1>10. StopInv'
    BY <1>6 DEF StopInv, Stopping
  <1>11. gen \in closed /\ (gen \in putBack \/ executor[gen] \in {"timedOut", "ended"})
    BY <1>2 DEF IInv, StopInv
  <1>12. PresentInv'
    BY <1>2, <1>4, <1>11 DEF IInv, PresentInv
  <1>13. OldGenerationsEnd'
    BY <1>2, <1>4, <1>11 DEF IInv, OldGenerationsEnd
  <1>14. PanicNeedsOldCollector'
    BY <1>2 DEF PanicNeedsOldCollector
  <1> QED
    BY <1>7, <1>8, <1>9, <1>10, <1>12, <1>13, <1>14 DEF IInv

--------------------------------------------------------------------------------
(* The executors that ExecuteWithExecutor writes *)

LEMMA PutBackStep ==
  ASSUME IInv, ~ panicked, NEW c \in Clients, PutBack(c)
  PROVE  IInv'
  <1> USE DEF mutex
  <1> DEFINE e == client[c].exec
  <1>1. /\ TypeOK /\ SwitchesOK /\ ValuesOK /\ WriterOK /\ ReadersOK
        /\ client \in [Clients -> ClientState]
    BY TypeParts DEF IInv
  <1>2. /\ client[c].pc = "putBack" /\ peExecutor' = e
        /\ putBack' = putBack \cup ({peExecutor} \ {e, 0})
        /\ UNCHANGED <<enableMetrics, started, ctxDone, gen, executor, closed, collector,
                       closedChannels, loop, writer, readers, panicked>>
    BY DEF PutBack
  <1>3. gen \in 0 .. MaxStarts /\ e \in 0 .. gen /\ peExecutor \in 0 .. gen
    BY <1>1 DEF IInv, GenerationInv, ClientState, ValuesOK
  <1>4. Moved(c, "idle", 0) /\ writer # c
    BY <1>1, <1>2, ReturnMoves DEF PutBack, WriterOK
  <1>5. /\ \A d \in Clients \ {c} : client'[d] = client[d]
        /\ client'[c].pc = "idle" /\ client'[c].exec = 0
        /\ \A d \in Clients : Stopping(d)' <=> Stopping(d)
    BY <1>2, <1>4 DEF Moved, Stopping
  <1>6. putBack \subseteq putBack' /\ putBack' \subseteq 1 .. gen
    <2>1. {peExecutor} \ {e, 0} \subseteq 1 .. gen
      BY <1>3
    <2>2. putBack \subseteq 1 .. gen
      BY DEF IInv, GenerationInv
    <2> QED
      BY <1>2, <2>1, <2>2
  <1> HIDE DEF e
  <1>7. TypeOK'
    <2>1. SwitchesOK'
      BY <1>1, <1>2, Zenon DEF SwitchesOK
    <2>2. ValuesOK'
      BY <1>1, <1>2, <1>3, <1>6 DEF ValuesOK
    <2>3. (client \in [Clients -> ClientState])'
      BY <1>4 DEF Moved, ClientState, Operations
    <2>4. WriterOK' /\ ReadersOK'
      BY <1>2, <1>4, MutexUntouched
    <2> QED
      BY <2>1, <2>2, <2>3, <2>4, TypeParts, PTL
  <1>8. MutexInv'
    BY <1>2, <1>5 DEF IInv, MutexInv
  <1>9. GenerationInv'
    <2>1. peExecutor' = gen \/ gen \in putBack'
      BY <1>2, <1>3 DEF IInv, GenerationInv
    <2>2. \A d \in Clients : client'[d].exec <= gen /\ client'[d].sched <= gen
      BY <1>3, <1>4, <1>5 DEF IInv, GenerationInv, Moved
    <2> QED
      BY <1>2, <1>3, <1>6, <2>1, <2>2 DEF IInv, GenerationInv
  <1>10. StopInv'
    BY <1>2, <1>5, <1>6 DEF IInv, StopInv
  <1>11. PresentInv'
    BY <1>2, <1>5 DEF IInv, PresentInv, Stopping
  <1>12. OldGenerationsEnd' /\ PanicNeedsOldCollector'
    BY <1>2, <1>6 DEF IInv, OldGenerationsEnd, PanicNeedsOldCollector
  <1> QED
    BY <1>7, <1>8, <1>9, <1>10, <1>11, <1>12 DEF IInv

--------------------------------------------------------------------------------
(* The goroutines *)

LEMMA ExecutorEndsStep ==
  ASSUME IInv, NEW g \in Generations, ExecutorEnds(g)
  PROVE  IInv'
  <1> USE DEF held, mutex
  <1>1. /\ TypeOK /\ SwitchesOK /\ ValuesOK /\ WriterOK /\ ReadersOK
        /\ client \in [Clients -> ClientState]
    BY TypeParts DEF IInv
  <1>2. /\ executor[g] \in {"stopping", "timedOut"} /\ executor'[g] = "ended"
        /\ executor' \in [Generations -> {"none", "running", "stopping", "timedOut", "ended"}]
        /\ \A h \in Generations \ {g} : executor'[h] = executor[h]
        /\ UNCHANGED <<enableMetrics, started, ctxDone, gen, peExecutor, putBack, closed,
                       collector, closedChannels, loop, writer, readers, client, panicked>>
    BY <1>1 DEF ExecutorEnds, ValuesOK
  <1>3. gen \in 0 .. MaxStarts
    BY <1>1 DEF ValuesOK
  <1>4. TypeOK'
    <2>1. SwitchesOK'
      BY <1>1, <1>2, Zenon DEF SwitchesOK
    <2>2. ValuesOK' /\ (client \in [Clients -> ClientState])' /\ WriterOK' /\ ReadersOK'
      BY <1>1, <1>2 DEF ValuesOK, WriterOK, ReadersOK, ClientState
    <2> QED
      BY <2>1, <2>2, TypeParts, PTL
  <1>5. MutexInv' /\ GenerationInv'
    BY <1>2, <1>3 DEF IInv, MutexInv, GenerationInv, Stopping
  <1>6. StopInv'
    <2>1. \A d \in Clients : Stopping(d) => gen \in Generations
      BY <1>3 DEF IInv, MutexInv, GenerationInv
    <2> QED
      BY <1>2, <2>1 DEF IInv, StopInv, Stopping
  <1>7. PresentInv'
    BY <1>2, <1>3 DEF IInv, PresentInv, Stopping
  <1>8. OldGenerationsEnd' /\ PanicNeedsOldCollector'
    BY <1>2, <1>3 DEF IInv, OldGenerationsEnd, PanicNeedsOldCollector
  <1> QED
    BY <1>4, <1>5, <1>6, <1>7, <1>8 DEF IInv

LEMMA LoopSteps ==
  ASSUME IInv, ~ panicked, NEW g \in Generations, LoopStep(g)
  PROVE  IInv'
  <1> USE DEF held, mutex
  <1>1. /\ TypeOK /\ SwitchesOK /\ ValuesOK /\ WriterOK /\ ReadersOK
        /\ client \in [Clients -> ClientState]
    BY TypeParts DEF IInv
  <1>2. UNCHANGED <<enableMetrics, started, ctxDone, gen, peExecutor, putBack, executor, closed,
                    collector, closedChannels, writer, client, panicked>>
    BY DEF LoopStep, LoopEnd, LoopTick, LoopRLock, LoopRUnlock
  <1>3. /\ loop[g] \in {"select", "getMetrics", "collect"}
        /\ loop'[g] \in {"select", "getMetrics", "collect", "ended"}
        /\ loop' \in [Generations -> {"none", "select", "getMetrics", "collect", "ended"}]
        /\ \A h \in Generations \ {g} : loop'[h] = loop[h]
    BY <1>1 DEF LoopStep, LoopEnd, LoopTick, LoopRLock, LoopRUnlock, ValuesOK
  <1>4. ReadersOK'
    <2>1. g \notin Clients
      OBVIOUS
    <2>2. CASE LoopEnd(g) \/ LoopTick(g)
      BY <1>1, <1>2, <2>1, <2>2 DEF LoopEnd, LoopTick, ValuesOK, ReadersOK
    <2>3. CASE LoopRLock(g)
      BY <1>1, <1>2, <2>1, <2>3 DEF LoopRLock, ValuesOK, ReadersOK
    <2>4. CASE LoopRUnlock(g)
      BY <1>1, <1>2, <2>1, <2>4 DEF LoopRUnlock, ValuesOK, ReadersOK
    <2> QED
      BY <2>2, <2>3, <2>4 DEF LoopStep
  <1>5. \A d \in Clients : Stopping(d) => readers' = {}
    BY DEF IInv, MutexInv, LoopStep, LoopEnd, LoopTick, LoopRLock, LoopRUnlock
  <1>6. gen \in 0 .. MaxStarts
    BY <1>1 DEF ValuesOK
  <1>7. TypeOK'
    <2>1. SwitchesOK'
      BY <1>1, <1>2, Zenon DEF SwitchesOK
    <2>2. ValuesOK' /\ (client \in [Clients -> ClientState])' /\ WriterOK'
      BY <1>1, <1>2, <1>3 DEF ValuesOK, WriterOK, ClientState
    <2> QED
      BY <1>4, <2>1, <2>2, TypeParts, PTL
  <1>8. MutexInv'
    BY <1>2, <1>5 DEF IInv, MutexInv, Stopping
  <1>9. GenerationInv'
    <2>1. \A h \in Generations : h > gen => executor'[h] = "none" /\ loop'[h] = "none"
      BY <1>2, <1>3 DEF IInv, GenerationInv
    <2> QED
      BY <1>2, <2>1 DEF IInv, GenerationInv
  <1>10. StopInv'
    BY <1>2 DEF IInv, StopInv
  <1>11. PresentInv'
    BY <1>2, <1>3, <1>6 DEF IInv, PresentInv, Stopping
  <1>12. OldGenerationsEnd' /\ PanicNeedsOldCollector'
    BY <1>2, <1>3, <1>6 DEF IInv, OldGenerationsEnd, PanicNeedsOldCollector
  <1> QED
    BY <1>7, <1>8, <1>9, <1>10, <1>11, <1>12 DEF IInv

--------------------------------------------------------------------------------
(* The theorems *)

LEMMA NextIInv ==
  ASSUME IInv, [Next]_vars
  PROVE  IInv'
  <1>1. CASE UNCHANGED vars
    <2>1. (TypeOK /\ OldGenerationsEnd /\ PanicNeedsOldCollector)'
      BY <1>1 DEF vars, held, IInv, TypeOK, OldGenerationsEnd, PanicNeedsOldCollector
    <2>2. (MutexInv /\ GenerationInv /\ StopInv /\ PresentInv)'
      BY <1>1 DEF vars, held, IInv, MutexInv, GenerationInv, StopInv, PresentInv, Stopping
    <2> QED
      BY <2>1, <2>2 DEF IInv
  <1>2. CASE Next
    <2>1. ~ panicked
      BY <1>2 DEF Next
    <2>2. ASSUME NEW c \in Clients, (\E op \in MayCall[c] : Call(c, op)) \/ ClientStep(c)
          PROVE  IInv'
      BY <2>1, <2>2, LockingSteps, FreeSteps, StartStep, StopStep, ShutdownSteps, StopReturnStep,
         PutBackStep, Zenon DEF ClientStep
    <2>3. ASSUME NEW g \in Generations, ExecutorEnds(g) \/ LoopStep(g)
          PROVE  IInv'
      BY <2>1, <2>3, ExecutorEndsStep, LoopSteps
    <2> QED
      BY <1>2, <2>2, <2>3 DEF Next
  <1> QED
    BY <1>1, <1>2

\* Whatever the clients call, in whatever order their calls interleave with the loops and
\* the workers of all generations, the invariant of the engine's life cycle holds.
THEOREM Consistency == Spec => []IInv
  <1>1. Init => IInv
    BY InitIInv
  <1>2. IInv /\ [Next]_vars => IInv'
    BY NextIInv
  <1> QED
    BY <1>1, <1>2, PTL DEF Spec

\* The variables keep their types; whoever holds the mutex is at a place that unlocks it.
THEOREM TypeCorrectness == Spec => []TypeOK
  <1>1. IInv => TypeOK
    BY DEF IInv
  <1> QED
    BY <1>1, Consistency, PTL

\* Stop leaves no metrics loop, no open scheduler and no worker behind that it could find.
THEOREM StopLeavesNothing == Spec => []OldGenerationsEnd
  <1>1. IInv => OldGenerationsEnd
    BY DEF IInv
  <1> QED
    BY <1>1, Consistency, PTL

\* The close of a closed channel in Stop happens only after a Start without a collector.
THEOREM PanicOnlyOfOldCollector == Spec => []PanicNeedsOldCollector
  <1>1. IInv => PanicNeedsOldCollector
    BY DEF IInv
  <1> QED
    BY <1>1, Consistency, PTL

\* A step that changes what a client does is a step of that client.
LEMMA OwnStep ==
  ASSUME TypeOK, Next, NEW c \in Clients, client'[c] # client[c]
  PROVE  (\E op \in MayCall[c] : Call(c, op)) \/ ClientStep(c)
  <1>1. client \in [Clients -> ClientState]
    BY TypeParts
  <1>2. \A g \in Generations : ~ ExecutorEnds(g) /\ ~ LoopStep(g)
    BY DEF ExecutorEnds, LoopStep, LoopEnd, LoopTick, LoopRLock, LoopRUnlock
  <1>3. PICK d \in Clients : (\E op \in MayCall[d] : Call(d, op)) \/ ClientStep(d)
    BY <1>2 DEF Next
  <1> SUFFICES ASSUME d # c PROVE client'[c] = client[c]
    BY <1>3
  <1> USE <1>1, <1>3 DEF Goto, Return, ExecuteReturn, StartReturn
  <1>4. CASE \E op \in MayCall[d] : Call(d, op)
    BY <1>4 DEF Call
  <1>5. CASE Lock(d) \/ AlreadyStarted(d) \/ Start(d) \/ NotStarted(d) \/ Stop(d)
    BY <1>5 DEF Lock, AlreadyStarted, Start, NotStarted, Stop
  <1>6. CASE \/ ShutdownDone(d) \/ ShutdownTimeout(d) \/ CloseScheduler(d) \/ StopReturn(d)
             \/ (\E m \in MetricsSettings : Configure(d, m)) \/ SetAccessOracle(d)
    BY <1>6 DEF ShutdownDone, ShutdownTimeout, CloseScheduler, StopReturn, Configure,
                SetAccessOracle
  <1>7. CASE \/ ExecuteWithExecutor(d) \/ PutBack(d) \/ Execute(d) \/ Prepare(d)
             \/ GetMetrics(d) \/ GetMetricsReturn(d)
    BY <1>7 DEF ExecuteWithExecutor, PutBack, Execute, Prepare, GetMetrics, GetMetricsReturn
  <1>8. CASE AddTasksCheck(d) \/ AddTasks(d) \/ CircularDependency(d)
    BY <1>8 DEF AddTasksCheck, AddTasks, CircularDependency
  <1> QED
    BY <1>4, <1>5, <1>6, <1>7, <1>8, Zenon DEF ClientStep

\* A scheduler that is open is the present one, and has workers unless a Stop waits.
LEMMA OpenSchedulers ==
  ASSUME IInv, NEW sched \in 1 .. gen, sched \notin closed
  PROVE  sched = gen /\ WorkersRun
  <1>1. gen \in 0 .. MaxStarts
    BY DEF IInv, TypeOK
  <1>2. sched = gen
    BY <1>1 DEF IInv, OldGenerationsEnd
  <1> QED
    BY <1>1, <1>2 DEF IInv, PresentInv

\* A batch passes the check of the scheduler, and enters it, only where workers run or a
\* Stop waits for them to end; but it enters also when the scheduler was closed in between.
THEOREM AcceptedBatchesFindWorkers == Spec => BatchesFindWorkers
  <1> DEFINE Checked(c) == client[c].pc = "check" /\ client'[c].pc = "addTasks"
             Entered(c) == client[c].pc = "addTasks" /\ client'[c].pc = "getMetrics"
             Found(c) == client[c].sched = gen /\ WorkersRun
  <1>1. ASSUME IInv, [Next]_vars, NEW c \in Clients
        PROVE  /\ Checked(c) => Found(c)
               /\ Entered(c) => client[c].sched \in closed \/ Found(c)
    <2>1. TypeOK /\ client \in [Clients -> ClientState] /\ gen \in 0 .. MaxStarts
      BY <1>1, TypeParts DEF IInv, ValuesOK
    <2>2. ASSUME client[c].pc \in {"check", "addTasks"}
          PROVE  client[c].sched \in 1 .. gen
      BY <1>1, <2>1, <2>2 DEF IInv, MutexInv, GenerationInv, ClientState
    <2>3. ASSUME Checked(c)
          PROVE  client[c].sched \notin closed
      <3>1. Next /\ client'[c] # client[c]
        BY <1>1, <2>3 DEF vars
      <3>2. (\E op \in MayCall[c] : Call(c, op)) \/ ClientStep(c)
        BY <2>1, <3>1, OwnStep
      <3>3. AddTasksCheck(c)
        BY <2>3, <3>2 DEF ClientStep, Call, Lock, AlreadyStarted, Start, NotStarted, Stop,
           ShutdownDone, ShutdownTimeout, CloseScheduler, StopReturn, Configure, SetAccessOracle,
           ExecuteWithExecutor, PutBack, Execute, Prepare, AddTasks, CircularDependency,
           GetMetrics, GetMetricsReturn
      <3> SUFFICES ASSUME client[c].sched \in closed PROVE client'[c].pc # "addTasks"
        BY <2>3
      <3> QED
        BY <2>1, <3>3, GotoMoves, ReturnMoves DEF AddTasksCheck, ExecuteReturn, Moved
    <2>4. Checked(c) => Found(c)
      BY <1>1, <2>2, <2>3, OpenSchedulers
    <2>5. Entered(c) => client[c].sched \in closed \/ Found(c)
      BY <1>1, <2>2, OpenSchedulers
    <2> QED
      BY <2>4, <2>5
  <1>2. IInv /\ [Next]_vars =>
          \A c \in Clients :
            LET sched == client[c].sched IN
            /\ client[c].pc = "check" /\ client'[c].pc = "addTasks" =>
                 sched = gen /\ WorkersRun
            /\ client[c].pc = "addTasks" /\ client'[c].pc = "getMetrics" =>
                 sched \in closed \/ (sched = gen /\ WorkersRun)
    BY <1>1
  <1> QED
    BY <1>2, Consistency, PTL DEF Spec, BatchesFindWorkers
================================================================================
