------------------------------ MODULE Coordinator ------------------------------
(***************************************************************************)
(* engine/coordinator.go: each call of Execute has its batch planned and   *)
(* the wrapped tasks given to the scheduler.  A plan depends on nothing    *)
(* but the request of the clients, so it is made when the behaviour        *)
(* starts; the scheduler takes the batches one by one.                     *)
(***************************************************************************)
EXTENDS WorkStealingScheduler, Planner

CONSTANT Requests   \* access lists, declared dependencies, batches, configuration

\* The setups of the scheduler that come from planning the batches of a request: the
\* planner sees one batch at a time.  A setup keeps the access lists for the properties.
Prepare(r) ==
  LET planned == [b \in DOMAIN r.batches |-> Plan(r.access, r.batches[b], r.declared)]
      plans == {f \in [DOMAIN r.batches -> UNION Range(planned)] :
                  \A b \in DOMAIN r.batches : f[b] \in planned[b]}
      calls(t) == {b \in DOMAIN r.batches : Contains(r.batches[b], t)}
  IN  {[graph |-> [t \in Tasks |-> IF calls(t) = {} THEN <<>> ELSE f[Min(calls(t))][t]],
        access |-> r.access, declared |-> r.declared, batches |-> r.batches,
        queueSize |-> r.queueSize, stealing |-> r.stealing, balancing |-> r.balancing,
        analysis |-> r.analysis, maxAborts |-> r.maxAborts, maxClose |-> r.maxClose] :
         f \in plans}

ASSUME RequestsAssumption ==
  \A r \in Requests : r.declared \in [Tasks -> Seq(Tasks)] /\ r.batches \in Seq(Seq(Tasks))
ASSUME PlannedAssumption == Setups = UNION {Prepare(r) : r \in Requests}

--------------------------------------------------------------------------------
(* Properties *)

\* The dependencies that were added to those a task of the batch declares.
Added(t) == SubSeq(setup.graph[t], Len(setup.declared[t]) + 1, Len(setup.graph[t]))

\* "Tasks within the same batch have disjoint access keys", and the partitions hold
\* every task of a batch once.  The added dependencies order all pairs of tasks that
\* conflict and close no cycle, whatever the order of the colours: a batch is rejected
\* for a cycle only if a dependency some task declares is part of it.
PlanIsSound ==
  batch = 1 /\ ~ adding =>
    \A tasks \in ToSet(Batches) :
      LET parts == Partitions(setup.access, tasks)
          of == ToSet(tasks)
          depends(t, u) == Contains(Added(t), u) \/ Contains(Added(u), t)
      IN  /\ \A c \in DOMAIN parts : \A i, j \in DOMAIN parts[c] :
               i # j => ~ Conflict(setup.access, parts[c][i], parts[c][j])
          /\ \A t \in of : Cardinality({c \in DOMAIN parts : Contains(parts[c], t)}) = 1
          /\ \A t, u \in of : t # u => (Conflict(setup.access, t, u) <=> depends(t, u))
          /\ ~ CycleBelow([t \in of |-> Added(t)], of)

\* Two tasks of a batch that share a key are never executed at the same time, though
\* the scheduler knows of no keys and the planner of no workers.
ConflictsNeverOverlap ==
  \A v, w \in Workers :
    v # w /\ worker[v].pc = "running" /\ worker[w].pc = "running" =>
      \A tasks \in ToSet(Batches) :
        {worker[v].task, worker[w].task} \subseteq ToSet(tasks) =>
          ~ Conflict(setup.access, worker[v].task, worker[w].task)

================================================================================
