----------------------------- MODULE CycleDetection -----------------------------
(***************************************************************************)
(* detectCycles and hasCycle of scheduler/workstealing.go: the depth-first *)
(* search AddTasks runs over the dependency map.  WorkStealingScheduler    *)
(* uses CycleBelow of DependencyGraph in its place, and its instances      *)
(* compare the two.                                                        *)
(***************************************************************************)
EXTENDS DependencyGraph

RECURSIVE HasCycleUnreset(_, _, _), HasCycle(_, _, _)

\* Mutant: a task stays on the recursion stack when its search is over.
HasCycleUnreset(deps, t, s) ==
  LET Visit(r, d) ==
        IF r.cycle THEN r
        ELSE IF d \notin r.visited THEN HasCycleUnreset(deps, d, r)
        ELSE [r EXCEPT !.cycle = d \in r.recStack]
  IN  FoldLeft(Visit, [s EXCEPT !.visited = @ \cup {t}, !.recStack = @ \cup {t}], deps[t])

\* The search from t.  visited and recStack are shared by the whole search, so it
\* returns them with its verdict, which ends the loops of all its callers.
HasCycle(deps, t, s) ==
  LET Visit(r, d) ==
        IF r.cycle THEN r
        ELSE IF d \notin r.visited THEN HasCycle(deps, d, r)
        ELSE [r EXCEPT !.cycle = d \in r.recStack]
      r == FoldLeft(Visit, [s EXCEPT !.visited = @ \cup {t}, !.recStack = @ \cup {t}],
                    deps[t])
  IN  IF r.cycle THEN r ELSE [r EXCEPT !.recStack = @ \ {t}]

\* Is there a cycle below one of the tasks of the batch?
DetectCycles(deps, batch) ==
  LET Search(r, t) == IF r.cycle \/ t \in r.visited THEN r ELSE HasCycle(deps, t, r)
  IN  FoldLeft(Search, [cycle |-> FALSE, visited |-> {}, recStack |-> {}], batch).cycle

================================================================================
