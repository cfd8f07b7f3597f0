---------------------------- MODULE DependencyGraph ----------------------------
(***************************************************************************)
(* The dependency graph of the scheduler, without its search: for each     *)
(* task the sequence of tasks it depends on.                               *)
(***************************************************************************)
EXTENDS SequencesExt

\* The tasks that roots depend on, directly or not, with roots themselves.
Reachable(dependencies, roots) ==
  LET nodes == DOMAIN dependencies
      closed == {C \in SUBSET nodes :
                   /\ roots \subseteq C
                   /\ \A t \in C : ToSet(dependencies[t]) \subseteq C}
  IN  {t \in nodes : \A C \in closed : t \in C}

\* Is there a cycle among the tasks the roots depend on?  In a finite graph there
\* is one exactly when some set of tasks is left by no last dependency.
CycleBelow(dependencies, roots) ==
  \E C \in (SUBSET Reachable(dependencies, roots)) \ {{}} :
    \A t \in C : \E d \in C : Contains(dependencies[t], d)

================================================================================
