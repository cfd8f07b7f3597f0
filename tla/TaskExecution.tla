----------------------------- MODULE TaskExecution -----------------------------
(***************************************************************************)
(* What the scheduler promises the executor: a submitted task is executed  *)
(* by one worker at a time, not before all tasks it depends on are done,   *)
(* and not again once it is done.                                          *)
(***************************************************************************)
EXTENDS SequencesExt

CONSTANTS
  Tasks,
  Workers,
  NoTask      \* what an idle worker executes

VARIABLES
  submitted,     \* the tasks given to the scheduler
  dependencies,  \* task -> the tasks it waits for
  executing,     \* worker -> the task it executes
  done           \* the tasks whose execution ended

vars == <<submitted, dependencies, executing, done>>

Init ==
  /\ submitted = {}
  /\ dependencies = [t \in Tasks |-> <<>>]
  /\ executing = [w \in Workers |-> NoTask]
  /\ done = {}

\* A batch brings new tasks with their dependencies.
Submit ==
  /\ \E batch \in SUBSET (Tasks \ submitted) :
       /\ submitted' = submitted \cup batch
       /\ \A t \in Tasks \ batch : dependencies'[t] = dependencies[t]
  /\ DOMAIN dependencies' = Tasks
  /\ UNCHANGED <<executing, done>>

Start(w, t) ==
  /\ executing[w] = NoTask
  /\ t \in submitted \ done
  /\ \A v \in Workers : executing[v] # t
  /\ ToSet(dependencies[t]) \subseteq done
  /\ executing' = [executing EXCEPT ![w] = t]
  /\ UNCHANGED <<submitted, dependencies, done>>

Finish(w) ==
  /\ executing[w] # NoTask
  /\ executing' = [executing EXCEPT ![w] = NoTask]
  /\ done' = done \cup {executing[w]}
  /\ UNCHANGED <<submitted, dependencies>>

\* The execution met a conflict with d: the task starts over once d is done.
Abort(w, d) ==
  /\ executing[w] # NoTask
  /\ executing' = [executing EXCEPT ![w] = NoTask]
  /\ LET t == executing[w]
     IN  dependencies' = [dependencies EXCEPT
           ![t] = IF Contains(@, d) THEN @ ELSE Append(@, d)]
  /\ UNCHANGED <<submitted, done>>

Next ==
  \/ Submit
  \/ \E w \in Workers :
       \/ \E t \in Tasks : Start(w, t)
       \/ Finish(w)
       \/ \E d \in Tasks : Abort(w, d)

Spec == Init /\ [][Next]_vars

================================================================================
