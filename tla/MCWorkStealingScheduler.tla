------------------------ MODULE MCWorkStealingScheduler ------------------------
(* An instance of WorkStealingScheduler for TLC. *)
EXTENDS WorkStealingScheduler

CONSTANTS t1, t2

\* Two ready tasks and a global queue for one.
Full ==
  {[graph |-> [t \in Tasks |-> <<>>], batches |-> <<<<t1, t2>>>>, queueSize |-> 1,
    stealing |-> TRUE, balancing |-> TRUE, analysis |-> TRUE, maxAborts |-> 0, maxClose |-> 0]}

================================================================================
