------------------------------- MODULE TaskDeque -------------------------------
(***************************************************************************)
(* What a scheduler.WorkStealingQueue promises its callers: a bounded      *)
(* double-ended queue whose operations take effect in one step.  The local *)
(* end pushes and pops at the bottom, thieves pop at the top, and a task   *)
(* leaves the queue exactly once.                                          *)
(***************************************************************************)
EXTENDS Integers, Sequences

CONSTANTS
  Tasks,      \* the tasks handed to the queue, each pushed at most once
  Capacity    \* the number of slots

VARIABLES
  deque,      \* the tasks in the queue, top first
  todo,       \* tasks that no finished call of PushBottom has handled yet
  rejected,   \* tasks for which PushBottom returned false
  taken       \* how often each task was returned by PopBottom or PopTop

vars == <<deque, todo, rejected, taken>>

Init ==
  /\ deque = <<>>
  /\ todo = Tasks
  /\ rejected = {}
  /\ taken = [t \in Tasks |-> 0]

Take(t) == taken' = [taken EXCEPT ![t] = @ + 1]

PushBottom(t) ==
  /\ t \in todo
  /\ Len(deque) < Capacity
  /\ deque' = Append(deque, t)
  /\ todo' = todo \ {t}
  /\ UNCHANGED <<rejected, taken>>

\* The queue may refuse a task only when it is full.
RejectPush(t) ==
  /\ t \in todo
  /\ Len(deque) = Capacity
  /\ todo' = todo \ {t}
  /\ rejected' = rejected \cup {t}
  /\ UNCHANGED <<deque, taken>>

PopBottom ==
  /\ deque # <<>>
  /\ deque' = SubSeq(deque, 1, Len(deque) - 1)
  /\ Take(deque[Len(deque)])
  /\ UNCHANGED <<todo, rejected>>

PopTop ==
  /\ deque # <<>>
  /\ deque' = Tail(deque)
  /\ Take(Head(deque))
  /\ UNCHANGED <<todo, rejected>>

Next ==
  \/ \E t \in Tasks : PushBottom(t) \/ RejectPush(t)
  \/ PopBottom
  \/ PopTop

Spec == Init /\ [][Next]_vars

================================================================================
