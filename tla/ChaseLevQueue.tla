----------------------------- MODULE ChaseLevQueue -----------------------------
(***************************************************************************)
(* scheduler/queues.go, type ChaseLevQueue: the work-stealing queue each   *)
(* worker of the scheduler owns.  Every atomic load, store, add and CAS of *)
(* the code is a step of its own.  A slot holds a Go interface value, two  *)
(* words written by two plain stores, so a slot being overwritten reads as *)
(* Torn.                                                                   *)
(*                                                                         *)
(* Three kinds of calls run against one queue: PopBottom by the worker     *)
(* that owns it, PopTop by thieves, and PushBottom by one pusher at a time *)
(* (scheduleReadyTasks pushes under taskMutex).  RemotePush = FALSE is the *)
(* discipline of the comments, "local end": PushBottom and PopBottom are   *)
(* called by the same goroutine and so never overlap.  RemotePush = TRUE   *)
(* is how CompleteTask calls it: any worker pushes to any worker's queue.  *)
(***************************************************************************)
EXTENDS Integers, Sequences, FiniteSets

CONSTANTS
  Tasks,       \* the tasks to push, each of them once
  Thieves,     \* the goroutines calling PopTop
  Size,        \* number of slots, a power of two in the code (mask = Size - 1)
  RemotePush,  \* may PushBottom overlap PopBottom?
  NoTask,      \* nil: an unused slot
  Torn         \* a half-written slot

ASSUME SizeAssumption == Size \in Nat \ {0}
ASSUME RemotePushAssumption == RemotePush \in BOOLEAN
ASSUME NoTaskAssumption == NoTask \notin Tasks
ASSUME TornAssumption == Torn \notin Tasks \cup {NoTask}

VARIABLES
  buffer,    \* the circular buffer
  top,       \* index of the oldest task
  bottom,    \* index after the newest task
  push,      \* the running PushBottom: pc, its task, its loaded bottom
  pop,       \* the running PopBottom: pc, its bottom, its top, the task read
  steal,     \* thief -> its running PopTop: pc, its top, the task read
  todo,      \* history: tasks that no finished PushBottom has handled
  rejected,  \* history: tasks for which PushBottom returned false
  taken      \* history: how often each value was returned by a pop

vars == <<buffer, top, bottom, push, pop, steal, todo, rejected, taken>>

Values == Tasks \cup {NoTask, Torn}

PushState ==
  [pc: {"idle", "loadTop", "store", "storing", "publish"},
   task: Tasks \cup {NoTask}, bottom: Nat \cup {-1}]

PopState ==
  [pc: {"idle", "loadTop", "restore", "read", "cas", "reset"},
   bottom: Nat \cup {-1}, top: Nat, task: Values]

StealState ==
  [pc: {"idle", "loadBottom", "read", "cas"}, top: Nat, task: Values]

\* The slot of an index: index & mask.
Slot(index) == index % Size

Take(v) == taken' = [taken EXCEPT ![v] = @ + 1]

Init ==
  /\ buffer = [s \in 0 .. Size - 1 |-> NoTask]
  /\ top = 0
  /\ bottom = 0
  /\ push = [pc |-> "idle", task |-> NoTask, bottom |-> 0]
  /\ pop = [pc |-> "idle", bottom |-> 0, top |-> 0, task |-> NoTask]
  /\ steal = [th \in Thieves |-> [pc |-> "idle", top |-> 0, task |-> NoTask]]
  /\ todo = Tasks
  /\ rejected = {}
  /\ taken = [v \in Values |-> 0]

--------------------------------------------------------------------------------
(* PushBottom *)

PushLoadBottom(t) ==
  /\ push.pc = "idle"
  /\ RemotePush \/ pop.pc = "idle"
  /\ t \in todo
  /\ push' = [pc |-> "loadTop", task |-> t, bottom |-> bottom]
  /\ UNCHANGED <<buffer, top, bottom, pop, steal, todo, rejected, taken>>

PushFull ==
  /\ push.pc = "loadTop"
  /\ push.bottom - top >= Size
  /\ push' = [push EXCEPT !.pc = "idle"]
  /\ todo' = todo \ {push.task}
  /\ rejected' = rejected \cup {push.task}
  /\ UNCHANGED <<buffer, top, bottom, pop, steal, taken>>

\* Mutant: the full check is off by one.
PushLoadTopOffByOne ==
  /\ push.pc = "loadTop"
  /\ push.bottom - top <= Size
  /\ push' = [push EXCEPT !.pc = "store"]
  /\ UNCHANGED <<buffer, top, bottom, pop, steal, todo, rejected, taken>>

PushLoadTop ==
  /\ push.pc = "loadTop"
  /\ push.bottom - top < Size
  /\ push' = [push EXCEPT !.pc = "store"]
  /\ UNCHANGED <<buffer, top, bottom, pop, steal, todo, rejected, taken>>

\* The first word of the interface value is written, the second is not.
PushStoreFirstWord ==
  /\ push.pc = "store"
  /\ buffer' = [buffer EXCEPT ![Slot(push.bottom)] = Torn]
  /\ push' = [push EXCEPT !.pc = "storing"]
  /\ UNCHANGED <<top, bottom, pop, steal, todo, rejected, taken>>

PushStoreSecondWord ==
  /\ push.pc = "storing"
  /\ buffer' = [buffer EXCEPT ![Slot(push.bottom)] = push.task]
  /\ push' = [push EXCEPT !.pc = "publish"]
  /\ UNCHANGED <<top, bottom, pop, steal, todo, rejected, taken>>

PushPublish ==
  /\ push.pc = "publish"
  /\ bottom' = push.bottom + 1
  /\ push' = [push EXCEPT !.pc = "idle"]
  /\ todo' = todo \ {push.task}
  /\ UNCHANGED <<buffer, top, pop, steal, rejected, taken>>

PushStep ==
  \/ \E t \in Tasks : PushLoadBottom(t)
  \/ PushFull
  \/ PushLoadTop
  \/ PushStoreFirstWord
  \/ PushStoreSecondWord
  \/ PushPublish

--------------------------------------------------------------------------------
(* PopBottom *)

PopDecrement ==
  /\ pop.pc = "idle"
  /\ RemotePush \/ push.pc = "idle"
  /\ bottom' = bottom - 1
  /\ pop' = [pop EXCEPT !.pc = "loadTop", !.bottom = bottom - 1]
  /\ UNCHANGED <<buffer, top, push, steal, todo, rejected, taken>>

\* Mutant: a queue with one task left counts as empty.
PopLoadTopOffByOne ==
  /\ pop.pc = "loadTop"
  /\ pop' = [pop EXCEPT !.pc = IF pop.bottom <= top THEN "restore" ELSE "read",
                        !.top = top]
  /\ UNCHANGED <<buffer, top, bottom, push, steal, todo, rejected, taken>>

PopLoadTop ==
  /\ pop.pc = "loadTop"
  /\ pop' = [pop EXCEPT !.pc = IF pop.bottom < top THEN "restore" ELSE "read",
                        !.top = top]
  /\ UNCHANGED <<buffer, top, bottom, push, steal, todo, rejected, taken>>

\* Mutant: a PopBottom on an empty queue leaves bottom decremented.
PopRestoreForgotten ==
  /\ pop.pc = "restore"
  /\ pop' = [pop EXCEPT !.pc = "idle"]
  /\ UNCHANGED <<buffer, top, bottom, push, steal, todo, rejected, taken>>

\* The queue was empty: PopBottom returns nil, false.
PopRestore ==
  /\ pop.pc = "restore"
  /\ bottom' = pop.top
  /\ pop' = [pop EXCEPT !.pc = "idle"]
  /\ UNCHANGED <<buffer, top, push, steal, todo, rejected, taken>>

\* More than one task was left: the one at the bottom is the owner's.
PopReadOwned ==
  /\ pop.pc = "read"
  /\ pop.bottom > pop.top
  /\ Take(buffer[Slot(pop.bottom)])
  /\ pop' = [pop EXCEPT !.pc = "idle"]
  /\ UNCHANGED <<buffer, top, bottom, push, steal, todo, rejected>>

\* The last task: the owner competes with the thieves for it.
PopReadLast ==
  /\ pop.pc = "read"
  /\ pop.bottom = pop.top
  /\ pop' = [pop EXCEPT !.pc = "cas", !.task = buffer[Slot(pop.bottom)]]
  /\ UNCHANGED <<buffer, top, bottom, push, steal, todo, rejected, taken>>

\* Mutant: the last task is taken with a plain store to top.
PopCASUnconditional ==
  /\ pop.pc = "cas"
  /\ top' = pop.top + 1
  /\ Take(pop.task)
  /\ pop' = [pop EXCEPT !.pc = "reset"]
  /\ UNCHANGED <<buffer, bottom, push, steal, todo, rejected>>

PopCASWon ==
  /\ pop.pc = "cas"
  /\ top = pop.top
  /\ top' = pop.top + 1
  /\ Take(pop.task)
  /\ pop' = [pop EXCEPT !.pc = "reset"]
  /\ UNCHANGED <<buffer, bottom, push, steal, todo, rejected>>

PopCASLost ==
  /\ pop.pc = "cas"
  /\ top # pop.top
  /\ pop' = [pop EXCEPT !.pc = "reset"]
  /\ UNCHANGED <<buffer, top, bottom, push, steal, todo, rejected, taken>>

\* Mutant: bottom is restored to the old top, as in the empty case.
PopResetOffByOne ==
  /\ pop.pc = "reset"
  /\ bottom' = pop.top
  /\ pop' = [pop EXCEPT !.pc = "idle"]
  /\ UNCHANGED <<buffer, top, push, steal, todo, rejected, taken>>

PopReset ==
  /\ pop.pc = "reset"
  /\ bottom' = pop.top + 1
  /\ pop' = [pop EXCEPT !.pc = "idle"]
  /\ UNCHANGED <<buffer, top, push, steal, todo, rejected, taken>>

PopStep ==
  \/ PopDecrement
  \/ PopLoadTop
  \/ PopRestore
  \/ PopReadOwned
  \/ PopReadLast
  \/ PopCASWon
  \/ PopCASLost
  \/ PopReset

--------------------------------------------------------------------------------
(* PopTop *)

StealLoadTop(th) ==
  /\ steal[th].pc = "idle"
  /\ steal' = [steal EXCEPT ![th].pc = "loadBottom", ![th].top = top]
  /\ UNCHANGED <<buffer, top, bottom, push, pop, todo, rejected, taken>>

\* With nothing between top and bottom PopTop returns nil, false.
StealLoadBottom(th) ==
  /\ steal[th].pc = "loadBottom"
  /\ steal' = [steal EXCEPT ![th].pc =
                 IF steal[th].top >= bottom THEN "idle" ELSE "read"]
  /\ UNCHANGED <<buffer, top, bottom, push, pop, todo, rejected, taken>>

StealRead(th) ==
  /\ steal[th].pc = "read"
  /\ steal' = [steal EXCEPT ![th].pc = "cas",
                            ![th].task = buffer[Slot(steal[th].top)]]
  /\ UNCHANGED <<buffer, top, bottom, push, pop, todo, rejected, taken>>

StealCASWon(th) ==
  /\ steal[th].pc = "cas"
  /\ top = steal[th].top
  /\ top' = steal[th].top + 1
  /\ Take(steal[th].task)
  /\ steal' = [steal EXCEPT ![th].pc = "idle"]
  /\ UNCHANGED <<buffer, bottom, push, pop, todo, rejected>>

\* Another goroutine took the task: PopTop returns nil, false.
StealCASLost(th) ==
  /\ steal[th].pc = "cas"
  /\ top # steal[th].top
  /\ steal' = [steal EXCEPT ![th].pc = "idle"]
  /\ UNCHANGED <<buffer, top, bottom, push, pop, todo, rejected, taken>>

StealStep(th) ==
  \/ StealLoadTop(th)
  \/ StealLoadBottom(th)
  \/ StealRead(th)
  \/ StealCASWon(th)
  \/ StealCASLost(th)

--------------------------------------------------------------------------------

Next ==
  \/ PushStep
  \/ PopStep
  \/ \E th \in Thieves : StealStep(th)

Spec == Init /\ [][Next]_vars

\* The worker that owns the queue keeps polling it (executor workerLoop calls
\* NextTask in a loop), and a call of PushBottom that started returns.  Nothing
\* is assumed of the thieves.
FairSpec == Spec /\ WF_vars(PopStep) /\ WF_vars(PushStep)

--------------------------------------------------------------------------------
(* Properties *)

\* The values the variables may take.  bottom drops below top by at most one,
\* and only while a PopBottom on an empty queue has not restored it.
TypeOK ==
  /\ buffer \in [0 .. Size - 1 -> Values]
  /\ top \in Nat
  /\ bottom \in Nat \cup {-1}
  /\ push \in PushState
  /\ pop \in PopState
  /\ steal \in [Thieves -> StealState]
  /\ todo \in SUBSET Tasks
  /\ rejected \in SUBSET Tasks
  /\ taken \in [Values -> Nat]

\* No task is handed to two goroutines: the owner's pop, the thieves' pops and
\* the reuse of slots never return one pushed task twice.
TakenAtMostOnce == \A t \in Tasks : taken[t] <= 1

\* A pop never returns an empty slot or a value another goroutine was still
\* writing, although slots are read and written without synchronisation.
OnlyTasksTaken == taken[NoTask] = 0 /\ taken[Torn] = 0

\* A task for which PushBottom returned true is still between top and bottom
\* until a pop returns it, whenever neither end of the local worker is active.
NoTaskLost ==
  push.pc = "idle" /\ pop.pc = "idle" =>
    \A t \in Tasks \ (todo \cup rejected) :
      taken[t] = 0 => \E i \in top .. bottom - 1 : buffer[Slot(i)] = t

\* Polling the local end drains the queue: each task PushBottom answered true for
\* is eventually returned by some pop, whatever the thieves do.
EventuallyTaken ==
  \A t \in Tasks : t \notin todo ~> taken[t] = 1 \/ t \in rejected

(***************************************************************************)
(* Refinement.  A pop takes effect when its CAS on top succeeds; a pop of  *)
(* the owner that finds more than one task, when it loads top.  Until then *)
(* the index it decremented bottom to still belongs to the queue.          *)
(***************************************************************************)
OwnsBottom == pop.pc = "read" /\ pop.bottom > pop.top

QueueEnd ==
  IF pop.pc \in {"loadTop", "read", "cas"} /\ ~ OwnsBottom
  THEN bottom + 1 ELSE bottom

\* taken, counting the task the owner has claimed and is about to read.
TakenOrOwned ==
  [t \in Tasks |-> IF OwnsBottom /\ buffer[Slot(pop.bottom)] = t
                   THEN taken[t] + 1 ELSE taken[t]]

Deque == INSTANCE TaskDeque WITH
           Capacity <- Size,
           deque <- [i \in 1 .. QueueEnd - top |-> buffer[Slot(top + i - 1)]],
           taken <- TakenOrOwned

\* Used from its local end, the lock-free queue behaves as the atomic one: pushes
\* append, thieves take the oldest task, the owner the newest, each call as if at
\* one instant, and PushBottom returns false only when all slots are in use.
RefinesTaskDeque == Deque!Spec

(***************************************************************************)
(* The inductive invariant behind the safety properties, for a queue used  *)
(* from its local end.  An index is live from the moment bottom passes it  *)
(* until a pop returns its task.                                           *)
(***************************************************************************)
LiveEnd == IF pop.pc \in {"loadTop", "read", "cas"} THEN bottom + 1 ELSE bottom

Live == top .. LiveEnd - 1

\* A push and a pop never overlap, and bottom is the owner's alone to move.
OwnerInv ==
  /\ push.pc # "idle" => /\ pop.pc = "idle"
                         /\ push.bottom = bottom
                         /\ push.task \in todo
  /\ push.pc \in {"store", "storing", "publish"} => bottom - top < Size
  /\ push.pc = "publish" => buffer[Slot(bottom)] = push.task
  /\ pop.pc # "idle" => pop.bottom = bottom
  /\ LiveEnd - top <= Size

\* Where top can be while the owner pops: the thieves cannot pass the task the
\* owner has claimed, and they can overtake it by one when both want the last.
PopInv ==
  /\ pop.pc = "idle" => top <= bottom
  /\ pop.pc = "loadTop" => top <= bottom + 1
  /\ pop.pc = "restore" => pop.top = top /\ top = bottom + 1
  /\ pop.pc = "read" => pop.top <= bottom
  /\ OwnsBottom => top <= bottom
  /\ pop.pc = "read" /\ pop.top = bottom => top \in {bottom, bottom + 1}
  /\ pop.pc = "cas" => /\ pop.top = bottom
                       /\ top \in {bottom, bottom + 1}
                       /\ top = bottom => pop.task = buffer[Slot(bottom)]
  /\ pop.pc = "reset" => pop.top = bottom /\ top = bottom + 1

\* A thief whose CAS can still succeed holds the oldest task of the queue.
StealInv ==
  \A th \in Thieves :
    /\ steal[th].pc # "idle" => steal[th].top <= top
    /\ steal[th].pc \in {"read", "cas"} /\ steal[th].top = top => top < QueueEnd
    /\ steal[th].pc = "cas" /\ steal[th].top = top =>
         steal[th].task = buffer[Slot(top)]

\* The live slots hold distinct tasks that no pop has returned.
LiveInv ==
  /\ \A i \in Live : /\ buffer[Slot(i)] \in Tasks \ (todo \cup rejected)
                     /\ taken[buffer[Slot(i)]] = 0
  /\ \A i, j \in Live : buffer[Slot(i)] = buffer[Slot(j)] => i = j

\* Every task is waiting, refused, live or returned, and returned only once.
HistoryInv ==
  /\ todo \cap rejected = {}
  /\ \A t \in todo \cup rejected : taken[t] = 0
  /\ \A t \in Tasks : taken[t] <= 1
  /\ \A t \in Tasks \ (todo \cup rejected) :
       taken[t] = 1 \/ \E i \in Live : buffer[Slot(i)] = t

\* Used from its local end, the queue keeps its indices, its slots and what the
\* goroutines have read from them consistent through every interleaving.
IInv ==
  /\ TypeOK
  /\ OwnerInv
  /\ PopInv
  /\ StealInv
  /\ LiveInv
  /\ HistoryInv
  /\ OnlyTasksTaken
================================================================================
