----------------------------- MODULE MCCoordinator -----------------------------
(* Instances of Coordinator for TLC. *)
EXTENDS Coordinator, CycleDetection

CONSTANTS t1, t2, t3, t4, a1

\* No two keys of the instances have the same hash.
KeyHash(key) == key.slot

PlannedSetups == UNION {Prepare(r) : r \in Requests}

Balanced(access, deps, batches, size) ==
  [access |-> access, declared |-> deps, batches |-> batches, queueSize |-> size,
   stealing |-> TRUE, balancing |-> TRUE, analysis |-> TRUE, maxAborts |-> 0, maxClose |-> 0]

\* What t2 and t3, or t4, declare or access; t1 has the first of the values.
Give(v1, v2, v3, v4) ==
  [t \in Tasks |-> IF t = t1 THEN v1 ELSE IF t = t2 THEN v2 ELSE IF t = t3 THEN v3 ELSE v4]

None == [t \in Tasks |-> <<>>]

\* Access lists that touch the account, one slot of it, or both slots.
Slots(slots) == <<[address |-> a1, slots |-> slots]>>
Touches == {Slots(<<>>), Slots(<<1>>), Slots(<<2>>), Slots(<<1, 2>>)}

\* Every acyclic graph over three tasks, up to renaming.
DAGs ==
  {Give(<<>>, d2, d3, <<>>) :
     d2 \in {<<>>, <<t1>>}, d3 \in {<<>>, <<t1>>, <<t2>>, <<t1, t2>>}}

\* t3 waits for t2, which waits for t1 or for nothing.
Chains == {Give(<<>>, d2, <<t2>>, <<>>) : d2 \in {<<>>, <<t1>>}}

\* Three tasks become ready at once.
FanOut == Give(<<>>, <<t1>>, <<t1>>, <<t1>>)

One == <<<<t1, t2, t3>>>>
Two == <<<<t1, t2>>, <<t3>>>>

\* Graphs over two tasks and a third that comes later, cycles included.
Lists(tasks) == {SetToSeq(D) : D \in SUBSET tasks}
Graphs ==
  {Give(d1, d2, d3, <<>>) :
     d1 \in Lists({t1, t2}), d2 \in Lists({t1, t3}), d3 \in {<<>>, <<t3>>, <<t2, t1>>}}

\* t2 conflicts with both others and gets the colour after theirs: it depends on t3, which
\* comes later in the batch and may itself declare t2.
Reversed(d3) ==
  Balanced(Give(Slots(<<1>>), Slots(<<1, 2>>), Slots(<<2>>), <<>>),
           Give(<<>>, <<>>, d3, <<>>), One, 2)

\* Declared dependencies in two batches, with each configuration; a fan-out to worker
\* queues of one task each, or to the global queue; access lists instead of declared
\* dependencies; both together without a repeated dependency, and with a cycle.
OrdinaryRequests ==
  {Balanced(None, g, Two, 2) : g \in DAGs}
  \cup {[Balanced(None, g, Two, 2) EXCEPT !.balancing = FALSE, !.stealing = s, !.analysis = s] :
          g \in {h \in DAGs : h[t2] = <<t1>>}, s \in BOOLEAN}
  \cup {Balanced(None, FanOut, <<<<t1, t2, t3, t4>>>>, 1),
        [Balanced(None, FanOut, <<<<t1, t2, t3, t4>>>>, 2) EXCEPT !.balancing = FALSE]}
  \cup {Balanced(Give(x, y, z, <<>>), None, One, 2) :
          x, y \in Touches, z \in {Slots(<<>>), Slots(<<1, 2>>)}}
  \cup {Balanced(Give(x, <<>>, x, <<>>), Give(<<>>, <<t1>>, <<t2>>, <<>>), One, 2) :
          x \in Touches}
  \cup {Reversed(<<>>), Reversed(<<t2>>)}

\* A cycle among the tasks; a conflict reported after an execution; a call of Close.
CyclicRequests == {Balanced(None, g, Two, 2) : g \in {h \in Graphs : CycleBelow(h, Tasks)}}
AbortedRequests == {[Balanced(None, g, Two, 2) EXCEPT !.maxAborts = 1] : g \in Chains}
ClosedRequests == {[Balanced(None, g, Two, 2) EXCEPT !.maxClose = 1] : g \in Chains}
AllRequests ==
  OrdinaryRequests \cup CyclicRequests \cup AbortedRequests \cup ClosedRequests

\* Whenever AddTasks has entered a batch, on top of the tasks and conflicts added before,
\* its search reports a cycle exactly when one of the tasks depends, directly or not, on
\* a task that depends on itself, though it skips what it has visited.
DetectsCycles ==
  [][batch' # batch =>
       \A tasks \in UNION {SetToSeqs(S) : S \in SUBSET ToSet(FlattenSeq(Batches))} :
         DetectCycles(dependencies', tasks) <=> CycleBelow(dependencies', ToSet(tasks))]_vars

\* A dependency the task declares, and the same again for a key they share.
Repeated ==
  {Balanced(Give(Slots(<<1>>), Slots(<<1>>), <<>>, <<>>), Give(<<>>, <<t1>>, <<>>, <<>>),
            <<<<t1, t2>>>>, 2)}

================================================================================
