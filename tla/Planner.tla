-------------------------------- MODULE Planner --------------------------------
(***************************************************************************)
(* access/planner.go and access/bals.go: from the keys each task is        *)
(* expected to touch, a colouring of a batch in partitions without         *)
(* conflicts, and dependencies between the tasks of different partitions.  *)
(* A batch is a sequence of task IDs; an access list is, for each task, a  *)
(* sequence of tuples of an address and a sequence of slots.               *)
(***************************************************************************)
EXTENDS Integers, SequencesExt, Selection

CONSTANT Hash(_)   \* StorageKey.Hash, which may map two keys to one number

ZeroSlot == 0      \* the empty gethcommon.Hash

\* A tuple without slots stands for one key of the account itself.
TupleKeys(tuple) ==
  LET slots == IF tuple.slots = <<>> THEN <<ZeroSlot>> ELSE tuple.slots
  IN  [i \in DOMAIN slots |-> [address |-> tuple.address, slot |-> slots[i]]]

KeysFor(tuples) == FlattenSeq([i \in DOMAIN tuples |-> TupleKeys(tuples[i])])

\* The tasks are listed among the owners of the same hash; a task that lists a key
\* twice conflicts with itself.
Conflict(access, t, u) ==
  LET k == KeysFor(access[t])
      l == KeysFor(access[u])
  IN  \E i \in DOMAIN k, j \in DOMAIN l : Hash(k[i]) = Hash(l[j]) /\ (t = u => i # j)

\* Mutant: the colours in use are taken to be the first ones.
FirstFreeByCount(used) == Cardinality(used)

FirstFree(used) == Min((0 .. Cardinality(used)) \ used)

\* Greedy colouring in the order of the batch: only neighbours before a task have a
\* colour when the task gets one.
ColorOf(access, tasks) ==
  LET color[i \in DOMAIN tasks] ==
        FirstFree({color[j] : j \in {n \in 1 .. i - 1 : Conflict(access, tasks[i], tasks[n])}})
  IN  color

\* The partitions by colour, the tasks of each in the order of the batch.
Partitions(access, tasks) ==
  LET color == ColorOf(access, tasks)
      positions(c) == Select([i \in DOMAIN tasks |-> i], {i \in DOMAIN tasks : color[i] = c})
  IN  [c \in {color[i] : i \in DOMAIN tasks} |->
         [n \in DOMAIN positions(c) |-> tasks[positions(c)[n]]]]

\* Mutant: a task depends on conflicting tasks that come before it only.
ExtraDepsBefore(access, tasks, i) ==
  LET color == ColorOf(access, tasks)
  IN  {tasks[j] : j \in {n \in 1 .. i - 1 : /\ Conflict(access, tasks[i], tasks[n])
                                            /\ color[n] < color[i]}}

ExtraDeps(access, tasks, i) ==
  LET color == ColorOf(access, tasks)
  IN  {tasks[j] : j \in {n \in DOMAIN tasks : /\ Conflict(access, tasks[i], tasks[n])
                                              /\ color[n] < color[i]}}

\* What Dependencies() returns for the wrapped tasks of a batch: those the task
\* declares, then the extra ones in any order, as the range over a map yields them.
Plan(access, tasks, declared) ==
  LET position(t) == CHOOSE i \in DOMAIN tasks : tasks[i] = t
      extra == [t \in ToSet(tasks) |-> SetToSeqs(ExtraDeps(access, tasks, position(t)))]
      orders == {f \in [ToSet(tasks) -> UNION Range(extra)] :
                   \A t \in ToSet(tasks) : f[t] \in extra[t]}
  IN  {[t \in ToSet(tasks) |-> declared[t] \o f[t]] : f \in orders}

================================================================================
