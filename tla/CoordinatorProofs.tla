--------------------------- MODULE CoordinatorProofs ---------------------------
(***************************************************************************)
(* Proofs about Planner and Coordinator, for all access lists, declared    *)
(* dependencies and hash functions and any number of workers: the planner  *)
(* adds exactly the dependencies the conflicts of a batch need, they close *)
(* no cycle, and so conflicting tasks are never executed at the same time. *)
(***************************************************************************)
EXTENDS Coordinator, WorkStealingSchedulerProofs

--------------------------------------------------------------------------------
(* The colouring *)

LEMMA ConflictIsSymmetric ==
  ASSUME NEW access, NEW t, NEW u
  PROVE  Conflict(access, t, u) <=> Conflict(access, u, t)
  BY DEF Conflict

\* One of the first numbers, one more than are in use, is free.
LEMMA FirstFreeFacts ==
  ASSUME NEW used \in SUBSET Nat, IsFiniteSet(used)
  PROVE  FirstFree(used) \in Nat /\ FirstFree(used) \notin used
  <1> DEFINE n == Cardinality(used)
             free == (0 .. n) \ used
  <1>1. n \in Nat
    BY FS_CardinalityType
  <1>2. IsFiniteSet(0 .. n) /\ Cardinality(0 .. n) = n + 1
    <2> HIDE DEF n
    <2> QED BY <1>1, FS_Interval
  <1>3. free # {}
    <2> SUFFICES ASSUME 0 .. n \in SUBSET used
                 PROVE  FALSE
      OBVIOUS
    <2>1. Cardinality(0 .. n) <= n
      BY FS_Subset
    <2> HIDE DEF n
    <2> QED BY <1>1, <1>2, <2>1
  <1>4. free \in SUBSET Nat
    OBVIOUS
  <1>5. Min(free) \in free
    <2> HIDE DEF free
    <2> QED BY <1>3, <1>4, MinOfNats
  <1> QED BY <1>5 DEF FirstFree

\* color gives each position the first colour that no conflicting one before it has.
Neighbours(access, tasks, i) == {n \in 1 .. i - 1 : Conflict(access, tasks[i], tasks[n])}

Colors(color, access, tasks, len) ==
  \A i \in 1 .. len : color[i] = FirstFree({color[j] : j \in Neighbours(access, tasks, i)})

\* The colours of the positions before i are finitely many.
LEMMA NeighboursFinite ==
  ASSUME NEW access, NEW tasks, NEW i \in Nat, NEW color
  PROVE  IsFiniteSet({color[j] : j \in Neighbours(access, tasks, i)})
  <1>1. IsFiniteSet(1 .. i - 1)
    BY FS_Interval
  <1>2. IsFiniteSet(Neighbours(access, tasks, i))
    BY <1>1, FS_Subset DEF Neighbours
  <1> DEFINE N == Neighbours(access, tasks, i)
             f == [j \in N |-> color[j]]
  <1>3. f \in Surjection(N, Range(f))
    BY DEF Range, Surjection
  <1>4. Range(f) = {color[j] : j \in N}
    BY DEF Range
  <1> HIDE DEF f, N
  <1>5. IsFiniteSet(Range(f))
    BY <1>2, <1>3, FS_Surjection DEF N
  <1> QED BY <1>4, <1>5 DEF N

LEMMA ColoringExists ==
  ASSUME NEW access, NEW tasks, NEW len \in Nat
  PROVE  \E color \in [1 .. len -> Nat] : Colors(color, access, tasks, len)
  <1> DEFINE N == {n \in Nat : \E color \in [1 .. n -> Nat] : Colors(color, access, tasks, n)}
  <1>1. 0 \in N
    <2>1. [i \in 1 .. 0 |-> 0] \in [1 .. 0 -> Nat]
          /\ Colors([i \in 1 .. 0 |-> 0], access, tasks, 0)
      BY DEF Colors
    <2> QED BY <2>1
  <1>2. ASSUME NEW n \in Nat, n \in N
        PROVE  n + 1 \in N
    <2>1. PICK c \in [1 .. n -> Nat] : Colors(c, access, tasks, n)
      BY <1>2
    <2> DEFINE m == n + 1
               new == FirstFree({c[j] : j \in Neighbours(access, tasks, m)})
               d == [i \in 1 .. m |-> IF i = m THEN new ELSE c[i]]
    <2>2. new \in Nat
      <3>1. {c[j] : j \in Neighbours(access, tasks, m)} \in SUBSET Nat
        BY DEF Neighbours
      <3>2. IsFiniteSet({c[j] : j \in Neighbours(access, tasks, m)})
        <4>1. m \in Nat
          OBVIOUS
        <4> HIDE DEF m
        <4> QED BY <4>1, NeighboursFinite
      <3> QED BY <3>1, <3>2, FirstFreeFacts
    <2>3. d \in [1 .. m -> Nat]
      <3> HIDE DEF new
      <3> QED BY <2>2
    <2>4. ASSUME NEW i \in 1 .. m
          PROVE  d[i] = FirstFree({d[j] : j \in Neighbours(access, tasks, i)})
      <3>1. {d[j] : j \in Neighbours(access, tasks, i)}
            = {c[j] : j \in Neighbours(access, tasks, i)}
        <4>1. \A j \in Neighbours(access, tasks, i) : j \in 1 .. n
          BY DEF Neighbours
        <4>2. \A j \in 1 .. n : d[j] = c[j]
          OBVIOUS
        <4> HIDE DEF d
        <4> QED BY <4>1, <4>2
      <3>2. CASE i = m
        <4>1. d[i] = new
          BY <3>2
        <4> HIDE DEF d
        <4> QED BY <3>1, <3>2, <4>1
      <3>3. CASE i # m
        <4>1. i \in 1 .. n /\ d[i] = c[i]
          BY <3>3
        <4> HIDE DEF d
        <4> QED BY <2>1, <3>1, <4>1 DEF Colors
      <3> QED BY <3>2, <3>3
    <2> HIDE DEF d
    <2>5. Colors(d, access, tasks, m)
      BY <2>4 DEF Colors
    <2> QED BY <2>3, <2>5
  <1>3. Nat \subseteq N
    <2> HIDE DEF N
    <2> QED BY <1>1, <1>2, NatSetInduction
  <1> QED BY <1>3

\* The colours of a batch are numbers, and conflicting tasks have different ones.
LEMMA ColorFacts ==
  ASSUME NEW access, NEW T, NEW tasks \in Seq(T)
  PROVE  /\ ColorOf(access, tasks) \in [1 .. Len(tasks) -> Nat]
         /\ \A i, j \in 1 .. Len(tasks) : i # j /\ Conflict(access, tasks[i], tasks[j]) =>
              ColorOf(access, tasks)[i] # ColorOf(access, tasks)[j]
  <1> DEFINE len == Len(tasks)
             step(c) == [i \in DOMAIN tasks |->
                           FirstFree({c[j] : j \in {n \in 1 .. i - 1 :
                                                      Conflict(access, tasks[i], tasks[n])}})]
             color == CHOOSE c : c = step(c)
  <1>1. len \in Nat /\ DOMAIN tasks = 1 .. len
    OBVIOUS
  <1>2. PICK c \in [1 .. len -> Nat] : Colors(c, access, tasks, len)
    BY <1>1, ColoringExists
  <1>3. c = step(c)
    <2>1. \A i \in 1 .. len : c[i] = step(c)[i]
      BY <1>2 DEF Colors, Neighbours
    <2>2. c = [i \in 1 .. len |-> c[i]] /\ step(c) = [i \in 1 .. len |-> step(c)[i]]
      BY <1>2
    <2> HIDE DEF step
    <2> QED BY <2>1, <2>2
  <1>4. color = step(color)
    <2> HIDE DEF step
    <2> QED BY <1>3
  <1>5. ColorOf(access, tasks) = color
    BY DEF ColorOf
  <1> HIDE DEF color
  <1>6. \A i \in 1 .. len :
          color[i] = FirstFree({color[j] : j \in Neighbours(access, tasks, i)})
    <2> SUFFICES ASSUME NEW i \in 1 .. len
                 PROVE  step(color)[i] = FirstFree({color[j] : j \in Neighbours(access, tasks, i)})
      BY <1>4
    <2> QED BY <1>1 DEF Neighbours
  <1>7. DOMAIN color = 1 .. len /\ color = [i \in 1 .. len |-> color[i]]
    BY <1>4
  <1> HIDE DEF step
  <1> DEFINE N == {n \in Nat : \A i \in 1 .. n : i <= len => color[i] \in Nat}
  <1>8. Nat \subseteq N
    <2>1. 0 \in N
      OBVIOUS
    <2>2. ASSUME NEW n \in Nat, n \in N
          PROVE  n + 1 \in N
      <3> SUFFICES ASSUME n + 1 <= len
                   PROVE  color[n + 1] \in Nat
        BY <2>2
      <3>1. {color[j] : j \in Neighbours(access, tasks, n + 1)} \in SUBSET Nat
        BY <2>2 DEF Neighbours
      <3>2. IsFiniteSet({color[j] : j \in Neighbours(access, tasks, n + 1)})
        BY SMTT(30), NeighboursFinite
      <3>3. FirstFree({color[j] : j \in Neighbours(access, tasks, n + 1)}) \in Nat
        BY <3>1, <3>2, FirstFreeFacts
      <3> QED BY <1>6, <3>3
    <2> HIDE DEF N
    <2> QED BY <2>1, <2>2, NatSetInduction
  <1>9. color \in [1 .. len -> Nat]
    <2>1. \A i \in 1 .. len : color[i] \in Nat
      BY <1>1, <1>8
    <2> QED BY <1>7, <2>1
  <1>10. \A i \in 1 .. len : IsFiniteSet({color[j] : j \in Neighbours(access, tasks, i)})
    <2> HIDE DEF N
    <2> QED BY <1>1, NeighboursFinite
  <1>11. ASSUME NEW i \in 1 .. len, NEW k \in 1 .. i - 1, Conflict(access, tasks[i], tasks[k])
         PROVE  color[i] # color[k]
    <2> DEFINE used == {color[j] : j \in Neighbours(access, tasks, i)}
    <2>1. used \in SUBSET Nat
      BY <1>9 DEF Neighbours
    <2>2. IsFiniteSet(used)
      BY <1>10
    <2>3. color[k] \in used
      BY <1>11 DEF Neighbours
    <2>4. color[i] = FirstFree(used)
      BY <1>6
    <2> HIDE DEF used
    <2> QED BY <2>1, <2>2, <2>3, <2>4, FirstFreeFacts
  <1>12. ASSUME NEW i \in 1 .. len, NEW j \in 1 .. len, i # j,
                Conflict(access, tasks[i], tasks[j])
         PROVE  color[i] # color[j]
    <2>1. CASE j < i
      BY <1>11, <1>12, <2>1
    <2>2. CASE i < j
      <3>1. Conflict(access, tasks[j], tasks[i])
        BY <1>12, ConflictIsSymmetric
      <3> QED BY <1>11, <2>2, <3>1
    <2> QED BY <1>12, <2>1, <2>2
  <1> QED BY <1>5, <1>9, <1>12

--------------------------------------------------------------------------------
(* The partitions *)

Positions(color, tasks, c) ==
  Select([i \in DOMAIN tasks |-> i], {i \in DOMAIN tasks : color[i] = c})

\* The positions of one colour, each once.
LEMMA PositionsFacts ==
  ASSUME NEW T, NEW tasks \in Seq(T), NEW color, NEW c
  PROVE  /\ Positions(color, tasks, c) \in Seq(Nat)
         /\ ToSet(Positions(color, tasks, c)) = {i \in 1 .. Len(tasks) : color[i] = c}
         /\ IsInjective(Positions(color, tasks, c))
  <1> DEFINE s == [i \in DOMAIN tasks |-> i]
             S == {i \in DOMAIN tasks : color[i] = c}
  <1>1. s \in Seq(Nat) /\ ToSet(s) = 1 .. Len(tasks) /\ IsInjective(s)
    <2>1. DOMAIN tasks = 1 .. Len(tasks) /\ Len(tasks) \in Nat
      OBVIOUS
    <2> QED BY <2>1 DEF ToSet, IsInjective
  <1>2. S = {i \in 1 .. Len(tasks) : color[i] = c}
    OBVIOUS
  <1>3. Positions(color, tasks, c) = Select(s, S)
    BY DEF Positions
  <1> HIDE DEF s, S
  <1>4. /\ Select(s, S) \in Seq(Nat)
        /\ ToSet(Select(s, S)) = ToSet(s) \cap S
        /\ IsInjective(Select(s, S))
    BY <1>1, SelectFacts
  <1> QED BY <1>1, <1>2, <1>3, <1>4

\* The members of a partition are the tasks at the positions of its colour.
LEMMA PartitionFacts ==
  ASSUME NEW access, NEW T, NEW tasks \in Seq(T)
  PROVE  /\ \A c : c \in DOMAIN Partitions(access, tasks) <=>
                \E i \in 1 .. Len(tasks) : ColorOf(access, tasks)[i] = c
         /\ \A c \in DOMAIN Partitions(access, tasks) :
              Partitions(access, tasks)[c] =
                [n \in DOMAIN Positions(ColorOf(access, tasks), tasks, c) |->
                   tasks[Positions(ColorOf(access, tasks), tasks, c)[n]]]
  <1>1. DOMAIN tasks = 1 .. Len(tasks)
    OBVIOUS
  <1> QED BY <1>1 DEF Partitions, Positions

\* No two tasks of a partition conflict.
LEMMA PartitionsAreDisjoint ==
  ASSUME NEW access, NEW T, NEW tasks \in Seq(T),
         NEW c \in DOMAIN Partitions(access, tasks),
         NEW i \in DOMAIN Partitions(access, tasks)[c],
         NEW j \in DOMAIN Partitions(access, tasks)[c], i # j
  PROVE  ~ Conflict(access, Partitions(access, tasks)[c][i], Partitions(access, tasks)[c][j])
  <1> DEFINE color == ColorOf(access, tasks)
             p == Positions(color, tasks, c)
  <1>1. Partitions(access, tasks)[c] = [n \in DOMAIN p |-> tasks[p[n]]]
    BY PartitionFacts
  <1> HIDE DEF color
  <1>2. /\ p \in Seq(Nat) /\ IsInjective(p)
        /\ ToSet(p) = {n \in 1 .. Len(tasks) : color[n] = c}
    BY PositionsFacts
  <1> HIDE DEF p
  <1>3. i \in DOMAIN p /\ j \in DOMAIN p
    BY <1>1
  <1>4. p[i] \in ToSet(p) /\ p[j] \in ToSet(p) /\ p[i] # p[j]
    BY <1>2, <1>3 DEF ToSet, IsInjective
  <1>5. /\ p[i] \in 1 .. Len(tasks) /\ p[j] \in 1 .. Len(tasks)
        /\ color[p[i]] = color[p[j]]
    BY <1>2, <1>4
  <1>6. ~ Conflict(access, tasks[p[i]], tasks[p[j]])
    BY <1>4, <1>5, ColorFacts DEF color
  <1> QED BY <1>1, <1>3, <1>6

\* A task of the batch is in the partition of its colour only.
LEMMA OnePartition ==
  ASSUME NEW access, NEW T, NEW tasks \in Seq(T), IsInjective(tasks), NEW t \in ToSet(tasks)
  PROVE  Cardinality({c \in DOMAIN Partitions(access, tasks) :
                        Contains(Partitions(access, tasks)[c], t)}) = 1
  <1> DEFINE color == ColorOf(access, tasks)
             parts == Partitions(access, tasks)
             p(c) == Positions(color, tasks, c)
  <1>1. PICK k \in 1 .. Len(tasks) : tasks[k] = t
    BY DEF ToSet
  <1>2. \A c : c \in DOMAIN parts <=> \E i \in 1 .. Len(tasks) : color[i] = c
    BY PartitionFacts
  <1>3. ASSUME NEW c \in DOMAIN parts
        PROVE  Contains(parts[c], t) <=> c = color[k]
    <2>1. parts[c] = [n \in DOMAIN p(c) |-> tasks[p(c)[n]]]
      BY PartitionFacts
    <2>2. /\ p(c) \in Seq(Nat)
          /\ ToSet(p(c)) = {n \in 1 .. Len(tasks) : color[n] = c}
      BY PositionsFacts
    <2> HIDE DEF p, color, parts
    <2>3. DOMAIN p(c) = 1 .. Len(p(c)) /\ Len(p(c)) \in Nat
      BY <2>2
    <2>4. Len(parts[c]) = Len(p(c)) /\ \A n \in 1 .. Len(p(c)) : parts[c][n] = tasks[p(c)[n]]
      BY <2>1, <2>3
    <2>5. ASSUME Contains(parts[c], t)
          PROVE  c = color[k]
      <3>1. PICK n \in 1 .. Len(p(c)) : tasks[p(c)[n]] = t
        BY <2>4, <2>5 DEF Contains
      <3>2. p(c)[n] \in 1 .. Len(tasks) /\ color[p(c)[n]] = c
        BY <2>2, <2>3, <3>1 DEF ToSet
      <3>3. p(c)[n] = k
        BY <1>1, <3>1, <3>2 DEF IsInjective
      <3> QED BY <3>2, <3>3
    <2>6. ASSUME c = color[k]
          PROVE  Contains(parts[c], t)
      <3>1. k \in ToSet(p(c))
        BY <2>2, <2>6
      <3>2. PICK n \in 1 .. Len(p(c)) : p(c)[n] = k
        BY <2>3, <3>1 DEF ToSet
      <3> QED BY <1>1, <2>4, <3>2 DEF Contains
    <2> QED BY <2>5, <2>6
  <1>4. color[k] \in DOMAIN parts
    BY <1>2
  <1> HIDE DEF color, parts
  <1>5. {c \in DOMAIN parts : Contains(parts[c], t)} = {color[k]}
    BY <1>3, <1>4
  <1>6. Cardinality({c \in DOMAIN parts : Contains(parts[c], t)}) = 1
    BY <1>5, FS_Singleton
  <1> QED BY <1>6 DEF parts

--------------------------------------------------------------------------------
(* The added dependencies *)

\* A sequence of all elements of a set has them all.
LEMMA SetToSeqsFacts ==
  ASSUME NEW S, IsFiniteSet(S), NEW e \in SetToSeqs(S)
  PROVE  e \in Seq(S) /\ ToSet(e) = S /\ Len(e) = Cardinality(S)
  <1> DEFINE n == Cardinality(S)
  <1>1. n \in Nat
    BY FS_CardinalityType
  <1>2. e \in [1 .. n -> S] /\ \A i, j \in 1 .. n : i # j => e[i] # e[j]
    BY DEF SetToSeqs
  <1>3. e \in Seq(S) /\ Len(e) = n /\ DOMAIN e = 1 .. n
    <2> HIDE DEF n
    <2> QED BY <1>1, <1>2
  <1>4. e \in Injection(1 .. n, S)
    <2> HIDE DEF n
    <2> QED BY <1>2 DEF Injection, IsInjective
  <1>5. Cardinality(1 .. n) = n
    <2> HIDE DEF n
    <2> QED BY <1>1, FS_Interval
  <1>6. e \in Surjection(1 .. n, S)
    BY <1>4, <1>5, FS_Injection
  <1>7. ToSet(e) = S
    <2> HIDE DEF n
    <2> QED BY <1>3, <1>6 DEF Surjection, ToSet
  <1> QED BY <1>3, <1>7

\* The extra dependencies of the task at position i: those it conflicts with that have a
\* lower colour.
LEMMA ExtraDepsFacts ==
  ASSUME NEW access, NEW T, NEW tasks \in Seq(T), NEW i \in 1 .. Len(tasks)
  PROVE  /\ ExtraDeps(access, tasks, i) \in SUBSET ToSet(tasks)
         /\ IsFiniteSet(ExtraDeps(access, tasks, i))
         /\ \A u : u \in ExtraDeps(access, tasks, i) <=>
              \E n \in 1 .. Len(tasks) :
                /\ tasks[n] = u /\ Conflict(access, tasks[i], tasks[n])
                /\ ColorOf(access, tasks)[n] < ColorOf(access, tasks)[i]
  <1>1. DOMAIN tasks = 1 .. Len(tasks) /\ Len(tasks) \in Nat
    OBVIOUS
  <1>2. \A u : u \in ExtraDeps(access, tasks, i) <=>
          \E n \in 1 .. Len(tasks) :
            /\ tasks[n] = u /\ Conflict(access, tasks[i], tasks[n])
            /\ ColorOf(access, tasks)[n] < ColorOf(access, tasks)[i]
    BY <1>1 DEF ExtraDeps
  <1>3. ExtraDeps(access, tasks, i) \in SUBSET ToSet(tasks)
    BY <1>1, <1>2 DEF ToSet
  <1>4. IsFiniteSet(ToSet(tasks))
    <2>1. tasks \in Surjection(1 .. Len(tasks), ToSet(tasks))
      BY <1>1 DEF Surjection, ToSet
    <2>2. IsFiniteSet(1 .. Len(tasks))
      BY <1>1, FS_Interval
    <2> QED BY <2>1, <2>2, FS_Surjection
  <1>5. IsFiniteSet(ExtraDeps(access, tasks, i))
    BY <1>3, <1>4, FS_Subset
  <1> QED BY <1>2, <1>3, <1>5

Extends(s, r, e) == s = r \o e

\* A plan appends to what a task declares its extra dependencies, in some order.
LEMMA PlanFacts ==
  ASSUME NEW access, NEW T, NEW tasks \in Seq(T), IsInjective(tasks), NEW lists,
         NEW g \in Plan(access, tasks, lists), NEW i \in 1 .. Len(tasks)
  PROVE  \E e \in SetToSeqs(ExtraDeps(access, tasks, i)) :
           Extends(g[tasks[i]], lists[tasks[i]], e)
  <1> DEFINE position(t) == CHOOSE k \in DOMAIN tasks : tasks[k] = t
             seqs(t) == SetToSeqs(ExtraDeps(access, tasks, position(t)))
  <1>1. PICK f : /\ g = [t \in ToSet(tasks) |-> lists[t] \o f[t]]
                 /\ \A t \in ToSet(tasks) : f[t] \in seqs(t)
    <2> DEFINE extra == [t \in ToSet(tasks) |-> seqs(t)]
               orders == {f \in [ToSet(tasks) -> UNION Range(extra)] :
                            \A t \in ToSet(tasks) : f[t] \in extra[t]}
    <2>1. g \in {[t \in ToSet(tasks) |-> lists[t] \o f[t]] : f \in orders}
      BY DEF Plan
    <2> QED BY <2>1
  <1>2. i \in DOMAIN tasks /\ tasks[i] \in ToSet(tasks)
    BY DEF ToSet
  <1>3. position(tasks[i]) = i
    BY <1>2 DEF IsInjective
  <1>4. f[tasks[i]] \in SetToSeqs(ExtraDeps(access, tasks, i))
    BY <1>1, <1>2, <1>3
  <1> HIDE DEF position, seqs
  <1> QED BY <1>1, <1>2, <1>4 DEF Extends

\* The batches repeat no task.  A task may declare a task it conflicts with.
DistinctTasks(s) ==
  /\ \A b \in DOMAIN s.batches : IsInjective(s.batches[b])
  /\ \A b, c \in DOMAIN s.batches :
       b # c => ToSet(s.batches[b]) \cap ToSet(s.batches[c]) = {}

\* In a setup every task of a batch depends on what the plan of its batch says.
LEMMA PlannedGraph ==
  ASSUME NEW s \in Setups, DistinctTasks(s), NEW b \in DOMAIN s.batches,
         NEW i \in 1 .. Len(s.batches[b])
  PROVE  /\ s.declared \in [Tasks -> Seq(Tasks)]
         /\ \E e \in SetToSeqs(ExtraDeps(s.access, s.batches[b], i)) :
              Extends(s.graph[s.batches[b][i]], s.declared[s.batches[b][i]], e)
  <1> DEFINE tasks == s.batches[b]
             t == tasks[i]
  <1>1. PICK r \in Requests : s \in Prepare(r)
    BY PlannedAssumption
  <1> DEFINE calls(u) == {c \in DOMAIN r.batches : Contains(r.batches[c], u)}
  <1>2. PICK f : /\ \A c \in DOMAIN r.batches : f[c] \in Plan(r.access, r.batches[c], r.declared)
                 /\ s.graph = [u \in Tasks |->
                                 IF calls(u) = {} THEN <<>> ELSE f[Min(calls(u))][u]]
                 /\ s.access = r.access /\ s.declared = r.declared /\ s.batches = r.batches
    <2> DEFINE planned == [c \in DOMAIN r.batches |-> Plan(r.access, r.batches[c], r.declared)]
               plans == {f \in [DOMAIN r.batches -> UNION Range(planned)] :
                           \A c \in DOMAIN r.batches : f[c] \in planned[c]}
               made(f) ==
                 [graph |-> [u \in Tasks |-> IF calls(u) = {} THEN <<>> ELSE f[Min(calls(u))][u]],
                  access |-> r.access, declared |-> r.declared, batches |-> r.batches,
                  queueSize |-> r.queueSize, stealing |-> r.stealing,
                  balancing |-> r.balancing, analysis |-> r.analysis,
                  maxAborts |-> r.maxAborts, maxClose |-> r.maxClose]
    <2>1. Prepare(r) = {made(f) : f \in plans}
      BY DEF Prepare
    <2>2. PICK f \in plans : s = made(f)
      BY <1>1, <2>1
    <2>3. \A c \in DOMAIN r.batches : f[c] \in Plan(r.access, r.batches[c], r.declared)
      BY <2>2
    <2> HIDE DEF plans, planned, calls
    <2> QED BY <2>2, <2>3
  <1>3. r.declared \in [Tasks -> Seq(Tasks)] /\ r.batches \in Seq(Seq(Tasks))
    BY RequestsAssumption
  <1>4. tasks \in Seq(Tasks) /\ b \in Nat
    BY <1>2, <1>3
  <1>5. t \in Tasks /\ t \in ToSet(tasks)
    BY <1>4 DEF ToSet
  <1>6. ASSUME NEW c \in DOMAIN r.batches
        PROVE  Contains(r.batches[c], t) <=> t \in ToSet(s.batches[c])
    <2>1. r.batches[c] \in Seq(Tasks)
      BY <1>3
    <2> QED BY <1>2, <2>1 DEF Contains, ToSet
  <1>7. calls(t) = {b}
    <2>1. \A c \in DOMAIN r.batches : t \in ToSet(r.batches[c]) => c = b
      BY <1>2, <1>5 DEF DistinctTasks
    <2>2. b \in DOMAIN r.batches /\ t \in ToSet(r.batches[b])
      BY <1>2, <1>5
    <2> QED BY <1>2, <1>6, <2>1, <2>2
  <1>8. Min(calls(t)) = b
    <2> HIDE DEF calls
    <2> QED BY <1>4, <1>7, MinOfOne
  <1>9. s.graph[t] = f[b][t]
    <2> HIDE DEF calls, t
    <2> QED BY <1>2, <1>5, <1>7, <1>8
  <1>10. f[b] \in Plan(s.access, tasks, s.declared)
    BY <1>2
  <1>11. IsInjective(tasks)
    BY DEF DistinctTasks
  <1>12. \E e \in SetToSeqs(ExtraDeps(s.access, tasks, i)) :
           Extends(f[b][t], s.declared[t], e)
    <2>1. i \in 1 .. Len(tasks)
      OBVIOUS
    <2> HIDE DEF tasks
    <2> QED BY <1>4, <1>10, <1>11, <2>1, PlanFacts
  <1> QED BY <1>2, <1>3, <1>9, <1>12

\* What was added to the task at position i of a batch are its extra dependencies.
LEMMA AddedFacts ==
  ASSUME setup \in Setups, DistinctTasks(setup), NEW b \in DOMAIN Batches,
         NEW i \in 1 .. Len(Batches[b])
  PROVE  /\ ToSet(Added(Batches[b][i])) = ExtraDeps(setup.access, Batches[b], i)
         /\ \A u : Contains(Added(Batches[b][i]), u) <=> u \in ToSet(Added(Batches[b][i]))
         /\ ToSet(Added(Batches[b][i])) \subseteq ToSet(setup.graph[Batches[b][i]])
  <1> DEFINE tasks == Batches[b]
             t == tasks[i]
             E == ExtraDeps(setup.access, tasks, i)
             d == setup.declared[t]
  <1>1. tasks \in Seq(Tasks)
    BY SetupsAssumption DEF SetupOK, Batches
  <1>2. t \in Tasks
    BY <1>1
  <1>3. PICK e \in SetToSeqs(E) : setup.graph[t] = d \o e
    BY PlannedGraph DEF Batches, Extends
  <1>4. d \in Seq(Tasks)
    BY <1>2, PlannedGraph DEF Batches
  <1>5. IsFiniteSet(E) /\ E \subseteq Tasks
    <2>1. IsFiniteSet(E) /\ E \subseteq ToSet(tasks)
      <3> HIDE DEF tasks
      <3> QED BY <1>1, ExtraDepsFacts DEF tasks
    <2>2. ToSet(tasks) \subseteq Tasks
      BY <1>1 DEF ToSet
    <2> QED BY <2>1, <2>2
  <1> HIDE DEF E, d
  <1>6. e \in Seq(E) /\ ToSet(e) = E
    BY <1>5, SetToSeqsFacts
  <1>7. e \in Seq(Tasks)
    BY <1>5, <1>6
  <1>8. Added(t) = e
    <2>1. Len(d \o e) = Len(d) + Len(e) /\ Len(d) \in Nat /\ Len(e) \in Nat
          /\ \A k \in 1 .. Len(e) : (d \o e)[Len(d) + k] = e[k]
      BY <1>4, <1>7
    <2>2. Added(t) = SubSeq(d \o e, Len(d) + 1, Len(d) + Len(e))
      BY <1>3, <2>1 DEF Added, d
    <2>3. d \o e \in Seq(Tasks)
      BY <1>4, <1>7
    <2> QED BY <1>4, <1>7, <2>1, <2>2, <2>3
  <1>9. ToSet(setup.graph[t]) = ToSet(d) \cup ToSet(e)
    BY <1>3, <1>4, <1>7, ConcatFacts
  <1>10. \A u : Contains(e, u) <=> u \in ToSet(e)
    BY <1>7 DEF Contains, ToSet
  <1> QED BY <1>6, <1>8, <1>9, <1>10 DEF E

\* Two tasks of a batch conflict exactly if one of them was made to depend on the other.
LEMMA ConflictsAreOrdered ==
  ASSUME setup \in Setups, DistinctTasks(setup), NEW b \in DOMAIN Batches,
         NEW i \in 1 .. Len(Batches[b]), NEW j \in 1 .. Len(Batches[b]), i # j
  PROVE  Conflict(setup.access, Batches[b][i], Batches[b][j]) <=>
           \/ Batches[b][j] \in ToSet(Added(Batches[b][i]))
           \/ Batches[b][i] \in ToSet(Added(Batches[b][j]))
  <1> DEFINE tasks == Batches[b]
             color == ColorOf(setup.access, tasks)
             E(k) == ExtraDeps(setup.access, tasks, k)
             conflict(k, l) == Conflict(setup.access, tasks[k], tasks[l])
  <1>1. tasks \in Seq(Tasks)
    BY SetupsAssumption DEF SetupOK, Batches
  <1>2. ToSet(Added(tasks[i])) = E(i) /\ ToSet(Added(tasks[j])) = E(j)
    BY AddedFacts
  <1>3. i \in 1 .. Len(tasks) /\ j \in 1 .. Len(tasks)
    OBVIOUS
  <1> HIDE DEF tasks
  <1>4. \A k \in 1 .. Len(tasks) : \A u : u \in E(k) <=>
          \E n \in 1 .. Len(tasks) : tasks[n] = u /\ conflict(k, n) /\ color[n] < color[k]
    BY <1>1, ExtraDepsFacts
  <1>5. /\ color \in [1 .. Len(tasks) -> Nat]
        /\ \A k, l \in 1 .. Len(tasks) : k # l /\ conflict(k, l) => color[k] # color[l]
    BY <1>1, ColorFacts
  <1>6. \A k, l : conflict(k, l) <=> conflict(l, k)
    BY ConflictIsSymmetric
  <1>7. tasks[j] \in E(i) \/ tasks[i] \in E(j) => conflict(i, j)
    BY <1>3, <1>4, ConflictIsSymmetric
  <1> HIDE DEF color, E, conflict
  <1>8. conflict(i, j) => color[i] < color[j] \/ color[j] < color[i]
    BY <1>3, <1>5
  <1>9. conflict(i, j) => tasks[j] \in E(i) \/ tasks[i] \in E(j)
    BY <1>3, <1>4, <1>6, <1>8
  <1> QED BY <1>2, <1>7, <1>9 DEF conflict, tasks

\* The added dependencies lead to lower colours, so they close no cycle.
LEMMA AddedCloseNoCycle ==
  ASSUME setup \in Setups, DistinctTasks(setup), NEW b \in DOMAIN Batches
  PROVE  ~ CycleBelow([t \in ToSet(Batches[b]) |-> Added(t)], ToSet(Batches[b]))
  <1> DEFINE tasks == Batches[b]
             color == ColorOf(setup.access, tasks)
             added == [t \in ToSet(tasks) |-> Added(t)]
  <1>1. tasks \in Seq(Tasks)
    BY SetupsAssumption DEF SetupOK, Batches
  <1>2. \A i \in 1 .. Len(tasks) : \A u :
          Contains(Added(tasks[i]), u) => u \in ExtraDeps(setup.access, tasks, i)
    BY AddedFacts
  <1>3. SUFFICES ASSUME NEW C \in (SUBSET Reachable(added, ToSet(tasks))) \ {{}},
                        \A t \in C : \E d \in C : Contains(added[t], d)
                 PROVE  FALSE
    BY DEF CycleBelow
  <1>4. C \subseteq ToSet(tasks) /\ \A t \in C : added[t] = Added(t)
    BY DEF Reachable
  <1> HIDE DEF tasks, added
  <1>5. color \in [1 .. Len(tasks) -> Nat]
    BY <1>1, ColorFacts
  <1>6. \A i \in 1 .. Len(tasks) : \A u : u \in ExtraDeps(setup.access, tasks, i) =>
          \E n \in 1 .. Len(tasks) : tasks[n] = u /\ color[n] < color[i]
    BY <1>1, ExtraDepsFacts
  <1> DEFINE P == {i \in 1 .. Len(tasks) : tasks[i] \in C}
             K == {color[i] : i \in P}
  <1> HIDE DEF color
  <1>7. P # {}
    BY <1>1, <1>4 DEF ToSet
  <1>8. K \in SUBSET Nat /\ K # {}
    BY <1>5, <1>7
  <1>9. PICK i \in P : \A k \in K : color[i] <= k
    <2> HIDE DEF P
    <2>1. Min(K) \in K /\ \A k \in K : Min(K) <= k
      <3> HIDE DEF K
      <3> QED BY <1>8, MinOfNats
    <2> QED BY <2>1
  <1>10. PICK d \in C : Contains(Added(tasks[i]), d)
    BY <1>3, <1>4
  <1>11. PICK n \in 1 .. Len(tasks) : tasks[n] = d /\ color[n] < color[i]
    BY <1>2, <1>6, <1>10
  <1>12. n \in P /\ color[i] <= color[n]
    BY <1>9, <1>10, <1>11
  <1> QED BY <1>5, <1>11, <1>12

\* "Tasks within the same batch have disjoint access keys", the partitions hold every
\* task of a batch once, and the added dependencies order exactly the pairs of tasks that
\* conflict, without a cycle: for every list of accesses and every way Go ranges over the
\* maps of the planner.
THEOREM PlanningIsSound ==
  ASSUME \A s \in Setups : DistinctTasks(s)
  PROVE  Spec => []PlanIsSound
  <1>1. Init => setup \in Setups
    BY DEF Init
  <1>2. setup \in Setups /\ [Next]_vars => (setup \in Setups)'
    BY SetupUnchanged
  <1>3. setup \in Setups => PlanIsSound
    <2> SUFFICES ASSUME setup \in Setups, DistinctTasks(setup), NEW tasks \in ToSet(Batches)
                 PROVE  LET parts == Partitions(setup.access, tasks)
                            of == ToSet(tasks)
                            depends(t, u) == Contains(Added(t), u) \/ Contains(Added(u), t)
                        IN  /\ \A c \in DOMAIN parts : \A i, j \in DOMAIN parts[c] :
                                 i # j => ~ Conflict(setup.access, parts[c][i], parts[c][j])
                            /\ \A t \in of :
                                 Cardinality({c \in DOMAIN parts : Contains(parts[c], t)}) = 1
                            /\ \A t, u \in of : t # u =>
                                 (Conflict(setup.access, t, u) <=> depends(t, u))
                            /\ ~ CycleBelow([t \in of |-> Added(t)], of)
      BY DEF PlanIsSound
    <2>1. PICK b \in DOMAIN Batches : tasks = Batches[b]
      BY SetupsAssumption DEF SetupOK, Batches, ToSet
    <2>2. tasks \in Seq(Tasks) /\ IsInjective(tasks)
      BY <2>1, SetupsAssumption DEF SetupOK, Batches, DistinctTasks
    <2>3. ASSUME NEW c \in DOMAIN Partitions(setup.access, tasks),
                 NEW i \in DOMAIN Partitions(setup.access, tasks)[c],
                 NEW j \in DOMAIN Partitions(setup.access, tasks)[c], i # j
          PROVE  ~ Conflict(setup.access, Partitions(setup.access, tasks)[c][i],
                                          Partitions(setup.access, tasks)[c][j])
      BY <2>2, <2>3, PartitionsAreDisjoint
    <2>4. ASSUME NEW t \in ToSet(tasks)
          PROVE  Cardinality({c \in DOMAIN Partitions(setup.access, tasks) :
                                Contains(Partitions(setup.access, tasks)[c], t)}) = 1
      BY <2>2, OnePartition
    <2>5. ASSUME NEW t \in ToSet(tasks), NEW u \in ToSet(tasks), t # u
          PROVE  Conflict(setup.access, t, u) <=> Contains(Added(t), u) \/ Contains(Added(u), t)
      <3>1. PICK i \in 1 .. Len(Batches[b]), j \in 1 .. Len(Batches[b]) :
                   t = Batches[b][i] /\ u = Batches[b][j]
        BY <2>1, <2>2 DEF ToSet
      <3>2. Conflict(setup.access, t, u) <=> u \in ToSet(Added(t)) \/ t \in ToSet(Added(u))
        BY <2>5, <3>1, ConflictsAreOrdered
      <3>3. /\ Contains(Added(t), u) <=> u \in ToSet(Added(t))
            /\ Contains(Added(u), t) <=> t \in ToSet(Added(u))
        BY <3>1, AddedFacts
      <3> QED BY <3>2, <3>3
    <2>6. ~ CycleBelow([t \in ToSet(tasks) |-> Added(t)], ToSet(tasks))
      BY <2>1, AddedCloseNoCycle
    <2> QED BY <2>3, <2>4, <2>5, <2>6
  <1> QED BY <1>1, <1>2, <1>3, PTL DEF Spec

--------------------------------------------------------------------------------
(* Conflicting tasks *)

\* Whatever is reported after executions, a known task still depends on all that it was
\* submitted with.
DeclaredInv ==
  \A t \in Tasks : status[t] # "unknown" =>
    ToSet(setup.graph[t]) \subseteq ToSet(dependencies[t])

LEMMA StepKeepsDeclaredInv ==
  ASSUME IInv, DeclaredInv, [Next]_vars, UNCHANGED setup
  PROVE  DeclaredInv'
  <1>1. MapType /\ IInv'
    BY NextKeepsIInv, TypeParts DEF IInv
  <1>2. CASE UNCHANGED <<dependencies, Submitted>>
    BY <1>2 DEF DeclaredInv, Submitted
  <1>3. CASE AddTasks
    <2> DEFINE T == ToSet(Batches[batch])
    <2>1. dependencies' = [t \in Tasks |-> IF t \in T THEN declared[t] ELSE dependencies[t]]
      BY <1>3, Zenon DEF AddTasks
    <2>2. \A t \in Tasks \ T : status'[t] = status[t]
      BY <1>3, AddTasksStatuses
    <2> QED BY <2>1, <2>2 DEF DeclaredInv, declared
  <1>4. ASSUME NEW w \in Workers, NEW d \in Tasks, AbortTask(w, d)
        PROVE  DeclaredInv'
    <2> DEFINE r == worker[w].task
    <2>1. r \in Tasks /\ status[r] = "running"
      BY <1>4, TypeParts DEF AbortTask, IInv, LockInv, WorkerStatusAccurate, Holding, WorkerType
    <2>2. /\ status' = [status EXCEPT ![r] = "pending"]
          /\ dependencies' = [dependencies EXCEPT ![r] =
                                IF Contains(dependencies[r], d) THEN @ ELSE Append(@, d)]
      BY <1>4 DEF AbortTask
    <2> HIDE DEF r
    <2>3. \A t \in Tasks : status'[t] # "unknown" => status[t] # "unknown"
      BY <1>1, <2>1, <2>2 DEF MapType
    <2>4. ToSet(dependencies[r]) \subseteq ToSet(dependencies'[r])
      BY <1>1, <2>1, <2>2, AppendFacts DEF MapType
    <2>5. \A t \in Tasks : ToSet(dependencies[t]) \subseteq ToSet(dependencies'[t])
      BY <1>1, <2>1, <2>2, <2>4 DEF MapType
    <2> QED BY <2>3, <2>5 DEF DeclaredInv
  <1>5. ASSUME NEW w \in Workers, WorkerStep(w)
        PROVE  UNCHANGED <<dependencies, Submitted>> \/ \E d \in Tasks : AbortTask(w, d)
    <2>1. CASE SetRunning(w)
      <3>1. \E t \in Tasks : Execution!Start(w, t)
        BY <2>1, SetRunningStarts
      <3> QED BY <3>1 DEF Execution!Start, Submitted
    <2>2. CASE CompleteTask(w)
      <3>1. Execution!Finish(w)
        BY <2>2, CompleteTaskFinishes
      <3> QED BY <3>1 DEF Execution!Finish, Submitted
    <2>3. CASE \/ NextTask(w) \/ PopBottom(w) \/ OwnQueueEmpty(w) \/ PopReady(w)
               \/ ReadyQueueEmpty(w) \/ Steal(w) \/ StealMiss(w) \/ AssignCurrent(w)
               \/ SortWorkers(w) \/ PushToWorker(w) \/ MarkReady(w) \/ OverflowToReady(w)
               \/ DistributionDone(w) \/ AddToGlobalQueue(w)
      <3>1. UNCHANGED Execution!vars
        BY <1>1, <2>3, StepsUnobserved
      <3> QED BY <3>1 DEF Execution!vars, Submitted
    <2> QED BY <1>5, <2>1, <2>2, <2>3 DEF WorkerStep
  <1>6. CASE AddTasksCheck \/ Close \/ UNCHANGED vars
    <2>1. UNCHANGED <<status, dependencies>>
      BY <1>6 DEF AddTasksCheck, Close, vars, taskMaps
    <2> QED BY <1>2, <2>1 DEF Submitted
  <1> QED BY <1>2, <1>3, <1>4, <1>5, <1>6 DEF Next

\* Two tasks of a batch that share a key are never executed at the same time, for any
\* number of workers and any interleaving, with reported conflicts, stealing and Close:
\* one of them was made to depend on the other, and so waits for its completion.
THEOREM ConflictsAreSerialized ==
  ASSUME TasksSubmittedOnce
  PROVE  Spec => []ConflictsNeverOverlap
  <1>1. Init => DeclaredInv
    BY DEF Init, DeclaredInv
  <1>2. IInv /\ DeclaredInv /\ [Next]_vars => DeclaredInv'
    <2> SUFFICES ASSUME IInv, DeclaredInv, [Next]_vars
                 PROVE  DeclaredInv'
      OBVIOUS
    <2>1. UNCHANGED setup
      BY SetupUnchanged
    <2> QED BY <2>1, StepKeepsDeclaredInv
  <1>3. IInv /\ setup \in Setups /\ DeclaredInv => ConflictsNeverOverlap
    <2> SUFFICES ASSUME IInv, setup \in Setups, DeclaredInv,
                        NEW v \in Workers, NEW w \in Workers, v # w,
                        worker[v].pc = "running", worker[w].pc = "running",
                        NEW tasks \in ToSet(Batches),
                        worker[v].task \in ToSet(tasks), worker[w].task \in ToSet(tasks),
                        Conflict(setup.access, worker[v].task, worker[w].task)
                 PROVE  FALSE
      BY DEF ConflictsNeverOverlap
    <2> DEFINE t == worker[v].task
               u == worker[w].task
    <2>1. PICK b \in DOMAIN Batches : tasks = Batches[b]
      BY SetupsAssumption DEF SetupOK, Batches, ToSet
    <2>2. tasks \in Seq(Tasks)
      BY <2>1, SetupsAssumption DEF SetupOK, Batches
    <2>3. PICK i \in 1 .. Len(Batches[b]), j \in 1 .. Len(Batches[b]) :
                 t = Batches[b][i] /\ u = Batches[b][j]
      BY <2>1, <2>2 DEF ToSet
    <2>4. t \in Tasks /\ u \in Tasks /\ t # NoTask /\ u # NoTask /\ t # u
      BY <2>2, NoTaskAssumption DEF IInv, PlaceInv, ToSet
    <2>5. status[t] = "running" /\ status[u] = "running"
      BY DEF IInv, WorkerStatusAccurate
    <2>6. DistinctTasks(setup)
      BY DEF IInv, BatchInv, OnceEach, DistinctTasks
    <2> HIDE DEF t, u
    <2>7. u \in ToSet(Added(t)) \/ t \in ToSet(Added(u))
      BY <2>3, <2>4, <2>6, ConflictsAreOrdered DEF t, u
    <2>8. ToSet(Added(t)) \subseteq ToSet(setup.graph[t])
          /\ ToSet(Added(u)) \subseteq ToSet(setup.graph[u])
      BY <2>3, <2>6, AddedFacts
    <2>9. u \in ToSet(dependencies[t]) \/ t \in ToSet(dependencies[u])
      BY <2>4, <2>5, <2>7, <2>8 DEF DeclaredInv
    <2>10. status[u] = "completed" \/ status[t] = "completed"
      BY <2>4, <2>5, <2>9 DEF IInv, OrderInv, IsTaskReady
    <2> QED BY <2>5, <2>10
  <1> QED BY <1>1, <1>2, <1>3, Invariance, PTL DEF Spec

================================================================================
