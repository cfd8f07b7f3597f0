------------------------- MODULE LockFreeStorageProofs -------------------------
(***************************************************************************)
(* Proofs about LockFreeStorage for any keys and buckets, any number of    *)
(* transactions, incarnations and readers, and any calls of GC.  What a    *)
(* chain holds is computed by recursion along the pointers.  Without a     *)
(* MemoryPool nodes are numbered as they are created and every pointer     *)
(* leads to a smaller number, which orders the versions of a key.  With    *)
(* one a node is used again under its old number: there the second half    *)
(* shows only that pointers do not run in circles, and from that what a    *)
(* chain may hold.                                                         *)
(***************************************************************************)
EXTENDS LockFreeStorage, SequenceLemmas, SequenceTheorems

--------------------------------------------------------------------------------
(* Chains, for any pointers that lead down *)

Down(nx, N) == \A n \in 1 .. N : nx[n] \in 0 .. n - 1

IsBelow(f, nx, N) == \A n \in 0 .. N : f[n] = IF n = 0 THEN {} ELSE {n} \cup f[nx[n]]

LEMMA BelowStep ==
  ASSUME NEW N \in Nat, NEW nx, Down(nx, N), NEW f, IsBelow(f, nx, N), NEW n \in 0 .. N
  PROVE  /\ n = 0 => f[n] = {}
         /\ n # 0 => nx[n] \in 0 .. n - 1 /\ f[n] = {n} \cup f[nx[n]]
  <1>1. f[n] = IF n = 0 THEN {} ELSE {n} \cup f[nx[n]]
    BY DEF IsBelow
  <1>2. n # 0 => nx[n] \in 0 .. n - 1
    BY DEF Down
  <1> QED BY <1>1, <1>2

LEMMA StrongInduction ==
  ASSUME NEW N \in Nat, NEW S, \A n \in 0 .. N : (\A m \in 0 .. n - 1 : m \in S) => n \in S
  PROVE  0 .. N \subseteq S
  <1> DEFINE P == {n \in Nat : \A m \in 0 .. n : m <= N => m \in S}
  <1>1. 0 \in P
    OBVIOUS
  <1>2. ASSUME NEW n \in Nat, n \in P
        PROVE  n + 1 \in P
    <2> SUFFICES ASSUME n + 1 <= N
                 PROVE  n + 1 \in S
      BY <1>2
    <2>1. \A m \in 0 .. n + 1 - 1 : m \in S
      BY <1>2
    <2> QED BY <2>1
  <1>3. Nat \subseteq P
    <2> HIDE DEF P
    <2> QED BY <1>1, <1>2, NatSetInduction
  <1> QED BY <1>3

LEMMA BelowBounds ==
  ASSUME NEW N \in Nat, NEW nx, Down(nx, N), NEW f, IsBelow(f, nx, N)
  PROVE  \A n \in 0 .. N : f[n] \subseteq 1 .. n
  <1> DEFINE S == {n \in 0 .. N : f[n] \subseteq 1 .. n}
  <1>1. ASSUME NEW n \in 0 .. N, \A m \in 0 .. n - 1 : m \in S
        PROVE  n \in S
    <2>1. CASE n = 0
      BY <2>1, BelowStep
    <2>2. CASE n # 0
      <3>1. nx[n] \in 0 .. n - 1 /\ f[n] = {n} \cup f[nx[n]]
        BY <2>2, BelowStep
      <3>2. f[nx[n]] \subseteq 1 .. nx[n]
        BY <1>1, <3>1
      <3> QED BY <3>1, <3>2
    <2> QED BY <2>1, <2>2
  <1>2. 0 .. N \subseteq S
    <2> HIDE DEF S
    <2> QED BY <1>1, StrongInduction
  <1> QED BY <1>2

\* Whatever holds of a node and of the successor of each of them holds of all below it.
LEMMA BelowClosed ==
  ASSUME NEW N \in Nat, NEW nx, Down(nx, N), NEW f, IsBelow(f, nx, N), NEW C,
         \A n \in 1 .. N : n \in C /\ nx[n] # 0 => nx[n] \in C, NEW h \in 0 .. N, h = 0 \/ h \in C
  PROVE  f[h] \subseteq C /\ \A n \in f[h] : nx[n] # 0 => nx[n] \in f[h]
  <1> DEFINE S == {n \in 0 .. N : /\ n = 0 \/ n \in C => f[n] \subseteq C
                                  /\ \A m \in f[n] : nx[m] # 0 => nx[m] \in f[n]}
  <1>1. ASSUME NEW n \in 0 .. N, \A m \in 0 .. n - 1 : m \in S
        PROVE  n \in S
    <2>1. CASE n = 0
      BY <2>1, BelowStep
    <2>2. CASE n # 0
      <3>1. nx[n] \in 0 .. n - 1 /\ f[n] = {n} \cup f[nx[n]] /\ n \in 1 .. N
        BY <2>2, BelowStep
      <3>2. nx[n] \in S
        BY <1>1, <3>1
      <3>3. nx[n] # 0 => nx[n] \in f[nx[n]]
        <4>1. nx[n] \in 0 .. N
          BY <3>1
        <4> QED BY <4>1, BelowStep
      <3> QED BY <3>1, <3>2, <3>3
    <2> QED BY <2>1, <2>2
  <1>2. 0 .. N \subseteq S
    <2> HIDE DEF S
    <2> QED BY <1>1, StrongInduction
  <1> QED BY <1>2

\* The same pointers make the same chains.
LEMMA BelowUnique ==
  ASSUME NEW N \in Nat, NEW nx, Down(nx, N), NEW f, IsBelow(f, nx, N),
         NEW g, NEW ny, IsBelow(g, ny, N), \A n \in 1 .. N : ny[n] = nx[n]
  PROVE  \A n \in 0 .. N : g[n] = f[n]
  <1> DEFINE S == {n \in 0 .. N : g[n] = f[n]}
  <1>1. ASSUME NEW n \in 0 .. N, \A m \in 0 .. n - 1 : m \in S
        PROVE  n \in S
    <2>1. CASE n = 0
      <3>1. f[n] = IF n = 0 THEN {} ELSE {n} \cup f[nx[n]]
        BY DEF IsBelow
      <3>2. g[n] = IF n = 0 THEN {} ELSE {n} \cup g[ny[n]]
        BY DEF IsBelow
      <3> QED BY <2>1, <3>1, <3>2
    <2>2. CASE n # 0
      <3>1. n \in 1 .. N /\ nx[n] \in 0 .. n - 1 /\ f[n] = {n} \cup f[nx[n]]
        BY <2>2, BelowStep
      <3>2. g[n] = {n} \cup g[nx[n]]
        <4>1. g[n] = IF n = 0 THEN {} ELSE {n} \cup g[ny[n]]
          BY DEF IsBelow
        <4> QED BY <3>1, <4>1
      <3> QED BY <1>1, <3>1, <3>2
    <2> QED BY <2>1, <2>2
  <1>2. 0 .. N \subseteq S
    <2> HIDE DEF S
    <2> QED BY <1>1, StrongInduction
  <1> QED BY <1>2

LoseSuccessor(g, f, nx, p, N) ==
  \A n \in 0 .. N : g[n] = IF p \in f[n] THEN f[n] \ {nx[p]} ELSE f[n]

SkipsSuccessor(ny, nx, p, N) ==
  /\ nx[p] # 0 /\ ny[p] = nx[nx[p]]
  /\ \A n \in 1 .. N : n # p => ny[n] = nx[n]

\* The successor of p is taken out: chains through p lose it, and no others do.
LEMMA BelowRemove ==
  ASSUME NEW N \in Nat, NEW nx, Down(nx, N), NEW f, IsBelow(f, nx, N),
         NEW ny, NEW p \in 1 .. N, SkipsSuccessor(ny, nx, p, N), NEW g, IsBelow(g, ny, N)
  PROVE  LoseSuccessor(g, f, nx, p, N)
  <1> DEFINE q == nx[p]
             S == {n \in 0 .. N : g[n] = IF p \in f[n] THEN f[n] \ {q} ELSE f[n]}
  <1>0. /\ nx[p] # 0 /\ ny[p] = nx[nx[p]]
        /\ \A n \in 1 .. N : n # p => ny[n] = nx[n]
    BY DEF SkipsSuccessor
  <1>1. q \in 1 .. p - 1 /\ nx[q] \in 0 .. q - 1 /\ q \in 1 .. N
    BY <1>0 DEF Down
  <1>a. \A n \in 0 .. N : g[n] = IF n = 0 THEN {} ELSE {n} \cup g[ny[n]]
    BY DEF IsBelow
  <1>2. \A n \in 0 .. N : f[n] \subseteq 1 .. n
    BY BelowBounds
  <1>3. ASSUME NEW n \in 0 .. N, \A m \in 0 .. n - 1 : m \in S
        PROVE  n \in S
    <2>1. CASE n = 0
      <3>1. f[n] = {}
        BY <2>1, BelowStep
      <3>2. g[n] = {}
        BY <1>a, <2>1
      <3> QED BY <3>1, <3>2
    <2>2. CASE n = p
      <3>0. f[p] = {p} \cup f[q]
        BY BelowStep
      <3>a. f[q] = {q} \cup f[nx[q]]
        BY <1>1, BelowStep
      <3>b. g[p] = {p} \cup g[nx[q]]
        <4>1. p \in 0 .. N /\ p # 0
          OBVIOUS
        <4>2. g[p] = IF p = 0 THEN {} ELSE {p} \cup g[ny[p]]
          BY <1>a, <4>1
        <4> QED BY <1>0, <4>1, <4>2
      <3>1. f[p] = {p} \cup f[q] /\ f[q] = {q} \cup f[nx[q]] /\ g[p] = {p} \cup g[nx[q]]
        BY <3>0, <3>a, <3>b
      <3>2. f[nx[q]] \subseteq 1 .. nx[q]
        BY <1>1, <1>2
      <3>3. q \notin f[nx[q]] /\ p \notin f[nx[q]] /\ p # q
        BY <1>1, <3>2
      <3>4. g[nx[q]] = f[nx[q]]
        <4>1. nx[q] \in 0 .. n - 1
          BY <1>1, <2>2
        <4>2. nx[q] \in S
          BY <1>3, <4>1
        <4> QED BY <3>3, <4>2
      <3> QED BY <2>2, <3>1, <3>3, <3>4
    <2>3. CASE n # 0 /\ n # p
      <3>0. n \in 1 .. N /\ nx[n] \in 0 .. n - 1 /\ f[n] = {n} \cup f[nx[n]]
        BY <2>3, BelowStep
      <3>1. ny[n] = nx[n] /\ g[n] = {n} \cup g[nx[n]]
        BY <1>0, <1>a, <2>3, <3>0
      <3>2. nx[n] \in S
        BY <1>3, <3>0
      <3>3. p \in f[n] <=> p \in f[nx[n]]
        BY <2>3, <3>0
      <3>4. p \in f[nx[n]] => n # q
        <4>1. f[nx[n]] \subseteq 1 .. nx[n]
          BY <1>2, <3>0
        <4> QED BY <1>1, <3>0, <4>1
      <3> QED BY <3>0, <3>1, <3>2, <3>3, <3>4
    <2> QED BY <2>1, <2>2, <2>3
  <1>4. 0 .. N \subseteq S
    <2> HIDE DEF S
    <2> QED BY <1>3, StrongInduction
  <1> QED BY <1>4 DEF LoseSuccessor

--------------------------------------------------------------------------------
(* The chains of the store *)

PointersOK == \A n \in 1 .. Len(nodes) : nodes[n].next \in NodeIds

Pointer == [n \in 1 .. Len(nodes) |-> nodes[n].next]

BelowOK == IsBelow(Below, Pointer, Len(nodes))

\* The recursion along the pointers has a solution: the nodes that are in every closed
\* set of nodes.
LEMMA BelowExists ==
  ASSUME PointersOK, Len(nodes) \in Nat
  PROVE  BelowOK
  <1> DEFINE step(f) == [n \in NodeIds |-> IF n = 0 THEN {} ELSE {n} \cup f[nodes[n].next]]
             Closed(C) == \A x \in C : x # 0 => nodes[x].next \in C
             R == [n \in NodeIds |-> {m \in NodeIds \ {0} :
                     \A C \in SUBSET NodeIds : n \in C /\ Closed(C) => m \in C}]
  <1>1. ASSUME NEW n \in NodeIds
        PROVE  R[n] = step(R)[n]
    <2>1. CASE n = 0
      <3>1. {0} \in SUBSET NodeIds /\ Closed({0})
        BY DEF NodeIds
      <3> QED BY <2>1, <3>1
    <2>2. CASE n # 0
      <3>1. nodes[n].next \in NodeIds
        BY <2>2 DEF PointersOK, NodeIds
      <3>2. ASSUME NEW m \in R[n], m # n
            PROVE  m \in R[nodes[n].next]
        <4> SUFFICES ASSUME NEW C \in SUBSET NodeIds, nodes[n].next \in C, Closed(C)
                     PROVE  m \in C
          BY <3>1
        <4>1. C \cup {n} \in SUBSET NodeIds /\ Closed(C \cup {n})
          OBVIOUS
        <4> QED BY <3>2, <4>1
      <3>3. ASSUME NEW m \in R[nodes[n].next]
            PROVE  m \in R[n]
        BY <2>2, <3>1
      <3>4. n \in R[n]
        BY <2>2
      <3> QED BY <2>2, <3>1, <3>2, <3>3, <3>4
    <2> QED BY <2>1, <2>2
  <1>2. R = step(R)
    <2>1. R = [n \in NodeIds |-> R[n]] /\ step(R) = [n \in NodeIds |-> step(R)[n]]
      OBVIOUS
    <2> HIDE DEF R, step
    <2> QED BY <1>1, <2>1
  <1>3. Below = CHOOSE f : f = step(f)
    BY DEF Below
  <1>4. Below = step(Below)
    <2> HIDE DEF R, step
    <2> QED BY <1>2, <1>3
  <1>5. ASSUME NEW n \in 0 .. Len(nodes)
        PROVE  Below[n] = IF n = 0 THEN {} ELSE {n} \cup Below[Pointer[n]]
    <2>1. n \in NodeIds
      BY DEF NodeIds
    <2>2. step(Below)[n] = IF n = 0 THEN {} ELSE {n} \cup Below[nodes[n].next]
      BY <2>1
    <2>3. Below[n] = step(Below)[n]
      <3> HIDE DEF R, step
      <3> QED BY <1>4
    <2>4. n # 0 => Pointer[n] = nodes[n].next
      BY DEF Pointer
    <2> QED BY <2>2, <2>3, <2>4
  <1> QED BY <1>5 DEF BelowOK, IsBelow

--------------------------------------------------------------------------------
(* Types and links of the store *)

NodeRec == [key: Keys, tx: Txs, inc: Nat, status: Statuses, next: NodeIds]

StoreType ==
  /\ nodes \in Seq(NodeRec)
  /\ heads \in Seq(NodeIds)
  /\ entries \in [Keys -> ChainIds]
  /\ totalKeys \in Nat /\ totalVersions \in Nat
  /\ pool = {}

Shape == StoreType /\ LinksInv

LEMMA SeqIsFunction ==
  ASSUME NEW S, NEW n \in Nat, NEW s \in [1 .. n -> S]
  PROVE  s \in Seq(S) /\ Len(s) = n
  <1>1. s \in Seq(S)
    BY SeqDef
  <1>2. Len(s) \in Nat /\ DOMAIN s = 1 .. Len(s)
    BY <1>1, LenProperties
  <1> QED BY <1>1, <1>2

\* What the type of the store says of its nodes and chains.
LEMMA StoreTypeFacts ==
  ASSUME StoreType
  PROVE  /\ Len(nodes) \in Nat /\ Len(heads) \in Nat
         /\ NodeIds = 0 .. Len(nodes) /\ ChainIds = 0 .. Len(heads)
         /\ nodes \in [1 .. Len(nodes) -> NodeRec]
         /\ heads \in [1 .. Len(heads) -> NodeIds]
         /\ \A n \in 1 .. Len(nodes) :
              /\ nodes[n].key \in Keys /\ nodes[n].tx \in Txs /\ nodes[n].inc \in Nat
              /\ nodes[n].status \in Statuses /\ nodes[n].next \in NodeIds
  <1>1. nodes \in Seq(NodeRec) /\ heads \in Seq(NodeIds)
    BY DEF StoreType
  <1>2. Len(nodes) \in Nat /\ Len(heads) \in Nat
    BY <1>1
  <1>3. nodes \in [1 .. Len(nodes) -> NodeRec] /\ heads \in [1 .. Len(heads) -> NodeIds]
    BY <1>1, LenProperties
  <1>4. ASSUME NEW n \in 1 .. Len(nodes)
        PROVE  nodes[n] \in NodeRec
    BY <1>3
  <1> QED BY <1>2, <1>3, <1>4 DEF NodeRec, NodeIds, ChainIds

\* The nodes below each other, in a store whose pointers lead down.
BelowFacts ==
  /\ Len(nodes) \in Nat /\ Len(heads) \in Nat
  /\ Down(Pointer, Len(nodes))
  /\ BelowOK

LEMMA ShapeMakesChains == Shape => BelowFacts
  <1> SUFFICES ASSUME Shape
               PROVE  BelowFacts
    OBVIOUS
  <1>1. StoreType /\ LinksInv
    BY DEF Shape
  <1>2. \A n \in 1 .. Len(nodes) : nodes[n].next \in NodeIds /\ nodes[n].next < n
    BY <1>1, StoreTypeFacts DEF LinksInv
  <1>3. Len(nodes) \in Nat /\ Len(heads) \in Nat
    BY <1>1, StoreTypeFacts
  <1>4. PointersOK
    BY <1>2 DEF PointersOK
  <1>5. Down(Pointer, Len(nodes))
    <2>1. ASSUME NEW n \in 1 .. Len(nodes)
          PROVE  Pointer[n] = nodes[n].next /\ nodes[n].next \in 0 .. n - 1
      BY <1>2, <1>3 DEF Pointer, NodeIds
    <2> QED BY <2>1 DEF Down
  <1> QED BY <1>3, <1>4, <1>5, BelowExists DEF BelowFacts

\* The versions of key k are nodes of that key, closed under the pointers, the most
\* recent one first.
LinkedOf(k) ==
  /\ Linked(k) \subseteq 1 .. Len(nodes)
  /\ \A n \in Linked(k) :
       /\ nodes[n].key = k
       /\ nodes[n].next # 0 => nodes[n].next \in Linked(k)
  /\ entries[k] = 0 => Linked(k) = {}
  /\ entries[k] # 0 /\ heads[entries[k]] = 0 => Linked(k) = {}
  /\ entries[k] # 0 /\ heads[entries[k]] # 0 =>
       /\ heads[entries[k]] \in Linked(k)
       /\ \A n \in Linked(k) : n <= heads[entries[k]]

LinkedFacts == \A k \in Keys : LinkedOf(k)

LEMMA ShapeMakesLinked == Shape => LinkedFacts
  <1> SUFFICES ASSUME Shape, NEW k \in Keys
               PROVE  LinkedOf(k)
    BY DEF LinkedFacts
  <1>1. StoreType /\ LinksInv /\ BelowFacts
    BY ShapeMakesChains DEF Shape
  <1>2. entries[k] = 0 => Linked(k) = {}
    BY DEF Linked
  <1>3. CASE entries[k] = 0
    BY <1>2, <1>3 DEF LinkedOf
  <1>4. CASE entries[k] # 0
    <2>1. entries[k] \in 1 .. Len(heads)
      BY <1>1, <1>4, StoreTypeFacts DEF StoreType
    <2>2. PICK h : h = heads[entries[k]]
      OBVIOUS
    <2>3. h \in 0 .. Len(nodes)
      BY <1>1, <2>1, <2>2, StoreTypeFacts
    <2>4. PICK f : f = Below
      OBVIOUS
    <2>5. PICK nx : nx = Pointer
      OBVIOUS
    <2>6. PICK N \in Nat : N = Len(nodes)
      BY <1>1 DEF BelowFacts
    <2>7. Down(nx, N) /\ IsBelow(f, nx, N)
      BY <1>1, <2>4, <2>5, <2>6 DEF BelowFacts, BelowOK
    <2>8. Linked(k) = f[h]
      BY <1>4, <2>2, <2>4 DEF Linked
    <2>9. f[h] \subseteq 1 .. h
      BY <2>3, <2>6, <2>7, BelowBounds
    <2>10. h # 0 => h \in f[h]
      BY <2>3, <2>6, <2>7, BelowStep
    <2>11. h = 0 => f[h] = {}
      BY <2>3, <2>6, <2>7, BelowStep
    <2>12. f[h] \subseteq {n \in 1 .. N : nodes[n].key = k}
             /\ \A n \in f[h] : nx[n] # 0 => nx[n] \in f[h]
      <3>1. PICK C : C = {n \in 1 .. N : nodes[n].key = k}
        OBVIOUS
      <3>2. \A n \in 1 .. N : nx[n] = nodes[n].next /\ nodes[n].next \in 0 .. N
        BY <1>1, <2>5, <2>6, StoreTypeFacts DEF Pointer
      <3>3. \A n \in 1 .. N : n \in C /\ nx[n] # 0 => nx[n] \in C
        BY <1>1, <2>6, <3>1, <3>2 DEF LinksInv
      <3>4. h = 0 \/ h \in C
        BY <1>1, <1>4, <2>2, <2>3, <2>6, <3>1 DEF LinksInv
      <3>5. h \in 0 .. N
        BY <2>3, <2>6
      <3>6. f[h] \subseteq C /\ \A n \in f[h] : nx[n] # 0 => nx[n] \in f[h]
        BY <2>7, <3>3, <3>4, <3>5, BelowClosed
      <3> QED BY <3>1, <3>6
    <2>13. Linked(k) \subseteq 1 .. Len(nodes)
      BY <2>6, <2>8, <2>12
    <2>14. ASSUME NEW n \in Linked(k)
           PROVE  nodes[n].key = k /\ (nodes[n].next # 0 => nodes[n].next \in Linked(k))
      <3>1. nx[n] = nodes[n].next
        BY <2>5, <2>13 DEF Pointer
      <3> QED BY <2>8, <2>12, <3>1
    <2>15. \A n \in Linked(k) : n <= h
      BY <2>3, <2>8, <2>9
    <2> QED BY <1>4, <2>2, <2>8, <2>10, <2>11, <2>13, <2>14, <2>15 DEF LinkedOf
  <1> QED BY <1>3, <1>4

\* A node and the nodes below it.
StepFacts ==
  /\ Below[0] = {}
  /\ \A n \in 1 .. Len(nodes) :
       /\ nodes[n].next \in 0 .. n - 1
       /\ Below[n] = {n} \cup Below[nodes[n].next]
       /\ n \notin Below[nodes[n].next]

LEMMA ShapeMakesSteps == Shape => StepFacts
  <1> SUFFICES ASSUME Shape
               PROVE  StepFacts
    OBVIOUS
  <1>1. BelowFacts
    BY ShapeMakesChains
  <1>2. PICK f : f = Below
    OBVIOUS
  <1>3. PICK nx : nx = Pointer
    OBVIOUS
  <1>4. PICK N \in Nat : N = Len(nodes)
    BY <1>1 DEF BelowFacts
  <1>5. Down(nx, N) /\ IsBelow(f, nx, N)
    BY <1>1, <1>2, <1>3, <1>4 DEF BelowFacts, BelowOK
  <1>6. f[0] = {}
    BY <1>5, BelowStep
  <1>7. ASSUME NEW n \in 1 .. N
        PROVE  /\ nodes[n].next \in 0 .. n - 1
               /\ f[n] = {n} \cup f[nodes[n].next]
               /\ n \notin f[nodes[n].next]
    <2>1. nx[n] = nodes[n].next
      BY <1>3, <1>4 DEF Pointer
    <2>2. nx[n] \in 0 .. n - 1 /\ f[n] = {n} \cup f[nx[n]]
      BY <1>5, BelowStep
    <2>3. f[nx[n]] \subseteq 1 .. nx[n]
      BY <1>5, <2>2, BelowBounds
    <2> QED BY <2>1, <2>2, <2>3
  <1> QED BY <1>2, <1>4, <1>6, <1>7 DEF StepFacts

\* Pointers that stay lead to the same nodes.
LEMMA PointersKept ==
  ASSUME Shape, Shape', Len(nodes) <= Len(nodes'),
         \A n \in 1 .. Len(nodes) : nodes'[n].next = nodes[n].next
  PROVE  \A n \in NodeIds : Below'[n] = Below[n]
  <1>1. BelowFacts /\ BelowFacts'
    BY ShapeMakesChains, PTL
  <1>2. PICK N \in Nat : N = Len(nodes)
    BY <1>1 DEF BelowFacts
  <1>3. PICK f : f = Below
    OBVIOUS
  <1>4. PICK g : g = Below'
    OBVIOUS
  <1>5. PICK nx : nx = Pointer
    OBVIOUS
  <1>6. PICK ny : ny = Pointer'
    OBVIOUS
  <1>7. Down(nx, N) /\ IsBelow(f, nx, N)
    BY <1>1, <1>2, <1>3, <1>5 DEF BelowFacts, BelowOK
  <1>8. PICK M \in Nat : M = Len(nodes')
    BY <1>1 DEF BelowFacts
  <1>9. IsBelow(g, ny, M)
    BY <1>1, <1>4, <1>6, <1>8 DEF BelowFacts, BelowOK
  <1>10. IsBelow(g, ny, N)
    <2> SUFFICES ASSUME NEW n \in 0 .. N
                 PROVE  g[n] = IF n = 0 THEN {} ELSE {n} \cup g[ny[n]]
      BY DEF IsBelow
    <2>1. N <= M
      BY <1>2, <1>8
    <2>2. n \in 0 .. M
      BY <2>1
    <2> QED BY <1>9, <2>2 DEF IsBelow
  <1>11. \A n \in 1 .. N : ny[n] = nx[n]
    <2> SUFFICES ASSUME NEW n \in 1 .. N
                 PROVE  ny[n] = nx[n]
      OBVIOUS
    <2>1. nx[n] = nodes[n].next
      BY <1>2, <1>5 DEF Pointer
    <2>2. ny[n] = nodes'[n].next
      BY <1>2, <1>6, <1>8 DEF Pointer
    <2> QED BY <1>2, <2>1, <2>2
  <1>12. \A n \in 0 .. N : g[n] = f[n]
    BY <1>7, <1>10, <1>11, BelowUnique
  <1> QED BY <1>2, <1>3, <1>4, <1>12 DEF NodeIds

--------------------------------------------------------------------------------
(* What the operations do to the store *)

\* Write puts a new node in front of the others.
Wrote(t, k) ==
  /\ Len(nodes') = Len(nodes) + 1
  /\ \A n \in 1 .. Len(nodes) : nodes'[n] = nodes[n]
  /\ nodes'[Len(nodes) + 1] =
       [key |-> k, tx |-> t, inc |-> tx[t].inc, status |-> "estimate",
        next |-> IF entries[k] = 0 THEN 0 ELSE heads[entries[k]]]
  /\ Len(heads') \in Nat /\ Len(heads) <= Len(heads')
  /\ \A l \in Keys \ {k} : entries'[l] = entries[l]
  /\ entries[k] # 0 => entries'[k] = entries[k]
  /\ entries[k] = 0 => entries'[k] = Len(heads) + 1
  /\ \A c \in 1 .. Len(heads) : c # entries[k] => heads'[c] = heads[c]
  /\ entries'[k] \in 1 .. Len(heads')
  /\ heads'[entries'[k]] = Len(nodes) + 1

LEMMA WriteEffect ==
  ASSUME StoreType, NEW t \in Txs, NEW k \in Keys, tx[t].inc \in Nat, Write(t, k)
  PROVE  Wrote(t, k) /\ StoreType'
  <1> DEFINE N == Len(nodes)
             n == N + 1
             chain == IF entries[k] = 0 THEN Len(heads) + 1 ELSE entries[k]
             next == IF entries[k] = 0 THEN 0 ELSE heads[chain]
             node == [key |-> k, tx |-> t, inc |-> tx[t].inc, status |-> "estimate",
                      next |-> next]
  <1>1. /\ N \in Nat /\ Len(heads) \in Nat
        /\ nodes \in [1 .. N -> NodeRec] /\ heads \in [1 .. Len(heads) -> NodeIds]
        /\ entries \in [Keys -> ChainIds]
        /\ NodeIds = 0 .. N /\ ChainIds = 0 .. Len(heads)
    BY StoreTypeFacts DEF StoreType
  <1>2. /\ nodes' = [m \in 1 .. N + 1 |-> IF m = n THEN node ELSE nodes[m]]
        /\ heads' = IF entries[k] = 0 THEN Append(heads, n) ELSE [heads EXCEPT ![chain] = n]
        /\ entries' = [entries EXCEPT ![k] = chain]
        /\ pool' = {}
    <2>1. NewNodes = {n} /\ pool = {}
      BY DEF NewNodes, StoreType
    <2>2. /\ SetNode(n, node)
          /\ heads' = IF entries[k] = 0 THEN Append(heads, n) ELSE [heads EXCEPT ![chain] = n]
          /\ entries' = [entries EXCEPT ![k] = chain]
          /\ pool' = pool \ {n}
      BY <2>1 DEF Write
    <2>3. n > Len(nodes)
      BY <1>1
    <2> QED BY <2>1, <2>2, <2>3 DEF SetNode
  <1> HIDE DEF node
  <1>3. Len(nodes') = N + 1
    <2>1. PICK S : S = {nodes'[m] : m \in 1 .. N + 1}
      OBVIOUS
    <2>2. nodes' \in [1 .. N + 1 -> S]
      BY <1>2, <2>1
    <2> QED BY <1>1, <2>2, SeqIsFunction
  <1>4. /\ \A m \in 1 .. N : nodes'[m] = nodes[m]
        /\ nodes'[n] = node
    BY <1>1, <1>2
  <1>5. /\ chain \in Nat \ {0} /\ next \in NodeIds
        /\ entries[k] # 0 => chain \in 1 .. Len(heads)
    BY <1>1
  <1>6. /\ heads' \in Seq(0 .. N + 1) /\ Len(heads') \in Nat /\ Len(heads) <= Len(heads')
        /\ chain \in 1 .. Len(heads') /\ heads'[chain] = n
        /\ \A c \in 1 .. Len(heads) : c # chain => heads'[c] = heads[c]
    <2>0. heads \in Seq(0 .. N + 1) /\ n \in 0 .. N + 1
      <3>1. PICK S : S = 0 .. N + 1
        OBVIOUS
      <3>2. heads \in [1 .. Len(heads) -> S]
        BY <1>1, <3>1
      <3>3. heads \in Seq(S)
        BY <1>1, <3>2, SeqIsFunction
      <3> QED BY <1>1, <3>1, <3>3
    <2>1. CASE entries[k] = 0
      <3>1. heads' = Append(heads, n) /\ chain = Len(heads) + 1
        BY <1>2, <2>1
      <3> QED BY <1>1, <2>0, <3>1
    <2>2. CASE entries[k] # 0
      <3>1. heads' = [heads EXCEPT ![chain] = n] /\ chain \in 1 .. Len(heads)
        BY <1>2, <1>5, <2>2
      <3> QED BY <1>1, <2>0, <3>1
    <2> QED BY <2>1, <2>2
  <1>7. entries'[k] = chain /\ \A l \in Keys \ {k} : entries'[l] = entries[l]
    BY <1>1, <1>2
  <1>8. Wrote(t, k)
    BY <1>1, <1>3, <1>4, <1>5, <1>6, <1>7 DEF Wrote, node
  <1>9. NodeIds' = 0 .. N + 1 /\ ChainIds' = 0 .. Len(heads')
    BY <1>3 DEF NodeIds, ChainIds
  <1>10. nodes' \in Seq(NodeRec)'
    <2>1. PICK S : S = NodeRec'
      OBVIOUS
    <2>2. node \in S
      BY <1>1, <1>5, <1>9, <2>1 DEF node, NodeRec, Statuses
    <2>3. \A m \in 1 .. N : nodes[m] \in S
      <3>1. NodeRec \subseteq S
        BY <1>1, <1>9, <2>1 DEF NodeRec
      <3> QED BY <1>1, <3>1
    <2>4. nodes' \in [1 .. N + 1 -> S]
      BY <1>1, <1>2, <2>2, <2>3
    <2>5. nodes' \in Seq(S)
      BY SMTT(30), <1>1, <2>4, SeqIsFunction
    <2> QED BY <2>1, <2>5
  <1>11. entries' \in [Keys -> ChainIds']
    <2>1. chain \in ChainIds'
      BY <1>6, <1>9
    <2>2. ChainIds \subseteq ChainIds'
      BY <1>1, <1>6, <1>9
    <2> QED BY <1>1, <1>2, <2>1, <2>2
  <1>12. totalKeys' \in Nat /\ totalVersions' \in Nat
    BY DEF Write, StoreType
  <1> QED BY <1>2, <1>6, <1>8, <1>9, <1>10, <1>11, <1>12 DEF StoreType

LEMMA WriteLinks ==
  ASSUME Shape, StoreType', NEW t \in Txs, NEW k \in Keys, Wrote(t, k)
  PROVE  /\ LinksInv'
         /\ \A l \in Keys : Linked(l)' = IF l = k THEN Linked(l) \cup {Len(nodes) + 1} ELSE Linked(l)
  <1> DEFINE N == Len(nodes)
  <1>1. StoreType /\ LinksInv
    BY DEF Shape
  <1>2. /\ N \in Nat /\ Len(heads) \in Nat
        /\ entries \in [Keys -> ChainIds]
        /\ heads \in [1 .. Len(heads) -> NodeIds]
        /\ NodeIds = 0 .. N /\ ChainIds = 0 .. Len(heads)
        /\ \A n \in 1 .. N : nodes[n].next \in NodeIds
    BY <1>1, StoreTypeFacts DEF StoreType
  <1>3. /\ Len(nodes') = N + 1
        /\ \A n \in 1 .. N : nodes'[n] = nodes[n]
        /\ nodes'[N + 1].key = k
        /\ nodes'[N + 1].next = IF entries[k] = 0 THEN 0 ELSE heads[entries[k]]
    BY DEF Wrote
  <1>4. \A n \in 1 .. Len(nodes') :
          /\ nodes'[n].next < n
          /\ nodes'[n].next # 0 => nodes'[nodes'[n].next].key = nodes'[n].key
    <2> SUFFICES ASSUME NEW n \in 1 .. N + 1
                 PROVE  /\ nodes'[n].next < n
                        /\ nodes'[n].next # 0 => nodes'[nodes'[n].next].key = nodes'[n].key
      BY <1>3
    <2>1. CASE n \in 1 .. N
      <3>1. nodes[n].next < n /\ (nodes[n].next # 0 => nodes[nodes[n].next].key = nodes[n].key)
        BY <1>1, <2>1 DEF LinksInv
      <3>2. nodes[n].next # 0 => nodes[n].next \in 1 .. N
        BY <1>2, <2>1
      <3> QED BY <1>3, <2>1, <3>1, <3>2
    <2>2. CASE n = N + 1 /\ entries[k] = 0
      BY <1>2, <1>3, <2>2
    <2>3. CASE n = N + 1 /\ entries[k] # 0
      <3>1. entries[k] \in 1 .. Len(heads)
        BY <1>2, <2>3
      <3>2. heads[entries[k]] \in 0 .. N
        BY <1>2, <3>1
      <3>3. heads[entries[k]] # 0 => nodes[heads[entries[k]]].key = k
        BY <1>1, <2>3 DEF LinksInv
      <3> QED BY <1>2, <1>3, <2>3, <3>2, <3>3
    <2> QED BY <1>2, <2>1, <2>2, <2>3
  <1>5. ASSUME NEW l \in Keys, l # k
        PROVE  /\ entries'[l] = entries[l]
               /\ entries[l] # 0 => /\ entries[l] \in 1 .. Len(heads)
                                    /\ entries[l] # entries'[k]
                                    /\ heads'[entries[l]] = heads[entries[l]]
    <2>1. entries'[l] = entries[l]
      BY <1>5 DEF Wrote
    <2>2. ASSUME entries[l] # 0
          PROVE  /\ entries[l] \in 1 .. Len(heads) /\ entries[l] # entries[k]
      BY <1>1, <1>2, <1>5, <2>2 DEF LinksInv
    <2>3. ASSUME entries[l] # 0
          PROVE  entries[l] # entries'[k] /\ heads'[entries[l]] = heads[entries[l]]
      BY <1>2, <2>2, <2>3 DEF Wrote
    <2> QED BY <2>1, <2>2, <2>3
  <1>6. entries'[k] # 0 /\ heads'[entries'[k]] = N + 1
    BY DEF Wrote
  <1>7. \A l \in Keys : entries'[l] # 0 =>
          /\ heads'[entries'[l]] # 0 => nodes'[heads'[entries'[l]]].key = l
          /\ \A m \in Keys : entries'[m] = entries'[l] => m = l
    <2> SUFFICES ASSUME NEW l \in Keys, entries'[l] # 0
                 PROVE  /\ heads'[entries'[l]] # 0 => nodes'[heads'[entries'[l]]].key = l
                        /\ \A m \in Keys : entries'[m] = entries'[l] => m = l
      OBVIOUS
    <2>1. CASE l = k
      <3>1. \A m \in Keys : m # k => entries'[m] # entries'[k]
        BY <1>5, <1>6
      <3> QED BY <1>3, <1>6, <2>1, <3>1
    <2>2. CASE l # k
      <3>1. entries[l] # 0 /\ heads'[entries'[l]] = heads[entries[l]] /\ entries'[l] = entries[l]
              /\ entries'[l] # entries'[k] /\ entries[l] \in 1 .. Len(heads)
        BY <1>5, <2>2
      <3>2. \A m \in Keys : m # k /\ entries'[m] = entries'[l] => m = l
        <4>1. \A m \in Keys : m # k => entries'[m] = entries[m]
          BY <1>5
        <4>2. \A m \in Keys : entries[m] = entries[l] => m = l
          BY <1>1, <3>1 DEF LinksInv
        <4> QED BY <3>1, <4>1, <4>2
      <3>3. heads[entries[l]] \in 0 .. N
        BY <1>2, <3>1
      <3>4. heads[entries[l]] # 0 => nodes[heads[entries[l]]].key = l
        BY <1>1, <3>1 DEF LinksInv
      <3> QED BY <1>2, <1>3, <3>1, <3>2, <3>3, <3>4
    <2> QED BY <2>1, <2>2
  <1>8. LinksInv'
    BY <1>4, <1>7 DEF LinksInv
  <1>9. Shape'
    BY <1>8 DEF Shape
  <1>10. \A n \in NodeIds : Below'[n] = Below[n]
    BY <1>2, <1>3, <1>9, PointersKept
  <1>11. ASSUME NEW l \in Keys, l # k
         PROVE  Linked(l)' = Linked(l)
    <2>1. CASE entries[l] = 0
      BY <1>5, <1>11, <2>1 DEF Linked
    <2>2. CASE entries[l] # 0
      <3>1. /\ entries'[l] = entries[l] /\ heads'[entries[l]] = heads[entries[l]]
            /\ entries[l] \in 1 .. Len(heads)
        BY <1>5, <1>11, <2>2
      <3>2. heads[entries[l]] \in NodeIds
        BY <1>2, <3>1
      <3>3. Linked(l)' = Below'[heads[entries[l]]]
        BY <2>2, <3>1 DEF Linked
      <3> QED BY <1>10, <2>2, <3>2, <3>3 DEF Linked
    <2> QED BY <2>1, <2>2
  <1>12. Linked(k)' = Linked(k) \cup {N + 1}
    <2>1. Linked(k)' = Below'[N + 1]
      BY <1>6 DEF Linked
    <2>2. PICK g : g = Below'
      OBVIOUS
    <2>3. g[N + 1] = {N + 1} \cup g[nodes'[N + 1].next]
      <3>1. StepFacts'
        BY <1>9, ShapeMakesSteps, PTL
      <3> QED BY <1>2, <1>3, <2>2, <3>1 DEF StepFacts
    <2>4. g[nodes'[N + 1].next] = Below[nodes'[N + 1].next]
      <3>1. nodes'[N + 1].next \in NodeIds
        BY <1>2, <1>3
      <3> QED BY <1>10, <2>2, <3>1
    <2>5. Below[nodes'[N + 1].next] = Linked(k)
      <3>1. CASE entries[k] # 0
        BY <1>3, <3>1 DEF Linked
      <3>2. CASE entries[k] = 0
        <4>1. Below[0] = {}
          BY ShapeMakesSteps DEF StepFacts
        <4> QED BY <1>3, <3>2, <4>1 DEF Linked
      <3> QED BY <3>1, <3>2
    <2> QED BY <2>1, <2>2, <2>3, <2>4, <2>5
  <1> QED BY <1>8, <1>11, <1>12

\* Commit marks a node, and nothing else changes.
NodesKept(n) ==
  /\ nodes'[n].key = nodes[n].key /\ nodes'[n].tx = nodes[n].tx
  /\ nodes'[n].inc = nodes[n].inc

LEMMA MarkEffect ==
  ASSUME Shape, NEW n \in 1 .. Len(nodes),
         nodes' = [nodes EXCEPT ![n].status = "committed"],
         UNCHANGED <<heads, entries, totalKeys, totalVersions, pool>>
  PROVE  /\ Shape' /\ Len(nodes') = Len(nodes)
         /\ \A m \in 1 .. Len(nodes) : NodesKept(m) /\ nodes'[m].next = nodes[m].next
         /\ nodes'[n].status = "committed"
         /\ \A m \in 1 .. Len(nodes) : m # n => nodes'[m] = nodes[m]
         /\ \A k \in Keys : Linked(k)' = Linked(k)
  <1>1. StoreType /\ LinksInv
    BY DEF Shape
  <1>2. /\ Len(nodes) \in Nat /\ Len(heads) \in Nat
        /\ nodes \in [1 .. Len(nodes) -> NodeRec] /\ heads \in [1 .. Len(heads) -> NodeIds]
        /\ entries \in [Keys -> ChainIds]
        /\ NodeIds = 0 .. Len(nodes) /\ ChainIds = 0 .. Len(heads)
        /\ \A m \in 1 .. Len(nodes) : nodes[m].next \in NodeIds
    BY <1>1, StoreTypeFacts DEF StoreType
  <1>3. \A m \in 1 .. Len(nodes) : m # n => nodes'[m] = nodes[m]
    BY <1>2
  <1>4. /\ nodes[n] \in NodeRec
        /\ nodes'[n] = [nodes[n] EXCEPT !.status = "committed"]
    BY <1>2
  <1>5. NodesKept(n) /\ nodes'[n].next = nodes[n].next /\ nodes'[n].status = "committed"
    BY <1>4 DEF NodesKept, NodeRec
  <1>6. \A m \in 1 .. Len(nodes) : NodesKept(m) /\ nodes'[m].next = nodes[m].next
    BY <1>3, <1>5 DEF NodesKept
  <1>7. Len(nodes') = Len(nodes) /\ nodes' \in Seq(NodeRec)
    <2>1. PICK S : S = NodeRec
      OBVIOUS
    <2>2. nodes'[n] \in S
      BY <1>4, <2>1 DEF NodeRec, Statuses
    <2>3. nodes' \in [1 .. Len(nodes) -> S]
      BY <1>2, <2>1, <2>2
    <2> QED BY SMTT(30), <1>2, <2>1, <2>3, SeqIsFunction
  <1>8. NodeIds' = NodeIds /\ ChainIds' = ChainIds
    BY <1>7 DEF NodeIds, ChainIds
  <1>9. StoreType'
    BY <1>1, <1>7, <1>8 DEF StoreType, NodeRec
  <1>10. LinksInv'
    <2>1. ASSUME NEW m \in 1 .. Len(nodes)
          PROVE  /\ nodes'[m].next < m
                 /\ nodes'[m].next # 0 => nodes'[nodes'[m].next].key = nodes'[m].key
      <3>1. nodes[m].next < m /\ (nodes[m].next # 0 => nodes[nodes[m].next].key = nodes[m].key)
        BY <1>1 DEF LinksInv
      <3>2. nodes[m].next # 0 => nodes[m].next \in 1 .. Len(nodes)
        BY <1>2
      <3> QED BY <1>6, <3>1, <3>2 DEF NodesKept
    <2>2. ASSUME NEW k \in Keys, entries[k] # 0
          PROVE  /\ heads[entries[k]] # 0 => nodes'[heads[entries[k]]].key = k
                 /\ \A l \in Keys : entries[l] = entries[k] => l = k
      <3>1. entries[k] \in 1 .. Len(heads)
        BY <1>2, <2>2
      <3>2. heads[entries[k]] \in 0 .. Len(nodes)
        BY <1>2, <3>1
      <3>3. /\ heads[entries[k]] # 0 => nodes[heads[entries[k]]].key = k
            /\ \A l \in Keys : entries[l] = entries[k] => l = k
        BY <1>1, <2>2 DEF LinksInv
      <3> QED BY <1>2, <1>6, <3>2, <3>3 DEF NodesKept
    <2> QED BY <1>7, <2>1, <2>2 DEF LinksInv
  <1>11. Shape'
    BY <1>9, <1>10 DEF Shape
  <1>12. \A m \in NodeIds : Below'[m] = Below[m]
    BY <1>2, <1>6, <1>7, <1>11, PointersKept
  <1>13. ASSUME NEW k \in Keys
         PROVE  Linked(k)' = Linked(k)
    <2>1. entries[k] # 0 => entries[k] \in 1 .. Len(heads)
      BY <1>2
    <2>2. entries[k] # 0 => heads[entries[k]] \in NodeIds
      BY <1>2, <2>1
    <2> QED BY <1>12, <2>2 DEF Linked
  <1> QED BY <1>3, <1>5, <1>6, <1>7, <1>11, <1>13

\* The node that GC stands on is in the chain.
LEMMA GCStandsOnLinked ==
  ASSUME Shape, GCInv, gc.pc = "visit", gc.node # 0
  PROVE  /\ gc.key \in Keys /\ entries[gc.key] # 0 /\ gc.node \in Linked(gc.key)
         /\ gc.prev # 0 => gc.prev \in Linked(gc.key) /\ nodes[gc.prev].next = gc.node
         /\ gc.prev = 0 => heads[entries[gc.key]] = gc.node
  <1>1. /\ gc.key \in Keys /\ entries[gc.key] # 0
        /\ IF gc.prev = 0 THEN gc.node = heads[entries[gc.key]]
                          ELSE gc.prev \in Linked(gc.key) /\ gc.node = nodes[gc.prev].next
    BY DEF GCInv
  <1>2. LinkedOf(gc.key)
    BY <1>1, ShapeMakesLinked DEF LinkedFacts
  <1> QED BY <1>1, <1>2 DEF LinkedOf

\* GC takes the node it stands on out of the chain, and no other.
Removed ==
  /\ Len(nodes') = Len(nodes) /\ Len(heads') = Len(heads) /\ entries' = entries
  /\ \A n \in 1 .. Len(nodes) : NodesKept(n) /\ nodes'[n].status = nodes[n].status
  /\ \A n \in 1 .. Len(nodes) :
       nodes'[n].next = IF n = gc.prev THEN nodes[gc.node].next ELSE nodes[n].next
  /\ \A c \in 1 .. Len(heads) :
       heads'[c] = IF gc.prev = 0 /\ c = entries[gc.key] THEN nodes[gc.node].next ELSE heads[c]

LEMMA RemoveEffect ==
  ASSUME UsePool = FALSE, Shape, GCInv, GCRemove
  PROVE  Removed /\ StoreType' /\ LinksInv'
  <1> DEFINE q == gc.node
             p == gc.prev
             x == nodes[q].next
             c == entries[gc.key]
             N == Len(nodes)
  <1>1. StoreType /\ LinksInv
    BY DEF Shape
  <1>2. /\ N \in Nat /\ Len(heads) \in Nat
        /\ nodes \in [1 .. N -> NodeRec] /\ heads \in [1 .. Len(heads) -> NodeIds]
        /\ entries \in [Keys -> ChainIds]
        /\ NodeIds = 0 .. N /\ ChainIds = 0 .. Len(heads)
        /\ \A m \in 1 .. N : nodes[m].next \in NodeIds
    BY <1>1, StoreTypeFacts DEF StoreType
  <1>3. gc.pc = "visit" /\ q # 0
    BY DEF GCRemove
  <1>4. /\ gc.key \in Keys /\ c # 0 /\ q \in Linked(gc.key)
        /\ p # 0 => p \in Linked(gc.key) /\ nodes[p].next = q
        /\ p = 0 => heads[c] = q
    BY <1>3, GCStandsOnLinked
  <1>5. LinkedOf(gc.key)
    BY <1>4, ShapeMakesLinked DEF LinkedFacts
  <1>6. /\ q \in 1 .. N /\ nodes[q].key = gc.key /\ c \in 1 .. Len(heads)
        /\ p # 0 => p \in 1 .. N /\ nodes[p].key = gc.key
    BY <1>2, <1>4, <1>5 DEF LinkedOf
  <1>7. /\ x \in NodeIds /\ x < q
        /\ x # 0 => nodes[x].key = gc.key
    BY <1>1, <1>2, <1>6 DEF LinksInv
  <1>8. /\ p # 0 => nodes' = [nodes EXCEPT ![p].next = x] /\ heads' = heads
        /\ p = 0 => heads' = [heads EXCEPT ![c] = x] /\ nodes' = nodes
        /\ pool' = pool /\ entries' = entries
        /\ totalKeys' = totalKeys /\ totalVersions' = totalVersions
    BY DEF GCRemove
  <1>9. /\ Len(nodes') = N /\ nodes' \in Seq(NodeRec)
        /\ \A n \in 1 .. N : /\ NodesKept(n) /\ nodes'[n].status = nodes[n].status
                             /\ nodes'[n].next = IF n = p THEN x ELSE nodes[n].next
    <2>1. CASE p = 0
      BY <1>1, <1>2, <1>8, <2>1 DEF StoreType, NodesKept
    <2>2. CASE p # 0
      <3>1. \A n \in 1 .. N : n # p => nodes'[n] = nodes[n]
        BY <1>2, <1>8, <2>2
      <3>2. nodes[p] \in NodeRec /\ nodes'[p] = [nodes[p] EXCEPT !.next = x]
        BY <1>2, <1>6, <1>8, <2>2
      <3>3. NodesKept(p) /\ nodes'[p].next = x /\ nodes'[p].status = nodes[p].status
        BY <3>2 DEF NodesKept, NodeRec
      <3>4. PICK S : S = NodeRec
        OBVIOUS
      <3>5. nodes'[p] \in S
        BY <1>7, <3>2, <3>4 DEF NodeRec
      <3>6. nodes' \in [1 .. N -> S]
        BY <1>2, <1>8, <2>2, <3>4, <3>5
      <3>7. nodes' \in Seq(S) /\ Len(nodes') = N
        BY <1>2, <3>6, SeqIsFunction
      <3> QED BY <3>1, <3>3, <3>4, <3>7 DEF NodesKept
    <2> QED BY <2>1, <2>2
  <1>10. /\ Len(heads') = Len(heads) /\ heads' \in Seq(NodeIds)
         /\ \A d \in 1 .. Len(heads) :
              heads'[d] = IF p = 0 /\ d = c THEN x ELSE heads[d]
    <2>1. CASE p # 0
      BY <1>1, <1>8, <2>1 DEF StoreType
    <2>2. CASE p = 0
      <3>1. PICK S : S = NodeIds
        OBVIOUS
      <3>2. heads' \in [1 .. Len(heads) -> S]
        BY <1>2, <1>7, <1>8, <2>2, <3>1
      <3>3. heads' \in Seq(S) /\ Len(heads') = Len(heads)
        BY <1>2, <3>2, SeqIsFunction
      <3> QED BY <1>2, <1>8, <2>2, <3>1, <3>3
    <2> QED BY <2>1, <2>2
  <1>11. Removed
    BY <1>8, <1>9, <1>10 DEF Removed
  <1>12. StoreType'
    <2>1. NodeIds' = NodeIds /\ ChainIds' = ChainIds
      BY <1>9, <1>10 DEF NodeIds, ChainIds
    <2> QED BY <1>1, <1>8, <1>9, <1>10, <2>1 DEF StoreType, NodeRec
  <1>13. LinksInv'
    <2>1. ASSUME NEW n \in 1 .. N
          PROVE  /\ nodes'[n].next < n
                 /\ nodes'[n].next # 0 => nodes'[nodes'[n].next].key = nodes'[n].key
      <3>1. nodes[n].next < n /\ (nodes[n].next # 0 => nodes[nodes[n].next].key = nodes[n].key)
        BY <1>1 DEF LinksInv
      <3>2. CASE n # p
        <4>1. nodes[n].next # 0 => nodes[n].next \in 1 .. N
          BY <1>2
        <4> QED BY <1>9, <3>1, <3>2, <4>1 DEF NodesKept
      <3>3. CASE n = p
        <4>1. q < p /\ p # 0
          BY <1>2, <1>4, <3>1, <3>3
        <4>2. x < p /\ (x # 0 => x \in 1 .. N)
          BY <1>2, <1>6, <1>7, <3>3, <4>1
        <4> QED BY <1>6, <1>7, <1>9, <3>3, <4>1, <4>2 DEF NodesKept
      <3> QED BY <3>2, <3>3
    <2>2. ASSUME NEW k \in Keys, entries[k] # 0
          PROVE  /\ heads'[entries[k]] # 0 => nodes'[heads'[entries[k]]].key = k
                 /\ \A l \in Keys : entries[l] = entries[k] => l = k
      <3>1. entries[k] \in 1 .. Len(heads)
        BY <1>2, <2>2
      <3>2. heads[entries[k]] \in 0 .. N
        BY <1>2, <3>1
      <3>3. /\ heads[entries[k]] # 0 => nodes[heads[entries[k]]].key = k
            /\ \A l \in Keys : entries[l] = entries[k] => l = k
        BY <1>1, <2>2 DEF LinksInv
      <3>4. CASE p = 0 /\ entries[k] = c
        <4>1. k = gc.key
          BY <1>4, <3>3, <3>4
        <4>2. heads'[entries[k]] = x
          BY <1>10, <3>1, <3>4
        <4>3. x # 0 => nodes'[x].key = gc.key
          BY <1>2, <1>7, <1>9 DEF NodesKept
        <4> QED BY <3>3, <4>1, <4>2, <4>3
      <3>5. CASE ~ (p = 0 /\ entries[k] = c)
        <4>1. heads'[entries[k]] = heads[entries[k]]
          BY <1>10, <3>1, <3>5
        <4> QED BY <1>9, <3>2, <3>3, <4>1 DEF NodesKept
      <3> QED BY <3>4, <3>5
    <2> QED BY <1>8, <1>9, <2>1, <2>2 DEF LinksInv
  <1> QED BY <1>11, <1>12, <1>13

LEMMA RemoveLinks ==
  ASSUME Shape, Shape', GCInv, gc.pc = "visit", gc.node # 0, Removed
  PROVE  \A k \in Keys : Linked(k)' = Linked(k) \ {gc.node}
  <1> DEFINE q == gc.node
             p == gc.prev
             N == Len(nodes)
  <1>1. StoreType /\ LinksInv /\ LinkedFacts /\ BelowFacts /\ StepFacts
    BY ShapeMakesLinked, ShapeMakesChains, ShapeMakesSteps DEF Shape
  <1>2. /\ N \in Nat /\ Len(heads) \in Nat
        /\ heads \in [1 .. Len(heads) -> NodeIds]
        /\ entries \in [Keys -> ChainIds]
        /\ NodeIds = 0 .. N /\ ChainIds = 0 .. Len(heads)
    BY <1>1, StoreTypeFacts DEF StoreType
  <1>3. /\ gc.key \in Keys /\ entries[gc.key] # 0 /\ q \in Linked(gc.key)
        /\ p # 0 => p \in Linked(gc.key) /\ nodes[p].next = q
        /\ p = 0 => heads[entries[gc.key]] = q
    BY GCStandsOnLinked
  <1>4. /\ Linked(gc.key) \subseteq 1 .. N
        /\ \A k \in Keys : \A n \in Linked(k) : nodes[n].key = k
    BY <1>1, <1>3 DEF LinkedFacts, LinkedOf
  <1>5. \A k \in Keys : k # gc.key => q \notin Linked(k) /\ p \notin Linked(k)
    <2>1. nodes[q].key = gc.key /\ (p # 0 => nodes[p].key = gc.key)
      BY <1>3, <1>4
    <2>2. \A k \in Keys : 0 \notin Linked(k)
      BY <1>1 DEF LinkedFacts, LinkedOf
    <2> QED BY <1>4, <2>1, <2>2
  <1>6. \A k \in Keys : entries[k] # 0 => entries[k] \in 1 .. Len(heads) /\ heads[entries[k]] \in NodeIds
    BY <1>2
  <1>7. CASE p = 0
    <2>1. \A n \in 1 .. N : nodes'[n].next = nodes[n].next
      BY <1>2, <1>7 DEF Removed
    <2>2. \A n \in NodeIds : Below'[n] = Below[n]
      BY <1>2, <2>1, PointersKept DEF Removed
    <2>3. ASSUME NEW k \in Keys, k # gc.key
          PROVE  Linked(k)' = Linked(k)
      <3>1. CASE entries[k] = 0
        BY <3>1 DEF Linked, Removed
      <3>2. CASE entries[k] # 0
        <4>1. entries[k] # entries[gc.key]
          BY <1>1, <2>3, <3>2, <1>3 DEF LinksInv
        <4>2. entries' = entries /\ heads'[entries[k]] = heads[entries[k]]
          BY <1>6, <3>2, <4>1 DEF Removed
        <4> QED BY <1>6, <2>2, <3>2, <4>2 DEF Linked
      <3> QED BY <3>1, <3>2
    <2>4. ASSUME NEW k \in Keys, k = gc.key
          PROVE  Linked(k)' = Linked(k) \ {q}
      <3>1. heads'[entries[gc.key]] = nodes[q].next /\ entries' = entries
        BY <1>3, <1>6, <1>7 DEF Removed
      <3>2. nodes[q].next \in NodeIds /\ Below[q] = {q} \cup Below[nodes[q].next]
              /\ q \notin Below[nodes[q].next]
        BY <1>1, <1>2, <1>3, <1>4 DEF StepFacts
      <3>3. Linked(gc.key) = Below[q]
        BY <1>3, <1>7 DEF Linked
      <3>4. Linked(k)' = Below'[nodes[q].next]
        BY <1>3, <2>4, <3>1 DEF Linked
      <3> QED BY <2>2, <2>4, <3>2, <3>3, <3>4
    <2> QED BY <1>5, <2>3, <2>4
  <1>8. CASE p # 0
    <2>1. PICK f : f = Below
      OBVIOUS
    <2>2. PICK g : g = Below'
      OBVIOUS
    <2>3. PICK nx : nx = Pointer
      OBVIOUS
    <2>4. PICK ny : ny = Pointer'
      OBVIOUS
    <2>5. PICK M \in Nat : M = N
      BY <1>2
    <2>6. PICK a \in 1 .. M : a = p
      BY <1>3, <1>4, <1>8, <2>5
    <2>7. Down(nx, M) /\ IsBelow(f, nx, M)
      BY <1>1, <2>1, <2>3, <2>5 DEF BelowFacts, BelowOK
    <2>8. IsBelow(g, ny, M)
      <3>1. BelowFacts'
        BY ShapeMakesChains, PTL
      <3> QED BY <2>2, <2>4, <2>5, <3>1 DEF BelowFacts, BelowOK, Removed
    <2>9. \A n \in 1 .. M : nx[n] = nodes[n].next
                           /\ ny[n] = IF n = a THEN nodes[q].next ELSE nodes[n].next
      <3> SUFFICES ASSUME NEW n \in 1 .. M
                   PROVE  nx[n] = nodes[n].next
                          /\ ny[n] = IF n = a THEN nodes[q].next ELSE nodes[n].next
        OBVIOUS
      <3>1. nx[n] = nodes[n].next
        BY <2>3, <2>5 DEF Pointer
      <3>2. ny[n] = nodes'[n].next
        BY <2>4, <2>5 DEF Pointer, Removed
      <3>3. nodes'[n].next = IF n = a THEN nodes[q].next ELSE nodes[n].next
        BY <2>5, <2>6 DEF Removed
      <3> QED BY <3>1, <3>2, <3>3
    <2>10. q \in 1 .. M /\ nx[a] = q /\ nx[a] # 0 /\ ny[a] = nx[nx[a]]
      <3>1. q \in 1 .. M
        BY <1>3, <1>4, <2>5
      <3>2. nx[a] = q
        BY <1>3, <1>8, <2>6, <2>9
      <3> QED BY <2>9, <3>1, <3>2
    <2>11. \A n \in 1 .. M : n # a => ny[n] = nx[n]
      BY <2>9
    <2>a. SkipsSuccessor(ny, nx, a, M)
      BY <2>10, <2>11 DEF SkipsSuccessor
    <2>12. LoseSuccessor(g, f, nx, a, M)
      BY <2>5, <2>6, <2>7, <2>8, <2>a, BelowRemove
    <2>13. ASSUME NEW k \in Keys
           PROVE  Linked(k)' = Linked(k) \ {q}
      <3>1. CASE entries[k] = 0
        BY <3>1 DEF Linked, Removed
      <3>2. CASE entries[k] # 0
        <4>1. PICK h \in 0 .. M : h = heads[entries[k]]
          BY <1>2, <1>6, <2>5, <3>2
        <4>2. heads'[entries[k]] = h /\ entries' = entries
          BY <1>6, <1>8, <3>2, <4>1 DEF Removed
        <4>3. Linked(k)' = g[h]
          BY <2>2, <3>2, <4>2 DEF Linked
        <4>4. Linked(k) = f[h]
          BY <2>1, <3>2, <4>1 DEF Linked
        <4>5. /\ a \in f[h] => g[h] = f[h] \ {nx[a]}
              /\ a \notin f[h] => g[h] = f[h]
          BY <2>12 DEF LoseSuccessor
        <4>6. CASE k = gc.key
          <5>1. a \in f[h]
            BY <1>3, <1>8, <2>6, <4>4, <4>6
          <5> QED BY <2>10, <4>3, <4>4, <4>5, <5>1
        <4>7. CASE k # gc.key
          <5>1. a \notin f[h] /\ q \notin f[h]
            BY <1>5, <2>6, <4>4, <4>7
          <5> QED BY <4>3, <4>4, <4>5, <5>1
        <4> QED BY <4>6, <4>7
      <3> QED BY <3>1, <3>2
    <2> QED BY <2>13
  <1> QED BY <1>7, <1>8

\* GC deletes an empty chain from the bucket.
LEMMA KeyDoneEffect ==
  ASSUME Shape, GCInv, GCKeyDone
  PROVE  /\ UNCHANGED <<nodes, heads>>
         /\ entries' = [entries EXCEPT ![gc.key] = IF heads[entries[gc.key]] = 0 THEN 0 ELSE @]
         /\ gc.key \in Keys /\ entries[gc.key] # 0
         /\ LinksInv'
         /\ \A k \in Keys : Linked(k)' = Linked(k)
  <1>1. StoreType /\ LinksInv /\ LinkedFacts
    BY ShapeMakesLinked DEF Shape
  <1>2. entries \in [Keys -> ChainIds]
    BY <1>1 DEF StoreType
  <1>3. gc.key \in Keys /\ entries[gc.key] # 0
    BY DEF GCInv, GCKeyDone
  <1>4. /\ UNCHANGED <<nodes, heads>>
        /\ entries' = [entries EXCEPT ![gc.key] = IF heads[entries[gc.key]] = 0 THEN 0 ELSE @]
    <2>1. UNCHANGED <<nodes, heads>>
      BY DEF GCKeyDone
    <2>2. CASE heads[entries[gc.key]] = 0
      BY <2>1, <2>2 DEF GCKeyDone
    <2>3. CASE heads[entries[gc.key]] # 0
      <3>1. entries' = entries
        BY <2>3 DEF GCKeyDone
      <3> QED BY <1>2, <2>1, <2>3, <3>1
    <2> QED BY <2>1, <2>2, <2>3
  <1>5. \A k \in Keys : entries'[k] = IF k = gc.key /\ heads[entries[k]] = 0 THEN 0 ELSE entries[k]
    BY <1>2, <1>4
  <1>6. LinksInv'
    <2>1. \A n \in 1 .. Len(nodes) :
            /\ nodes'[n].next < n
            /\ nodes'[n].next # 0 => nodes'[nodes'[n].next].key = nodes'[n].key
      BY <1>1, <1>4 DEF LinksInv
    <2>2. ASSUME NEW k \in Keys, entries'[k] # 0
          PROVE  /\ heads[entries'[k]] # 0 => nodes[heads[entries'[k]]].key = k
                 /\ \A l \in Keys : entries'[l] = entries'[k] => l = k
      <3>1. entries'[k] = entries[k] /\ entries[k] # 0
        BY <1>5, <2>2
      <3>2. \A l \in Keys : entries'[l] = entries'[k] => entries'[l] = entries[l]
        BY <1>5, <3>1
      <3> QED BY <1>1, <3>1, <3>2 DEF LinksInv
    <2> QED BY <1>4, <2>1, <2>2 DEF LinksInv
  <1>7. ASSUME NEW k \in Keys
        PROVE  Linked(k)' = Linked(k)
    <2>1. Below' = Below
      BY <1>4 DEF Below, NodeIds
    <2>2. CASE k = gc.key /\ heads[entries[k]] = 0
      <3>1. entries'[k] = 0
        BY <1>5, <2>2
      <3>2. Linked(k)' = {}
        BY <3>1 DEF Linked
      <3>3. Linked(k) = {}
        BY <1>1, <1>3, <2>2 DEF LinkedFacts, LinkedOf
      <3> QED BY <3>2, <3>3
    <2>3. CASE ~ (k = gc.key /\ heads[entries[k]] = 0)
      <3>1. entries'[k] = entries[k]
        BY <1>5, <2>3
      <3>2. heads'[entries'[k]] = heads[entries[k]]
        BY <1>4, <3>1
      <3>3. Linked(k)' = IF entries'[k] = 0 THEN {} ELSE Below'[heads'[entries'[k]]]
        BY DEF Linked
      <3> QED BY <2>1, <3>1, <3>2, <3>3 DEF Linked
    <2> QED BY <2>2, <2>3
  <1> QED BY <1>3, <1>4, <1>6, <1>7

--------------------------------------------------------------------------------
(* What every step leaves of the store, for the walkers *)

\* Nodes keep what they say and stay committed; only new nodes are added to a key, which
\* loses its chain only when it has no versions; a chain stays with its key or empty.
Evolves ==
  /\ Len(nodes') \in Nat /\ Len(nodes) <= Len(nodes')
  /\ Len(heads') \in Nat /\ Len(heads) <= Len(heads')
  /\ \A n \in 1 .. Len(nodes) :
       /\ NodesKept(n)
       /\ nodes[n].status = "committed" => nodes'[n].status = "committed"
  /\ \A k \in Keys : \A n \in Linked(k)' :
       n \in 1 .. Len(nodes) => n \in Linked(k) /\ entries'[k] = entries[k]
  /\ \A k \in Keys, c \in 1 .. Len(heads) : ChainOf(c, k) => ChainOf(c, k)'

LEMMA WriteEvolves ==
  ASSUME Shape, NEW t \in Txs, NEW k \in Keys, Wrote(t, k), StoreType',
         \A l \in Keys : Linked(l)' = IF l = k THEN Linked(l) \cup {Len(nodes) + 1} ELSE Linked(l)
  PROVE  Evolves
  <1>1. StoreType /\ LinksInv /\ LinkedFacts
    BY ShapeMakesLinked DEF Shape
  <1>2. /\ Len(nodes) \in Nat /\ Len(heads) \in Nat
        /\ entries \in [Keys -> ChainIds] /\ ChainIds = 0 .. Len(heads)
    BY <1>1, StoreTypeFacts DEF StoreType
  <1>3. /\ Len(nodes') \in Nat /\ Len(nodes) <= Len(nodes')
        /\ Len(heads') \in Nat /\ Len(heads) <= Len(heads')
    BY <1>2 DEF Wrote
  <1>4. \A n \in 1 .. Len(nodes) :
          /\ NodesKept(n)
          /\ nodes[n].status = "committed" => nodes'[n].status = "committed"
    BY DEF Wrote, NodesKept
  <1>5. ASSUME NEW l \in Keys, NEW n \in Linked(l)', n \in 1 .. Len(nodes)
        PROVE  n \in Linked(l) /\ entries'[l] = entries[l]
    <2>1. n \in Linked(l)
      BY <1>2, <1>5
    <2>2. entries[l] # 0
      BY <1>1, <2>1 DEF LinkedFacts, LinkedOf
    <2> QED BY <2>1, <2>2 DEF Wrote
  <1>6. ASSUME NEW l \in Keys, NEW c \in 1 .. Len(heads), ChainOf(c, l)
        PROVE  ChainOf(c, l)'
    <2>1. /\ c # 0
          /\ \A m \in Keys : entries[m] = c => m = l
          /\ entries[l] # c => heads[c] = 0
      BY <1>6 DEF ChainOf
    <2>2. \A m \in Keys : entries'[m] = c => entries[m] = c
      BY <1>2 DEF Wrote
    <2>3. ASSUME entries'[l] # c
          PROVE  heads'[c] = 0
      <3>1. entries[l] # c
        BY <1>2, <2>3 DEF Wrote
      <3>2. c # entries[k]
        BY <2>1, <3>1
      <3> QED BY <2>1, <3>1, <3>2 DEF Wrote
    <2> QED BY <2>1, <2>2, <2>3 DEF ChainOf
  <1> QED BY <1>3, <1>4, <1>5, <1>6 DEF Evolves

LEMMA RemoveEvolves ==
  ASSUME Shape, GCInv, gc.pc = "visit", gc.node # 0, Removed,
         \A k \in Keys : Linked(k)' = Linked(k) \ {gc.node}
  PROVE  Evolves
  <1>1. StoreType /\ LinksInv
    BY DEF Shape
  <1>2. Len(nodes) \in Nat /\ Len(heads) \in Nat
    BY <1>1, StoreTypeFacts
  <1>3. gc.key \in Keys
    BY GCStandsOnLinked
  <1>4. ASSUME NEW l \in Keys, NEW c \in 1 .. Len(heads), ChainOf(c, l)
        PROVE  ChainOf(c, l)'
    <2>1. /\ c # 0
          /\ \A m \in Keys : entries[m] = c => m = l
          /\ entries[l] # c => heads[c] = 0
      BY <1>4 DEF ChainOf
    <2>2. entries' = entries
      BY DEF Removed
    <2>3. ASSUME entries[l] # c
          PROVE  heads'[c] = 0
      <3>1. c # entries[gc.key]
        BY <1>3, <2>1, <2>3
      <3> QED BY <2>1, <2>3, <3>1 DEF Removed
    <2> QED BY <2>1, <2>2, <2>3 DEF ChainOf
  <1> QED BY <1>2, <1>4 DEF Evolves, Removed

LEMMA KeyDoneEvolves ==
  ASSUME Shape, UNCHANGED <<nodes, heads>>, gc.key \in Keys, entries[gc.key] # 0,
         entries' = [entries EXCEPT ![gc.key] = IF heads[entries[gc.key]] = 0 THEN 0 ELSE @],
         \A k \in Keys : Linked(k)' = Linked(k)
  PROVE  Evolves
  <1>1. StoreType /\ LinksInv /\ LinkedFacts
    BY ShapeMakesLinked DEF Shape
  <1>2. /\ Len(nodes) \in Nat /\ Len(heads) \in Nat
        /\ entries \in [Keys -> ChainIds] /\ ChainIds = 0 .. Len(heads)
    BY <1>1, StoreTypeFacts DEF StoreType
  <1>3. \A k \in Keys : entries'[k] = IF k = gc.key /\ heads[entries[k]] = 0 THEN 0 ELSE entries[k]
    BY <1>2
  <1>4. ASSUME NEW k \in Keys, NEW n \in Linked(k)'
        PROVE  n \in Linked(k) /\ entries'[k] = entries[k]
    <2>1. n \in Linked(k)
      BY <1>4
    <2>2. entries[k] # 0 /\ heads[entries[k]] # 0
      BY <1>1, <2>1 DEF LinkedFacts, LinkedOf
    <2> QED BY <1>3, <2>1, <2>2
  <1>5. ASSUME NEW l \in Keys, NEW c \in 1 .. Len(heads), ChainOf(c, l)
        PROVE  ChainOf(c, l)'
    <2>1. /\ c # 0
          /\ \A m \in Keys : entries[m] = c => m = l
          /\ entries[l] # c => heads[c] = 0
      BY <1>5 DEF ChainOf
    <2>2. \A m \in Keys : entries'[m] = c => entries[m] = c
      BY <1>3, <2>1
    <2>3. entries'[l] # c => heads[c] = 0
      BY <1>3, <2>1
    <2> QED BY <2>1, <2>2, <2>3 DEF ChainOf
  <1> QED BY <1>2, <1>4, <1>5 DEF Evolves, NodesKept

\* A step that marks a node, or none, and leaves heads and entries.
LEMMA SameChainsEvolve ==
  ASSUME Shape, UNCHANGED <<heads, entries>>, Len(nodes') = Len(nodes),
         \A n \in 1 .. Len(nodes) :
           /\ NodesKept(n)
           /\ nodes[n].status = "committed" => nodes'[n].status = "committed",
         \A k \in Keys : Linked(k)' = Linked(k)
  PROVE  Evolves
  <1>1. Len(nodes) \in Nat /\ Len(heads) \in Nat
    BY StoreTypeFacts DEF Shape
  <1>2. \A k \in Keys, c \in 1 .. Len(heads) : ChainOf(c, k) => ChainOf(c, k)'
    BY DEF ChainOf
  <1> QED BY <1>1, <1>2 DEF Evolves

--------------------------------------------------------------------------------
(* The parts of the invariant *)

TxRec == [pc: {"execute", "commit", "head", "mark", "committed"}, inc: Nat,
          writes: SUBSET Keys, left: SUBSET Keys, key: Keys \cup {NoKey},
          chain: ChainIds, node: NodeIds]

ReaderRec == [pc: {"idle", "lookup", "head", "visit", "read", "validated"},
              key: Keys \cup {NoKey}, at: ReadAt \cup {0}, chain: ChainIds,
              start: NodeIds, node: NodeIds, phase: {1, 2}, first: ResultType,
              second: ResultType, valid: BOOLEAN]

GCRec == [pc: {"idle", "bucket", "keys", "visit"}, before: GCBefore \cup {0},
          bucket: 0 .. NumBuckets, keys: SUBSET Keys, key: Keys \cup {NoKey},
          prev: NodeIds, node: NodeIds, freed: Nat]

TxType == tx \in [Txs -> TxRec]
ReaderType == reader \in [Readers -> ReaderRec]
GCType == gc \in GCRec

LEMMA TypeParts ==
  TypeOK /\ pool = {} <=> StoreType /\ TxType /\ ReaderType /\ GCType
  <1>1. pool = {} => pool \in SUBSET (NodeIds \ {0})
    OBVIOUS
  <1> QED BY <1>1, Zenon
          DEF TypeOK, StoreType, TxType, ReaderType, GCType, NodeRec, TxRec, ReaderRec, GCRec

\* What the invariant says of reader r, if its record is R.
Seen(R) == {n \in Linked(R.key) : n <= R.start /\ nodes[n].tx < R.at}

IsAfterAll(R) ==
  \A n \in Seen(R) : \E m \in NodeIds \ {0} : n <= m /\ Returns(m, R.first)

WalkOK(R) ==
  /\ R.pc # "idle" => R.key \in Keys
  /\ R.pc = "head" => ChainOf(R.chain, R.key)
  /\ R.pc = "visit" => /\ R.node # 0 => nodes[R.node].key = R.key
                       /\ \A n \in Seen(R) : n <= R.node
  /\ (R.pc = "read" \/ R.phase = 2) /\ R.first.status = "found" =>
       \E m \in 1 .. Len(nodes) :
         Returns(m, R.first) /\ nodes[m].key = R.key /\ nodes[m].status = "committed"
  /\ R.pc = "read" => IsAfterAll(R)
  /\ R.pc = "validated" /\ R.valid /\ R.first.status = "found" => IsAfterAll(R)

\* What it says of transaction t, if its record is T.
Made(n, t, T) == nodes[n].tx = t /\ nodes[n].inc = T.inc

TxOK(t, T) ==
  /\ \A n \in 1 .. Len(nodes) : nodes[n].tx = t =>
       /\ nodes[n].inc <= T.inc
       /\ nodes[n].inc = T.inc => nodes[n].key \in T.writes
       /\ nodes[n].status = "committed" => T.pc # "execute" /\ nodes[n].inc = T.inc
  /\ T.pc # "execute" =>
       \A k \in Keys \ T.left : \A n \in Linked(k) :
         Made(n, t, T) => nodes[n].status = "committed"
  /\ T.pc \in {"head", "mark"} => T.key \in Keys
  /\ T.pc = "committed" => T.left = {}
  /\ T.pc = "head" =>
       /\ ChainOf(T.chain, T.key)
       /\ \A n \in Linked(T.key) : Made(n, t, T) => entries[T.key] = T.chain
  /\ T.pc = "mark" =>
       /\ T.node # 0 => nodes[T.node].key = T.key
       /\ \A n \in Linked(T.key) : Made(n, t, T) => n <= T.node

StoreFacts == Shape /\ NoGap /\ VersionInv
ActorTypes == TxType /\ ReaderType /\ GCType
ActorFacts ==
  /\ \A t \in Txs : TxOK(t, tx[t])
  /\ \A r \in Readers : WalkOK(reader[r])

LEMMA InvariantParts ==
  IInv <=> StoreFacts /\ ActorTypes /\ CountInv /\ GCInv /\ ActorFacts
  <1>1. ASSUME NEW r \in Readers
        PROVE  Seen(reader[r]) = Candidates(r)
    BY DEF Seen, Candidates
  <1>2. (\A r \in Readers : WalkOK(reader[r])) <=>
          (\A r \in Readers : ReaderInv(r)) /\ NoVersionSkipped /\ ValidReadIsCurrent
    BY <1>1 DEF WalkOK, IsAfterAll, ReaderInv, NoVersionSkipped, ValidReadIsCurrent
  <1>3. \A t \in Txs : TxOK(t, tx[t]) <=> TxInv(t)
    BY Zenon DEF TxOK, TxInv, Made, IsVersion
  <1>4. StoreFacts /\ ActorTypes <=>
          TypeOK /\ pool = {} /\ LinksInv /\ NoGap /\ VersionInv
    BY TypeParts, Zenon DEF StoreFacts, ActorTypes, Shape
  <1>5. ActorFacts <=> /\ \A t \in Txs : TxInv(t)
                       /\ \A r \in Readers : ReaderInv(r)
                       /\ NoVersionSkipped /\ ValidReadIsCurrent
    BY <1>2, <1>3, Zenon DEF ActorFacts
  <1> QED BY <1>4, <1>5, Zenon DEF IInv

LEMMA StoreStays ==
  ASSUME StoreFacts, UNCHANGED store
  PROVE  /\ StoreFacts' /\ Evolves /\ LinkedFacts' /\ Len(nodes') = Len(nodes)
         /\ \A k \in Keys : Linked(k)' = Linked(k)
  <1>1. /\ nodes' = nodes /\ heads' = heads /\ entries' = entries
        /\ totalKeys' = totalKeys /\ totalVersions' = totalVersions /\ pool' = pool
    BY DEF store
  <1>2. \A k \in Keys : Linked(k)' = Linked(k)
    BY <1>1 DEF Linked, Below, NodeIds
  <1>3. Shape'
    BY <1>1 DEF StoreFacts, Shape, StoreType, LinksInv, NodeRec, NodeIds, ChainIds
  <1>4. LinkedFacts'
    BY <1>3, ShapeMakesLinked, PTL
  <1>5. NoGap' /\ VersionInv'
    <2>1. NoGap /\ VersionInv /\ StoreType
      BY DEF StoreFacts, Shape
    <2>2. VersionInv'
      BY <1>1, <2>1 DEF VersionInv
    <2>3. \A n \in 1 .. Len(nodes) : nodes[n].key \in Keys
      BY <2>1, StoreTypeFacts
    <2>4. ASSUME NEW n \in 1 .. Len(nodes), NEW k \in Keys, k = nodes[n].key
          PROVE  \A m \in Linked(k)' : m < n => m <= nodes[n].next
      BY <1>2, <2>1, <2>4 DEF NoGap
    <2>5. NoGap'
      BY <1>1, <2>3, <2>4 DEF NoGap
    <2> QED BY <2>2, <2>5
  <1>6. Evolves
    BY <1>1, <1>2, SameChainsEvolve DEF StoreFacts, NodesKept
  <1> QED BY <1>1, <1>2, <1>3, <1>4, <1>5, <1>6 DEF StoreFacts

\* What the walk of a reader has seen stays as true of the new store.
LEMMA ReaderFrame ==
  ASSUME Shape, LinkedFacts', Evolves, NEW R \in ReaderRec, WalkOK(R)
  PROVE  WalkOK(R)'
  <1>1. StoreType
    BY DEF Shape
  <1>2. Len(nodes) \in Nat /\ NodeIds = 0 .. Len(nodes) /\ ChainIds = 0 .. Len(heads)
    BY <1>1, StoreTypeFacts
  <1>3. /\ R.start \in 0 .. Len(nodes) /\ R.node \in 0 .. Len(nodes)
        /\ R.chain \in 0 .. Len(heads)
    BY <1>2 DEF ReaderRec
  <1>4. R.pc # "idle" => R.key \in Keys
    BY DEF WalkOK
  <1>5. ASSUME R.pc # "idle"
        PROVE  Seen(R)' \subseteq Seen(R)
    <2> SUFFICES ASSUME NEW n \in Seen(R)'
                 PROVE  n \in Seen(R)
      OBVIOUS
    <2>1. n \in Linked(R.key)' /\ n <= R.start /\ nodes'[n].tx < R.at
      BY DEF Seen
    <2>2. n \in 1 .. Len(nodes')
      BY <1>4, <1>5, <2>1 DEF LinkedFacts, LinkedOf
    <2>3. n \in 1 .. Len(nodes)
      BY <1>2, <1>3, <2>1, <2>2 DEF Evolves
    <2>4. n \in Linked(R.key) /\ nodes'[n].tx = nodes[n].tx
      BY <1>4, <1>5, <2>1, <2>3 DEF Evolves, NodesKept
    <2> QED BY <2>1, <2>4 DEF Seen
  <1>6. \A m \in 1 .. Len(nodes) :
          /\ m \in 1 .. Len(nodes') /\ nodes'[m].key = nodes[m].key
          /\ nodes[m].status = "committed" => nodes'[m].status = "committed"
          /\ Returns(m, R.first) => Returns(m, R.first)'
    BY <1>2 DEF Evolves, NodesKept, Returns
  <1>7. R.pc = "head" => ChainOf(R.chain, R.key)'
    <2>1. ASSUME R.pc = "head"
          PROVE  ChainOf(R.chain, R.key) /\ R.key \in Keys /\ R.chain \in 1 .. Len(heads)
      BY <1>3, <1>4, <2>1 DEF WalkOK, ChainOf
    <2> QED BY <2>1 DEF Evolves
  <1>8. R.pc = "visit" => /\ R.node # 0 => nodes'[R.node].key = R.key
                         /\ \A n \in Seen(R)' : n <= R.node
    <2>1. R.pc = "visit" => /\ R.node # 0 => nodes[R.node].key = R.key
                           /\ \A n \in Seen(R) : n <= R.node
      BY DEF WalkOK
    <2> QED BY <1>2, <1>3, <1>5, <1>6, <2>1
  <1>9. ASSUME R.pc = "read" \/ R.phase = 2, R.first.status = "found"
        PROVE  \E m \in 1 .. Len(nodes') :
                 /\ Returns(m, R.first)'
                 /\ nodes'[m].key = R.key /\ nodes'[m].status = "committed"
    <2>1. PICK m \in 1 .. Len(nodes) :
            /\ Returns(m, R.first)
            /\ nodes[m].key = R.key /\ nodes[m].status = "committed"
      BY <1>9 DEF WalkOK
    <2> QED BY <1>6, <2>1
  <1>10. R.pc # "idle" /\ IsAfterAll(R) => IsAfterAll(R)'
    <2> SUFFICES ASSUME R.pc # "idle", IsAfterAll(R), NEW n \in Seen(R)'
                 PROVE  \E m \in NodeIds' \ {0} : n <= m /\ Returns(m, R.first)'
      BY DEF IsAfterAll
    <2>1. PICK m \in NodeIds \ {0} : n <= m /\ Returns(m, R.first)
      BY <1>5 DEF IsAfterAll
    <2>2. m \in 1 .. Len(nodes)
      BY <1>2, <2>1
    <2>3. m \in NodeIds' \ {0}
      BY <1>6, <2>2 DEF NodeIds
    <2> QED BY <1>6, <2>1, <2>2, <2>3
  <1>11. /\ R.pc = "read" => IsAfterAll(R)'
         /\ R.pc = "validated" /\ R.valid /\ R.first.status = "found" => IsAfterAll(R)'
    BY <1>10 DEF WalkOK
  <1> QED BY <1>4, <1>7, <1>8, <1>9, <1>11 DEF WalkOK

\* The same of a transaction whose versions are left alone.
LEMMA TxFrame ==
  ASSUME Shape, LinkedFacts', Evolves, NEW t \in Txs, NEW T \in TxRec, TxOK(t, T),
         \A n \in 1 .. Len(nodes') : nodes'[n].tx = t =>
           n \in 1 .. Len(nodes) /\ nodes'[n].status = nodes[n].status
  PROVE  TxOK(t, T)'
  <1>1. Len(nodes) \in Nat /\ NodeIds = 0 .. Len(nodes) /\ ChainIds = 0 .. Len(heads)
    BY StoreTypeFacts DEF Shape
  <1>2. T.node \in 0 .. Len(nodes) /\ T.chain \in 0 .. Len(heads)
    BY <1>1 DEF TxRec
  <1>3. ASSUME NEW n \in 1 .. Len(nodes'), nodes'[n].tx = t
        PROVE  /\ n \in 1 .. Len(nodes) /\ nodes[n].tx = t /\ nodes'[n].inc = nodes[n].inc
               /\ nodes'[n].key = nodes[n].key /\ nodes'[n].status = nodes[n].status
    BY <1>3 DEF Evolves, NodesKept
  <1>4. ASSUME NEW k \in Keys, NEW n \in Linked(k)', Made(n, t, T)'
        PROVE  /\ n \in Linked(k) /\ Made(n, t, T)
               /\ nodes'[n].status = nodes[n].status /\ entries'[k] = entries[k]
    <2>1. n \in 1 .. Len(nodes') /\ nodes'[n].tx = t /\ nodes'[n].inc = T.inc
      BY <1>4 DEF LinkedFacts, LinkedOf, Made
    <2> QED BY <1>3, <2>1 DEF Evolves, Made
  <1>5. \A n \in 1 .. Len(nodes') : nodes'[n].tx = t =>
          /\ nodes'[n].inc <= T.inc
          /\ nodes'[n].inc = T.inc => nodes'[n].key \in T.writes
          /\ nodes'[n].status = "committed" => T.pc # "execute" /\ nodes'[n].inc = T.inc
    BY <1>3 DEF TxOK
  <1>6. T.pc # "execute" =>
          \A k \in Keys \ T.left : \A n \in Linked(k)' :
            Made(n, t, T)' => nodes'[n].status = "committed"
    BY <1>4 DEF TxOK
  <1>7. /\ T.pc \in {"head", "mark"} => T.key \in Keys
        /\ T.pc = "committed" => T.left = {}
    BY DEF TxOK
  <1>8. ASSUME T.pc = "head"
        PROVE  /\ ChainOf(T.chain, T.key)'
               /\ \A n \in Linked(T.key)' : Made(n, t, T)' => entries'[T.key] = T.chain
    <2>1. /\ ChainOf(T.chain, T.key) /\ T.key \in Keys
          /\ \A n \in Linked(T.key) : Made(n, t, T) => entries[T.key] = T.chain
      BY <1>7, <1>8 DEF TxOK
    <2>2. T.chain \in 1 .. Len(heads)
      BY <1>2, <2>1 DEF ChainOf
    <2>3. ChainOf(T.chain, T.key)'
      BY <2>1, <2>2 DEF Evolves
    <2> QED BY <1>4, <2>1, <2>3
  <1>9. ASSUME T.pc = "mark"
        PROVE  /\ T.node # 0 => nodes'[T.node].key = T.key
               /\ \A n \in Linked(T.key)' : Made(n, t, T)' => n <= T.node
    <2>1. /\ T.node # 0 => nodes[T.node].key = T.key
          /\ T.key \in Keys
          /\ \A n \in Linked(T.key) : Made(n, t, T) => n <= T.node
      BY <1>7, <1>9 DEF TxOK
    <2>2. T.node # 0 => T.node \in 1 .. Len(nodes)
      BY <1>1, <1>2
    <2> QED BY <1>4, <2>1, <2>2 DEF Evolves, NodesKept
  <1> QED BY <1>5, <1>6, <1>7, <1>8, <1>9 DEF TxOK

--------------------------------------------------------------------------------
(* Steps that leave the store alone *)

LEMMA CountStays ==
  ASSUME CountInv, UNCHANGED <<entries, totalKeys, totalVersions>>, gc'.freed = gc.freed,
         \A k \in Keys : Linked(k)' = Linked(k)
  PROVE  CountInv'
  <1>1. {k \in Keys : entries'[k] # 0} = {k \in Keys : entries[k] # 0}
    OBVIOUS
  <1>2. UNION {Linked(k)' : k \in Keys} = UNION {Linked(k) : k \in Keys}
    OBVIOUS
  <1> QED BY <1>1, <1>2 DEF CountInv, AccountsBalance

LEMMA GCStays ==
  ASSUME GCInv, UNCHANGED <<store, gc>>, \A k \in Keys : Linked(k)' = Linked(k)
  PROVE  GCInv'
  <1>1. nodes' = nodes /\ heads' = heads /\ entries' = entries /\ gc' = gc
    BY DEF store
  <1>2. gc.pc = "visit" => gc.key \in Keys
    BY DEF GCInv
  <1>3. ASSUME gc.pc = "visit"
        PROVE  Linked(gc.key)' = Linked(gc.key)
    <2>1. PICK k \in Keys : k = gc.key
      BY <1>2, <1>3
    <2>2. Linked(k)' = Linked(k)
      BY <2>1
    <2> QED BY <1>1, <2>1, <2>2 DEF Linked
  <1> QED BY <1>1, <1>3 DEF GCInv

LEMMA TypesStay ==
  ASSUME UNCHANGED store
  PROVE  TxRec' = TxRec /\ ReaderRec' = ReaderRec /\ GCRec' = GCRec
  BY DEF store, TxRec, ReaderRec, GCRec, NodeIds, ChainIds

\* Where nobody but reader r moves, r to a record that the invariant allows.
LEMMA ReaderMoves ==
  ASSUME IInv, NEW r \in Readers, NEW R \in ReaderRec, WalkOK(R),
         UNCHANGED <<store, tx, gc>>, reader' = [reader EXCEPT ![r] = R]
  PROVE  IInv'
  <1>1. StoreFacts /\ ActorTypes /\ CountInv /\ GCInv /\ ActorFacts
    BY InvariantParts
  <1>2. /\ StoreFacts' /\ Evolves /\ LinkedFacts' /\ Len(nodes') = Len(nodes)
        /\ \A k \in Keys : Linked(k)' = Linked(k)
    BY <1>1, StoreStays
  <1>3. TxType /\ ReaderType /\ GCType /\ Shape
    BY <1>1 DEF ActorTypes, StoreFacts
  <1>4. reader' \in [Readers -> ReaderRec] /\ tx' = tx /\ gc' = gc /\ nodes' = nodes
    BY <1>3 DEF ReaderType, store
  <1>5. ActorTypes'
    BY <1>3, <1>4, TypesStay DEF ActorTypes, TxType, ReaderType, GCType
  <1>6. CountInv' /\ GCInv'
    <2>1. CountInv'
      BY <1>1, <1>2, CountStays DEF store
    <2>2. GCInv'
      BY <1>1, <1>2, GCStays
    <2> QED BY <2>1, <2>2
  <1>7. ASSUME NEW s \in Readers
        PROVE  WalkOK(reader[s])'
    <2>1. PICK S \in ReaderRec : S = reader'[s]
      BY <1>4
    <2>2. WalkOK(S)
      <3>1. CASE s = r
        BY <1>3, <2>1, <3>1 DEF ReaderType
      <3>2. CASE s # r
        BY <1>1, <1>3, <2>1, <3>2 DEF ReaderType, ActorFacts
      <3> QED BY <3>1, <3>2
    <2>3. WalkOK(S)'
      BY <1>2, <1>3, <2>2, ReaderFrame
    <2> QED BY <2>1, <2>3 DEF WalkOK, IsAfterAll, Seen, Returns, ChainOf, Linked
  <1>8. ASSUME NEW t \in Txs
        PROVE  TxOK(t, tx[t])'
    <2>1. PICK T \in TxRec : T = tx[t]
      BY <1>3 DEF TxType
    <2>2. TxOK(t, T)
      BY <1>1, <2>1 DEF ActorFacts
    <2>3. TxOK(t, T)'
      BY <1>2, <1>3, <1>4, <2>2, TxFrame
    <2> QED BY <1>4, <2>1, <2>3 DEF TxOK, Made, ChainOf, Linked
  <1>9. ActorFacts'
    BY <1>7, <1>8 DEF ActorFacts
  <1> QED BY <1>2, <1>5, <1>6, <1>9, InvariantParts, PTL

\* The same for a transaction.
LEMMA TxMoves ==
  ASSUME IInv, NEW t \in Txs, NEW T \in TxRec, TxOK(t, T),
         UNCHANGED <<store, reader, gc>>, tx' = [tx EXCEPT ![t] = T]
  PROVE  IInv'
  <1>1. StoreFacts /\ ActorTypes /\ CountInv /\ GCInv /\ ActorFacts
    BY InvariantParts
  <1>2. /\ StoreFacts' /\ Evolves /\ LinkedFacts' /\ Len(nodes') = Len(nodes)
        /\ \A k \in Keys : Linked(k)' = Linked(k)
    BY <1>1, StoreStays
  <1>3. TxType /\ ReaderType /\ GCType /\ Shape
    BY <1>1 DEF ActorTypes, StoreFacts
  <1>4. tx' \in [Txs -> TxRec] /\ reader' = reader /\ gc' = gc /\ nodes' = nodes
    BY <1>3 DEF TxType, store
  <1>5. ActorTypes'
    BY <1>3, <1>4, TypesStay DEF ActorTypes, TxType, ReaderType, GCType
  <1>6. CountInv' /\ GCInv'
    <2>1. CountInv'
      BY <1>1, <1>2, CountStays DEF store
    <2>2. GCInv'
      BY <1>1, <1>2, GCStays
    <2> QED BY <2>1, <2>2
  <1>7. ASSUME NEW s \in Readers
        PROVE  WalkOK(reader[s])'
    <2>1. PICK S \in ReaderRec : S = reader[s]
      BY <1>3 DEF ReaderType
    <2>2. WalkOK(S)
      BY <1>1, <2>1 DEF ActorFacts
    <2>3. WalkOK(S)'
      BY <1>2, <1>3, <2>2, ReaderFrame
    <2> QED BY <1>4, <2>1, <2>3 DEF WalkOK, IsAfterAll, Seen, Returns, ChainOf, Linked
  <1>8. ASSUME NEW u \in Txs
        PROVE  TxOK(u, tx[u])'
    <2>1. PICK U \in TxRec : U = tx'[u]
      BY <1>4
    <2>2. TxOK(u, U)
      <3>1. CASE u = t
        BY <1>3, <2>1, <3>1 DEF TxType
      <3>2. CASE u # t
        BY <1>1, <1>3, <2>1, <3>2 DEF TxType, ActorFacts
      <3> QED BY <3>1, <3>2
    <2>3. TxOK(u, U)'
      BY <1>2, <1>3, <1>4, <2>2, TxFrame
    <2> QED BY <2>1, <2>3 DEF TxOK, Made, ChainOf, Linked
  <1>9. ActorFacts'
    BY <1>7, <1>8 DEF ActorFacts
  <1> QED BY <1>2, <1>5, <1>6, <1>9, InvariantParts, PTL

\* The same for GC.
LEMMA GCMoves ==
  ASSUME IInv, UNCHANGED <<store, tx, reader>>, gc' \in GCRec, gc'.freed = gc.freed, GCInv'
  PROVE  IInv'
  <1>1. StoreFacts /\ ActorTypes /\ CountInv /\ GCInv /\ ActorFacts
    BY InvariantParts
  <1>2. /\ StoreFacts' /\ Evolves /\ LinkedFacts' /\ Len(nodes') = Len(nodes)
        /\ \A k \in Keys : Linked(k)' = Linked(k)
    BY <1>1, StoreStays
  <1>3. TxType /\ ReaderType /\ GCType /\ Shape
    BY <1>1 DEF ActorTypes, StoreFacts
  <1>4. reader' = reader /\ tx' = tx /\ nodes' = nodes
    BY DEF store
  <1>5. ActorTypes'
    BY <1>3, <1>4, TypesStay DEF ActorTypes, TxType, ReaderType, GCType
  <1>6. CountInv'
    BY <1>1, <1>2, CountStays DEF store
  <1>7. ASSUME NEW s \in Readers
        PROVE  WalkOK(reader[s])'
    <2>1. PICK S \in ReaderRec : S = reader[s]
      BY <1>3 DEF ReaderType
    <2>2. WalkOK(S)
      BY <1>1, <2>1 DEF ActorFacts
    <2>3. WalkOK(S)'
      BY <1>2, <1>3, <2>2, ReaderFrame
    <2> QED BY <1>4, <2>1, <2>3 DEF WalkOK, IsAfterAll, Seen, Returns, ChainOf, Linked
  <1>8. ASSUME NEW u \in Txs
        PROVE  TxOK(u, tx[u])'
    <2>1. PICK U \in TxRec : U = tx[u]
      BY <1>3 DEF TxType
    <2>2. TxOK(u, U)
      BY <1>1, <2>1 DEF ActorFacts
    <2>3. TxOK(u, U)'
      BY <1>2, <1>3, <1>4, <2>2, TxFrame
    <2> QED BY <1>4, <2>1, <2>3 DEF TxOK, Made, ChainOf, Linked
  <1>9. ActorFacts'
    BY <1>7, <1>8 DEF ActorFacts
  <1> QED BY <1>2, <1>5, <1>6, <1>9, InvariantParts, PTL

--------------------------------------------------------------------------------
(* Steps of transactions that leave the store alone *)

\* What is known before any step.
LEMMA Before ==
  ASSUME IInv
  PROVE  /\ Shape /\ NoGap /\ VersionInv /\ GCInv /\ LinkedFacts /\ LinksInv /\ StoreType
         /\ tx \in [Txs -> TxRec] /\ reader \in [Readers -> ReaderRec] /\ gc \in GCRec
         /\ entries \in [Keys -> ChainIds]
         /\ \A t \in Txs : TxOK(t, tx[t])
         /\ \A r \in Readers : WalkOK(reader[r])
         /\ Len(nodes) \in Nat /\ Len(heads) \in Nat
         /\ NodeIds = 0 .. Len(nodes) /\ ChainIds = 0 .. Len(heads)
         /\ \A c \in 1 .. Len(heads) : heads[c] \in NodeIds
         /\ \A n \in 1 .. Len(nodes) :
              /\ nodes[n].key \in Keys /\ nodes[n].tx \in Txs /\ nodes[n].inc \in Nat
              /\ nodes[n].status \in Statuses /\ nodes[n].next \in NodeIds
  <1>1. StoreFacts /\ ActorTypes /\ CountInv /\ GCInv /\ ActorFacts
    BY InvariantParts
  <1>2. Shape /\ NoGap /\ VersionInv /\ StoreType /\ LinksInv
    BY <1>1 DEF StoreFacts, Shape
  <1>3. /\ tx \in [Txs -> TxRec] /\ reader \in [Readers -> ReaderRec] /\ gc \in GCRec
        /\ \A t \in Txs : TxOK(t, tx[t])
        /\ \A r \in Readers : WalkOK(reader[r])
    BY <1>1 DEF ActorTypes, TxType, ReaderType, GCType, ActorFacts
  <1>4. LinkedFacts
    BY <1>2, ShapeMakesLinked
  <1>5. entries \in [Keys -> ChainIds]
    BY <1>2 DEF StoreType
  <1>6. \A c \in 1 .. Len(heads) : heads[c] \in NodeIds
    BY <1>2, StoreTypeFacts
  <1> QED BY <1>1, <1>2, <1>3, <1>4, <1>5, <1>6, StoreTypeFacts

LEMMA ReexecuteStep ==
  ASSUME IInv, NEW t \in Txs, Reexecute(t)
  PROVE  IInv'
  <1>1. tx \in [Txs -> TxRec] /\ TxOK(t, tx[t]) /\ Len(nodes) \in Nat
          /\ \A n \in 1 .. Len(nodes) : nodes[n].inc \in Nat
    BY Before
  <1>2. PICK Q \in TxRec : Q = tx[t]
    BY <1>1
  <1>3. PICK T : T = [Q EXCEPT !.inc = Q.inc + 1, !.writes = {}]
    OBVIOUS
  <1>4. /\ Q.pc = "execute" /\ tx' = [tx EXCEPT ![t] = T]
        /\ UNCHANGED <<store, reader, gc>>
    BY <1>1, <1>2, <1>3 DEF Reexecute
  <1>5. T \in TxRec /\ T.inc = Q.inc + 1 /\ T.writes = {} /\ T.pc = "execute"
    <2>1. Q.inc + 1 \in Nat
      BY DEF TxRec
    <2> QED BY <1>3, <1>4, <2>1 DEF TxRec
  <1>6. TxOK(t, T)
    <2>1. \A n \in 1 .. Len(nodes) : nodes[n].tx = t =>
            nodes[n].inc <= Q.inc /\ nodes[n].status # "committed"
      BY <1>1, <1>2, <1>4 DEF TxOK
    <2>2. Q.inc \in Nat
      BY DEF TxRec
    <2>3. \A n \in 1 .. Len(nodes) : nodes[n].tx = t =>
            nodes[n].inc <= T.inc /\ nodes[n].inc # T.inc /\ nodes[n].status # "committed"
      BY <1>1, <1>5, <2>1, <2>2
    <2> QED BY <1>5, <2>3 DEF TxOK
  <1> QED BY <1>4, <1>5, <1>6, TxMoves

LEMMA CommitBegins ==
  ASSUME IInv, NEW t \in Txs, Commit(t)
  PROVE  IInv'
  <1>1. /\ tx \in [Txs -> TxRec] /\ TxOK(t, tx[t]) /\ LinkedFacts
    BY Before
  <1>2. PICK Q \in TxRec : Q = tx[t]
    BY <1>1
  <1>3. PICK T : T = [Q EXCEPT !.pc = "commit", !.left = Q.writes]
    OBVIOUS
  <1>4. /\ Q.pc = "execute" /\ tx' = [tx EXCEPT ![t] = T]
        /\ UNCHANGED <<store, reader, gc>>
    BY <1>1, <1>2, <1>3 DEF Commit
  <1>5. T \in TxRec /\ T.inc = Q.inc /\ T.writes = Q.writes /\ T.left = Q.writes /\ T.pc = "commit"
    BY <1>3, <1>4 DEF TxRec
  <1>6. \A n \in 1 .. Len(nodes) : nodes[n].tx = t =>
          /\ nodes[n].inc <= Q.inc /\ nodes[n].status # "committed"
          /\ nodes[n].inc = Q.inc => nodes[n].key \in Q.writes
    BY <1>1, <1>2, <1>4 DEF TxOK
  <1>7. TxOK(t, T)
    <2>1. ASSUME NEW k \in Keys \ T.left, NEW n \in Linked(k)
          PROVE  ~ Made(n, t, T)
      <3>1. n \in 1 .. Len(nodes) /\ nodes[n].key = k
        BY <1>1 DEF LinkedFacts, LinkedOf
      <3> QED BY <1>5, <1>6, <3>1 DEF Made
    <2> QED BY <1>5, <1>6, <2>1 DEF TxOK
  <1> QED BY <1>4, <1>5, <1>7, TxMoves

LEMMA CommitLookupStep ==
  ASSUME IInv, NEW t \in Txs, NEW k \in Keys, CommitLookup(t, k)
  PROVE  IInv'
  <1>1. /\ tx \in [Txs -> TxRec] /\ TxOK(t, tx[t]) /\ LinkedFacts /\ LinksInv
        /\ entries \in [Keys -> ChainIds]
    BY Before
  <1>2. PICK Q \in TxRec : Q = tx[t]
    BY <1>1
  <1>3. Q.pc = "commit" /\ k \in Q.left /\ UNCHANGED <<store, reader, gc>>
    BY <1>2 DEF CommitLookup
  <1>4. CASE entries[k] = 0
    <2>1. PICK T : T = [Q EXCEPT !.left = Q.left \ {k}]
      OBVIOUS
    <2>2. tx' = [tx EXCEPT ![t] = T]
      BY <1>1, <1>2, <1>4, <2>1 DEF CommitLookup
    <2>3. T \in TxRec /\ T.inc = Q.inc /\ T.writes = Q.writes /\ T.left = Q.left \ {k} /\ T.pc = "commit"
      BY <1>3, <2>1 DEF TxRec
    <2>4. Linked(k) = {}
      BY <1>1, <1>4 DEF LinkedFacts, LinkedOf
    <2>5. TxOK(t, Q)
      BY <1>1, <1>2
    <2>6. TxOK(t, T)
      BY <1>3, <2>3, <2>4, <2>5 DEF TxOK, Made
    <2> QED BY <1>3, <2>2, <2>3, <2>6, TxMoves
  <1>5. CASE entries[k] # 0
    <2>1. PICK T : T = [Q EXCEPT !.pc = "head", !.key = k, !.chain = entries[k]]
      OBVIOUS
    <2>2. tx' = [tx EXCEPT ![t] = T]
      BY <1>1, <1>2, <1>5, <2>1 DEF CommitLookup
    <2>3. /\ T \in TxRec /\ T.inc = Q.inc /\ T.writes = Q.writes /\ T.left = Q.left
          /\ T.pc = "head" /\ T.key = k /\ T.chain = entries[k]
      BY <1>1, <2>1 DEF TxRec
    <2>4. ChainOf(T.chain, T.key)
      BY <1>1, <1>5, <2>3 DEF ChainOf, LinksInv
    <2>5. TxOK(t, Q)
      BY <1>1, <1>2
    <2>6. TxOK(t, T)
      BY <1>3, <2>3, <2>4, <2>5 DEF TxOK, Made
    <2> QED BY <1>3, <2>2, <2>3, <2>6, TxMoves
  <1> QED BY <1>4, <1>5

LEMMA CommitHeadStep ==
  ASSUME IInv, NEW t \in Txs, CommitHead(t)
  PROVE  IInv'
  <1>1. /\ tx \in [Txs -> TxRec] /\ TxOK(t, tx[t]) /\ LinkedFacts /\ LinksInv
        /\ entries \in [Keys -> ChainIds] /\ ChainIds = 0 .. Len(heads)
        /\ \A c \in 1 .. Len(heads) : heads[c] \in NodeIds
    BY Before
  <1>2. PICK Q \in TxRec : Q = tx[t]
    BY <1>1
  <1>3. PICK h : h = heads[Q.chain]
    OBVIOUS
  <1>4. PICK T : T = [Q EXCEPT !.pc = "mark", !.node = h]
    OBVIOUS
  <1>5. Q.pc = "head" /\ UNCHANGED <<store, reader, gc>> /\ tx' = [tx EXCEPT ![t] = T]
    BY <1>1, <1>2, <1>3, <1>4 DEF CommitHead
  <1>6. TxOK(t, Q)
    BY <1>1, <1>2
  <1>7. /\ Q.key \in Keys /\ ChainOf(Q.chain, Q.key)
        /\ \A n \in Linked(Q.key) : Made(n, t, Q) => entries[Q.key] = Q.chain
    BY <1>5, <1>6 DEF TxOK
  <1>8. h \in NodeIds
    BY <1>1, <1>3, <1>7 DEF TxRec, ChainOf
  <1>9. /\ T \in TxRec /\ T.inc = Q.inc /\ T.writes = Q.writes /\ T.left = Q.left
        /\ T.pc = "mark" /\ T.key = Q.key /\ T.node = h
    BY <1>4, <1>8 DEF TxRec
  <1>10. h # 0 => nodes[h].key = Q.key
    BY <1>1, <1>3, <1>7 DEF ChainOf, LinksInv
  <1>11. ASSUME NEW n \in Linked(Q.key), Made(n, t, Q)
         PROVE  n <= h
    <2>1. entries[Q.key] = Q.chain /\ Q.chain # 0
      BY <1>7, <1>11 DEF ChainOf
    <2>2. LinkedOf(Q.key)
      BY <1>1, <1>7 DEF LinkedFacts
    <2> QED BY <1>3, <1>11, <2>1, <2>2 DEF LinkedOf
  <1>12. TxOK(t, T)
    BY <1>5, <1>6, <1>7, <1>9, <1>10, <1>11 DEF TxOK, Made
  <1> QED BY <1>5, <1>9, <1>12, TxMoves

LEMMA MarkNextStep ==
  ASSUME IInv, NEW t \in Txs, MarkNext(t)
  PROVE  IInv'
  <1>1. /\ tx \in [Txs -> TxRec] /\ TxOK(t, tx[t]) /\ LinkedFacts /\ LinksInv /\ NoGap
        /\ Len(nodes) \in Nat /\ NodeIds = 0 .. Len(nodes)
        /\ \A n \in 1 .. Len(nodes) : nodes[n].next \in NodeIds
    BY Before
  <1>2. PICK Q \in TxRec : Q = tx[t]
    BY <1>1
  <1>3. PICK h : h = nodes[Q.node].next
    OBVIOUS
  <1>4. PICK T : T = [Q EXCEPT !.node = h]
    OBVIOUS
  <1>5. /\ Q.pc = "mark" /\ Q.node # 0 /\ ~ Made(Q.node, t, Q)
        /\ UNCHANGED <<store, reader, gc>> /\ tx' = [tx EXCEPT ![t] = T]
    BY <1>1, <1>2, <1>3, <1>4 DEF MarkNext, Made, IsVersion
  <1>6. TxOK(t, Q)
    BY <1>1, <1>2
  <1>7. /\ Q.key \in Keys /\ nodes[Q.node].key = Q.key
        /\ \A n \in Linked(Q.key) : Made(n, t, Q) => n <= Q.node
    BY <1>5, <1>6 DEF TxOK
  <1>8. Q.node \in 1 .. Len(nodes) /\ h \in NodeIds
    BY <1>1, <1>3, <1>5 DEF TxRec
  <1>9. /\ T \in TxRec /\ T.inc = Q.inc /\ T.writes = Q.writes /\ T.left = Q.left
        /\ T.pc = "mark" /\ T.key = Q.key /\ T.node = h
    BY <1>4, <1>5, <1>8 DEF TxRec
  <1>10. h # 0 => nodes[h].key = Q.key
    BY <1>1, <1>3, <1>7, <1>8 DEF LinksInv
  <1>11. ASSUME NEW n \in Linked(Q.key), Made(n, t, Q)
         PROVE  n <= h
    <2>1. n <= Q.node /\ n # Q.node
      BY <1>5, <1>7, <1>11
    <2>2. n \in 1 .. Len(nodes)
      BY <1>1, <1>7 DEF LinkedFacts, LinkedOf
    <2>3. n < Q.node
      BY <1>1, <1>8, <2>1, <2>2
    <2> QED BY <1>1, <1>3, <1>7, <1>8, <2>3 DEF NoGap
  <1>12. TxOK(t, T)
    BY <1>5, <1>6, <1>7, <1>9, <1>10, <1>11 DEF TxOK, Made
  <1> QED BY <1>5, <1>9, <1>12, TxMoves

LEMMA MarkNothingStep ==
  ASSUME IInv, NEW t \in Txs, MarkNothing(t)
  PROVE  IInv'
  <1>1. /\ tx \in [Txs -> TxRec] /\ TxOK(t, tx[t]) /\ LinkedFacts
        /\ NodeIds = 0 .. Len(nodes) /\ ChainIds = 0 .. Len(heads)
        /\ Len(nodes) \in Nat /\ Len(heads) \in Nat
    BY Before
  <1>2. PICK Q \in TxRec : Q = tx[t]
    BY <1>1
  <1>3. PICK T : T = [Q EXCEPT !.pc = "commit", !.left = Q.left \ {Q.key},
                               !.key = NoKey, !.chain = 0, !.node = 0]
    OBVIOUS
  <1>4. /\ Q.pc = "mark" /\ Q.node = 0
        /\ UNCHANGED <<store, reader, gc>> /\ tx' = [tx EXCEPT ![t] = T]
    BY <1>1, <1>2, <1>3 DEF MarkNothing, Marked
  <1>5. TxOK(t, Q)
    BY <1>1, <1>2
  <1>6. /\ T \in TxRec /\ T.inc = Q.inc /\ T.writes = Q.writes /\ T.left = Q.left \ {Q.key}
        /\ T.pc = "commit"
    <2>1. 0 \in NodeIds /\ 0 \in ChainIds
      BY <1>1
    <2>2. Q.left \ {Q.key} \in SUBSET Keys
      BY DEF TxRec
    <2>3. T \in TxRec
      BY <1>3, <2>1, <2>2 DEF TxRec
    <2> QED BY <1>3, <2>3 DEF TxRec
  <1>7. \A n \in Linked(Q.key) : ~ Made(n, t, Q)
    <2>1. \A n \in Linked(Q.key) : Made(n, t, Q) => n <= 0
      BY <1>4, <1>5 DEF TxOK
    <2>2. Q.key \in Keys
      BY <1>4, <1>5 DEF TxOK
    <2>3. Linked(Q.key) \subseteq 1 .. Len(nodes)
      BY <1>1, <2>2 DEF LinkedFacts, LinkedOf
    <2> QED BY <1>1, <2>1, <2>3
  <1>8. TxOK(t, T)
    BY <1>4, <1>5, <1>6, <1>7 DEF TxOK, Made
  <1> QED BY <1>4, <1>6, <1>8, TxMoves

LEMMA CommitReturnStep ==
  ASSUME IInv, NEW t \in Txs, CommitReturn(t)
  PROVE  IInv'
  <1>1. tx \in [Txs -> TxRec] /\ TxOK(t, tx[t])
    BY Before
  <1>2. PICK Q \in TxRec : Q = tx[t]
    BY <1>1
  <1>3. PICK T : T = [Q EXCEPT !.pc = "committed"]
    OBVIOUS
  <1>4. /\ Q.pc = "commit" /\ Q.left = {}
        /\ UNCHANGED <<store, reader, gc>> /\ tx' = [tx EXCEPT ![t] = T]
    BY <1>1, <1>2, <1>3 DEF CommitReturn
  <1>5. /\ T \in TxRec /\ T.inc = Q.inc /\ T.writes = Q.writes /\ T.left = Q.left
        /\ T.pc = "committed"
    BY <1>3 DEF TxRec
  <1>6. TxOK(t, Q)
    BY <1>1, <1>2
  <1>7. TxOK(t, T)
    BY <1>4, <1>5, <1>6 DEF TxOK, Made
  <1> QED BY <1>4, <1>5, <1>7, TxMoves

--------------------------------------------------------------------------------
(* Steps of readers *)

LEMMA ReadStarts ==
  ASSUME IInv, NEW r \in Readers, NEW k \in Keys, NEW a \in ReadAt, Read(r, k, a)
  PROVE  IInv'
  <1>1. 0 \in NodeIds /\ 0 \in ChainIds
    BY Before
  <1>2. PICK R : R = [IdleReader EXCEPT !.pc = "lookup", !.key = k, !.at = a]
    OBVIOUS
  <1>3. UNCHANGED <<store, tx, gc>> /\ reader' = [reader EXCEPT ![r] = R]
    BY <1>2 DEF Read
  <1>4. R.pc = "lookup" /\ R.phase = 1 /\ R.key = k
    BY <1>2 DEF IdleReader
  <1>5. NotFound \in ResultType
    BY DEF NotFound, ResultType
  <1>6. R \in ReaderRec
    BY <1>1, <1>2, <1>5 DEF IdleReader, ReaderRec
  <1>7. WalkOK(R)
    BY <1>4 DEF WalkOK
  <1> QED BY <1>3, <1>6, <1>7, ReaderMoves

LEMMA ValidateStarts ==
  ASSUME IInv, NEW r \in Readers, Validate(r)
  PROVE  IInv'
  <1>1. /\ 0 \in NodeIds /\ 0 \in ChainIds
        /\ reader \in [Readers -> ReaderRec] /\ WalkOK(reader[r])
    BY Before
  <1>2. PICK Q \in ReaderRec : Q = reader[r]
    BY <1>1
  <1>3. PICK R : R = [Q EXCEPT !.pc = "lookup", !.phase = 2, !.chain = 0, !.start = 0, !.node = 0]
    OBVIOUS
  <1>4. /\ Q.pc = "read" /\ UNCHANGED <<store, tx, gc>>
        /\ reader' = [reader EXCEPT ![r] = R]
    BY <1>1, <1>2, <1>3 DEF Validate
  <1>5. R \in ReaderRec
    BY <1>1, <1>3 DEF ReaderRec
  <1>6. R.pc = "lookup" /\ R.key = Q.key /\ R.first = Q.first
    BY <1>3 DEF ReaderRec
  <1>7. WalkOK(Q)
    BY <1>1, <1>2
  <1>8. WalkOK(R)
    BY <1>4, <1>6, <1>7 DEF WalkOK
  <1> QED BY <1>4, <1>5, <1>8, ReaderMoves

LEMMA ReadHeadStep ==
  ASSUME IInv, NEW r \in Readers, ReadHead(r)
  PROVE  IInv'
  <1>1. /\ reader \in [Readers -> ReaderRec] /\ WalkOK(reader[r]) /\ LinkedFacts /\ LinksInv
        /\ ChainIds = 0 .. Len(heads) /\ Len(nodes) \in Nat
        /\ \A c \in 1 .. Len(heads) : heads[c] \in NodeIds
    BY Before
  <1>2. PICK Q \in ReaderRec : Q = reader[r]
    BY <1>1
  <1>3. PICK h : h = heads[Q.chain]
    OBVIOUS
  <1>4. PICK R : R = [Q EXCEPT !.pc = "visit", !.start = h, !.node = h]
    OBVIOUS
  <1>5. /\ Q.pc = "head" /\ UNCHANGED <<store, tx, gc>>
        /\ reader' = [reader EXCEPT ![r] = R]
    BY <1>1, <1>2, <1>3, <1>4 DEF ReadHead
  <1>6. WalkOK(Q)
    BY <1>1, <1>2
  <1>7. Q.key \in Keys /\ ChainOf(Q.chain, Q.key)
    BY <1>5, <1>6 DEF WalkOK
  <1>8. h \in NodeIds
    BY <1>1, <1>3, <1>7 DEF ReaderRec, ChainOf
  <1>9. R \in ReaderRec
    BY <1>4, <1>8 DEF ReaderRec
  <1>10. /\ R.pc = "visit" /\ R.start = h /\ R.node = h /\ R.key = Q.key
         /\ R.first = Q.first /\ R.phase = Q.phase
    BY <1>4 DEF ReaderRec
  <1>11. h # 0 => nodes[h].key = Q.key
    BY <1>1, <1>3, <1>7 DEF ChainOf, LinksInv
  <1>12. \A n \in Seen(R) : n <= R.node
    BY <1>10 DEF Seen
  <1>13. WalkOK(R)
    BY <1>5, <1>6, <1>7, <1>10, <1>11, <1>12 DEF WalkOK
  <1> QED BY <1>5, <1>9, <1>13, ReaderMoves

LEMMA FindNextStep ==
  ASSUME IInv, NEW r \in Readers, FindNext(r)
  PROVE  IInv'
  <1>1. /\ reader \in [Readers -> ReaderRec] /\ WalkOK(reader[r]) /\ LinkedFacts /\ LinksInv
        /\ NoGap /\ Len(nodes) \in Nat /\ NodeIds = 0 .. Len(nodes)
        /\ \A n \in 1 .. Len(nodes) : nodes[n].next \in NodeIds /\ nodes[n].tx \in Txs
    BY Before
  <1>2. PICK Q \in ReaderRec : Q = reader[r]
    BY <1>1
  <1>3. PICK h : h = nodes[Q.node].next
    OBVIOUS
  <1>4. PICK R : R = [Q EXCEPT !.node = h]
    OBVIOUS
  <1>5. /\ Q.pc = "visit" /\ Q.node # 0 /\ nodes[Q.node].tx >= Q.at
        /\ UNCHANGED <<store, tx, gc>>
        /\ reader' = [reader EXCEPT ![r] = R]
    BY <1>1, <1>2, <1>3, <1>4 DEF FindNext
  <1>6. WalkOK(Q)
    BY <1>1, <1>2
  <1>7. /\ Q.key \in Keys /\ nodes[Q.node].key = Q.key
        /\ \A n \in Seen(Q) : n <= Q.node
    BY <1>5, <1>6 DEF WalkOK
  <1>8. Q.node \in 1 .. Len(nodes) /\ h \in NodeIds
    BY <1>1, <1>3, <1>5 DEF ReaderRec
  <1>9. R \in ReaderRec
    BY <1>4, <1>8 DEF ReaderRec
  <1>10. /\ R.pc = "visit" /\ R.start = Q.start /\ R.node = h /\ R.key = Q.key /\ R.at = Q.at
         /\ R.first = Q.first /\ R.phase = Q.phase
    BY <1>4, <1>5 DEF ReaderRec
  <1>11. h # 0 => nodes[h].key = Q.key
    BY <1>1, <1>3, <1>7, <1>8 DEF LinksInv
  <1>12. ASSUME NEW n \in Seen(R)
         PROVE  n <= h
    <2>1. n \in Linked(Q.key) /\ n \in Seen(Q) /\ nodes[n].tx < Q.at
      BY <1>10 DEF Seen
    <2>2. n \in 1 .. Len(nodes)
      BY <1>1, <1>7, <2>1 DEF LinkedFacts, LinkedOf
    <2>3. nodes[n].tx \in Nat /\ nodes[Q.node].tx \in Nat /\ Q.at \in Nat
      <3>1. nodes[n].tx \in Txs /\ nodes[Q.node].tx \in Txs
        BY <1>1, <1>8, <2>2
      <3>2. Q.at \in ReadAt \cup {0}
        BY DEF ReaderRec
      <3>3. Txs \subseteq Nat /\ ReadAt \cup {0} \subseteq Nat
        BY TxsAssumption
      <3> QED BY <3>1, <3>2, <3>3
    <2>4. n # Q.node
      BY <1>5, <2>1, <2>3
    <2>5. n < Q.node
      BY <1>7, <1>8, <2>1, <2>2, <2>4
    <2> QED BY <1>1, <1>3, <1>7, <1>8, <2>1, <2>5 DEF NoGap
  <1>13. WalkOK(R)
    BY <1>5, <1>6, <1>7, <1>10, <1>11, <1>12 DEF WalkOK
  <1> QED BY <1>5, <1>9, <1>13, ReaderMoves

LEMMA FinishStep ==
  ASSUME IInv, NEW r \in Readers, Finish(r)
  PROVE  IInv'
  <1>1. 0 \in NodeIds /\ 0 \in ChainIds
    BY Before
  <1>2. UNCHANGED <<store, tx, gc>> /\ reader' = [reader EXCEPT ![r] = IdleReader]
    BY DEF Finish
  <1>3. NotFound \in ResultType
    BY DEF NotFound, ResultType
  <1>4. IdleReader \in ReaderRec
    BY <1>1, <1>3 DEF IdleReader, ReaderRec
  <1>5. WalkOK(IdleReader)
    BY DEF WalkOK, IdleReader
  <1>6. PICK R \in ReaderRec : R = IdleReader
    BY <1>4
  <1> QED BY <1>2, <1>5, <1>6, ReaderMoves

\* A Read returns result v, which is that of the version the walk has come to.
LEMMA ReturnStep ==
  ASSUME IInv, NEW r \in Readers, NEW Q \in ReaderRec, Q = reader[r], Q.key \in Keys,
         NEW v \in ResultType, Return(r, v), UNCHANGED <<store, tx, gc>>,
         v.status = "found" => \E m \in 1 .. Len(nodes) :
           Returns(m, v) /\ nodes[m].key = Q.key /\ nodes[m].status = "committed",
         Q.phase = 1 => \A n \in Seen(Q) : \E m \in NodeIds \ {0} : n <= m /\ Returns(m, v),
         Q.phase = 2 /\ Q.first.status = "found" /\ IsReadValid(Q.first, v) => IsAfterAll(Q)
  PROVE  IInv'
  <1>1. reader \in [Readers -> ReaderRec] /\ WalkOK(Q)
    BY Before
  <1>2. Q.phase \in {1, 2}
    BY DEF ReaderRec
  <1>3. CASE Q.phase = 1
    <2>1. PICK R : R = [Q EXCEPT !.pc = "read", !.first = v]
      OBVIOUS
    <2>2. reader' = [reader EXCEPT ![r] = R]
      BY <1>1, <1>3, <2>1 DEF Return
    <2>3. R \in ReaderRec
      BY <2>1 DEF ReaderRec
    <2>4. /\ R.pc = "read" /\ R.first = v /\ R.key = Q.key /\ R.start = Q.start /\ R.at = Q.at
      BY <2>1 DEF ReaderRec
    <2>5. IsAfterAll(R)
      BY <1>3, <2>4 DEF IsAfterAll, Seen
    <2>6. WalkOK(R)
      BY <2>4, <2>5 DEF WalkOK
    <2> QED BY <2>2, <2>3, <2>6, ReaderMoves
  <1>4. CASE Q.phase = 2
    <2>1. PICK b : b = IsReadValid(Q.first, v)
      OBVIOUS
    <2>2. b \in BOOLEAN /\ (b <=> IsReadValid(Q.first, v))
      BY <2>1, Zenon DEF IsReadValid
    <2>3. PICK R : R = [Q EXCEPT !.pc = "validated", !.second = v, !.valid = b]
      OBVIOUS
    <2>4. reader' = [reader EXCEPT ![r] = R]
      <3>1. Q.phase # 1
        BY <1>4
      <3>2. reader' = [reader EXCEPT ![r].pc = "validated", ![r].second = v,
                                     ![r].valid = IsReadValid(reader[r].first, v)]
        BY <3>1, Zenon DEF Return
      <3>3. reader' = [reader EXCEPT ![r].pc = "validated", ![r].second = v, ![r].valid = b]
        BY <2>1, <3>2, Zenon
      <3> QED BY <1>1, <2>3, <3>3
    <2>5. R \in ReaderRec
      BY <2>2, <2>3 DEF ReaderRec
    <2>6. /\ R.pc = "validated" /\ R.first = Q.first /\ R.key = Q.key /\ R.start = Q.start
          /\ R.at = Q.at /\ R.phase = Q.phase
      BY <2>3 DEF ReaderRec
    <2>7. R.valid = b
      BY <2>3 DEF ReaderRec
    <2>8. R.valid /\ R.first.status = "found" => IsAfterAll(R)
      <3>1. R.valid => IsReadValid(Q.first, v)
        BY <2>2, <2>7, Zenon
      <3>2. IsAfterAll(Q) => IsAfterAll(R)
        BY <2>6 DEF IsAfterAll, Seen
      <3>3. R.first.status = "found" => Q.first.status = "found"
        BY <2>6
      <3> QED BY <1>4, <3>1, <3>2, <3>3
    <2>9. WalkOK(R)
      BY <1>1, <1>4, <2>6, <2>8 DEF WalkOK
    <2> QED BY <2>4, <2>5, <2>9, ReaderMoves
  <1> QED BY <1>2, <1>3, <1>4

LEMMA FindNothingStep ==
  ASSUME IInv, NEW r \in Readers, FindNothing(r)
  PROVE  IInv'
  <1>1. /\ reader \in [Readers -> ReaderRec] /\ WalkOK(reader[r]) /\ LinkedFacts
        /\ Len(nodes) \in Nat
    BY Before
  <1>2. PICK Q \in ReaderRec : Q = reader[r]
    BY <1>1
  <1>3. /\ Q.pc = "visit" /\ Q.node = 0 /\ Return(r, NotFound)
        /\ UNCHANGED <<store, tx, gc>>
    BY <1>2 DEF FindNothing
  <1>4. WalkOK(Q)
    BY <1>1, <1>2
  <1>5. Q.key \in Keys /\ \A n \in Seen(Q) : n <= 0
    BY <1>3, <1>4 DEF WalkOK
  <1>6. Seen(Q) = {}
    <2>1. Linked(Q.key) \subseteq 1 .. Len(nodes)
      BY <1>1, <1>5 DEF LinkedFacts, LinkedOf
    <2> QED BY <1>1, <1>5, <2>1 DEF Seen
  <1>7. PICK v \in ResultType : v = NotFound
    BY DEF NotFound, ResultType
  <1>8. v.status = "notFound" /\ Return(r, v)
    BY <1>3, <1>7 DEF NotFound
  <1>9. IsAfterAll(Q)
    BY <1>6 DEF IsAfterAll
  <1> QED BY <1>2, <1>3, <1>5, <1>6, <1>8, <1>9, ReturnStep

LEMMA ReadLookupStep ==
  ASSUME IInv, NEW r \in Readers, ReadLookup(r)
  PROVE  IInv'
  <1>1. /\ reader \in [Readers -> ReaderRec] /\ WalkOK(reader[r]) /\ LinkedFacts /\ LinksInv
        /\ entries \in [Keys -> ChainIds]
    BY Before
  <1>2. PICK Q \in ReaderRec : Q = reader[r]
    BY <1>1
  <1>3. /\ Q.pc = "lookup" /\ UNCHANGED <<store, tx, gc>>
    BY <1>2 DEF ReadLookup
  <1>4. WalkOK(Q)
    BY <1>1, <1>2
  <1>5. Q.key \in Keys
    BY <1>3, <1>4 DEF WalkOK
  <1>6. CASE entries[Q.key] = 0
    <2>1. Seen(Q) = {}
      BY <1>1, <1>5, <1>6 DEF LinkedFacts, LinkedOf, Seen
    <2>2. PICK v \in ResultType : v = NotFound
      BY DEF NotFound, ResultType
    <2>3. v.status = "notFound" /\ Return(r, v)
      BY <1>2, <1>6, <2>2 DEF NotFound, ReadLookup
    <2>4. IsAfterAll(Q)
      BY <2>1 DEF IsAfterAll
    <2> QED BY <1>2, <1>3, <1>5, <2>1, <2>3, <2>4, ReturnStep
  <1>7. CASE entries[Q.key] # 0
    <2>1. PICK R : R = [Q EXCEPT !.pc = "head", !.chain = entries[Q.key]]
      OBVIOUS
    <2>2. reader' = [reader EXCEPT ![r] = R]
      BY <1>1, <1>2, <1>7, <2>1 DEF ReadLookup
    <2>3. R \in ReaderRec
      BY <1>1, <1>5, <2>1 DEF ReaderRec
    <2>4. /\ R.pc = "head" /\ R.chain = entries[Q.key] /\ R.key = Q.key
          /\ R.first = Q.first /\ R.phase = Q.phase
      BY <2>1 DEF ReaderRec
    <2>5. ChainOf(R.chain, R.key)
      BY <1>1, <1>5, <1>7, <2>4 DEF ChainOf, LinksInv
    <2>6. WalkOK(R)
      BY <1>3, <1>4, <1>5, <2>4, <2>5 DEF WalkOK
    <2> QED BY <1>3, <2>2, <2>3, <2>6, ReaderMoves
  <1> QED BY <1>6, <1>7

LEMMA FindVersionStep ==
  ASSUME IInv, NEW r \in Readers, FindVersion(r)
  PROVE  IInv'
  <1>1. /\ reader \in [Readers -> ReaderRec] /\ WalkOK(reader[r]) /\ LinkedFacts /\ VersionInv
        /\ Len(nodes) \in Nat /\ NodeIds = 0 .. Len(nodes)
        /\ \A t \in Txs : TxOK(t, tx[t])
        /\ \A n \in 1 .. Len(nodes) :
             /\ nodes[n].key \in Keys /\ nodes[n].tx \in Txs /\ nodes[n].inc \in Nat
    BY Before
  <1>2. PICK Q \in ReaderRec : Q = reader[r]
    BY <1>1
  <1>3. PICK n : n = Q.node
    OBVIOUS
  <1>4. /\ Q.pc = "visit" /\ n # 0 /\ Return(r, Result(n)) /\ UNCHANGED <<store, tx, gc>>
    BY <1>2, <1>3 DEF FindVersion
  <1>5. WalkOK(Q)
    BY <1>1, <1>2
  <1>6. Q.key \in Keys /\ nodes[n].key = Q.key /\ \A m \in Seen(Q) : m <= n
    BY <1>3, <1>4, <1>5 DEF WalkOK
  <1>7. n \in 1 .. Len(nodes)
    BY <1>1, <1>3, <1>4 DEF ReaderRec
  <1>8. PICK v : v = Result(n)
    OBVIOUS
  <1>9. /\ v.key = nodes[n].key /\ v.tx = nodes[n].tx /\ v.inc = nodes[n].inc
        /\ v.status = IF nodes[n].status = "committed" THEN "found" ELSE "estimate"
    BY <1>8 DEF Result
  <1>10. v \in ResultType
    <2>1. nodes[n].key \in Keys /\ nodes[n].tx \in Nat /\ nodes[n].inc \in Nat
      BY <1>1, <1>7, TxsAssumption
    <2> QED BY <1>8, <2>1 DEF Result, ResultType
  <1>11. Returns(n, v)
    BY <1>9 DEF Returns
  <1>12. v.status = "found" => nodes[n].status = "committed"
    BY <1>9
  <1>13. n \in NodeIds \ {0}
    BY <1>1, <1>7
  <1>14. ASSUME Q.phase = 2, Q.first.status = "found", IsReadValid(Q.first, v)
         PROVE  IsAfterAll(Q)
    <2>1. PICK m \in 1 .. Len(nodes) :
            /\ Returns(m, Q.first)
            /\ nodes[m].key = Q.key /\ nodes[m].status = "committed"
      BY <1>5, <1>14 DEF WalkOK
    <2>2. /\ nodes[m].tx = Q.first.tx /\ nodes[m].inc = Q.first.inc /\ Q.first.key = Q.key
      BY <2>1 DEF Returns
    <2>3. CASE v.status = "found"
      <3>1. Q.first.tx = v.tx /\ Q.first.inc = v.inc
        BY <1>14, <2>3 DEF IsReadValid
      <3>2. Returns(n, Q.first)
        BY <1>6, <1>9, <2>2, <3>1 DEF Returns
      <3> QED BY <1>6, <1>13, <3>2 DEF IsAfterAll
    <2>4. CASE v.status = "estimate"
      <3>1. nodes[n].tx = nodes[m].tx
        BY <1>9, <1>14, <2>2, <2>4 DEF IsReadValid
      <3>2. n <= m
        <4> SUFFICES ASSUME m < n
                     PROVE  FALSE
          BY <1>7
        <4>1. nodes[m].inc < nodes[n].inc
          BY <1>1, <1>6, <1>7, <2>1, <3>1 DEF VersionInv
        <4>2. PICK t \in Txs : t = nodes[n].tx
          BY <1>1, <1>7
        <4>3. TxOK(t, tx[t])
          BY <1>1
        <4>4. nodes[m].inc = tx[t].inc /\ nodes[n].inc <= tx[t].inc
          BY <1>7, <2>1, <3>1, <4>2, <4>3 DEF TxOK
        <4>5. nodes[m].inc \in Nat /\ nodes[n].inc \in Nat
          BY <1>1, <1>7
        <4> QED BY <4>1, <4>4, <4>5
      <3>3. ASSUME NEW x \in Seen(Q)
            PROVE  x <= m
        <4>1. x <= n
          BY <1>6
        <4>2. x \in 1 .. Len(nodes)
          BY <1>1, <1>6 DEF Seen, LinkedFacts, LinkedOf
        <4> QED BY <1>7, <3>2, <4>1, <4>2
      <3> QED BY <1>1, <2>1, <3>3 DEF IsAfterAll
    <2>5. v.status \in {"found", "estimate"}
      BY <1>9
    <2> QED BY <2>3, <2>4, <2>5
  <1> QED BY <1>2, <1>4, <1>6, <1>7, <1>8, <1>10, <1>11, <1>12, <1>13, <1>14, ReturnStep

--------------------------------------------------------------------------------
(* Steps of GC that leave the store alone *)

LEMMA GCStarts ==
  ASSUME IInv, NEW b \in GCBefore, GC(b)
  PROVE  IInv'
  <1>1. 0 \in NodeIds /\ GCInv /\ gc \in GCRec
    BY Before
  <1>2. /\ gc.pc = "idle" /\ gc' = [IdleGC EXCEPT !.pc = "bucket", !.before = b]
        /\ UNCHANGED <<store, tx, reader>>
    BY DEF GC
  <1>3. gc' \in GCRec
    <2>1. 0 \in 0 .. NumBuckets /\ 0 \in Nat
      BY BucketAssumption
    <2> QED BY <1>1, <1>2, <2>1 DEF IdleGC, GCRec
  <1>4. gc'.freed = 0 /\ gc.freed = 0 /\ gc'.pc = "bucket"
    BY <1>1, <1>2 DEF GCInv, IdleGC
  <1>5. GCInv'
    BY <1>4 DEF GCInv
  <1> QED BY <1>2, <1>3, <1>4, <1>5, GCMoves

LEMMA GCLockStep ==
  ASSUME IInv, GCLock
  PROVE  IInv'
  <1>1. gc \in GCRec
    BY Before
  <1>2. PICK K : K = {k \in Keys : Bucket[k] = gc.bucket /\ entries[k] # 0}
    OBVIOUS
  <1>3. /\ gc.bucket < NumBuckets /\ gc' = [gc EXCEPT !.pc = "keys", !.keys = K]
        /\ UNCHANGED <<store, tx, reader>>
    BY <1>2 DEF GCLock
  <1>4. gc' \in GCRec
    BY <1>1, <1>2, <1>3 DEF GCRec
  <1>5. gc'.freed = gc.freed /\ gc'.pc = "keys" /\ gc'.keys = K /\ gc'.bucket = gc.bucket
    BY <1>1, <1>3 DEF GCRec
  <1>6. GCInv'
    BY <1>2, <1>3, <1>5 DEF GCInv, store
  <1> QED BY <1>3, <1>4, <1>5, <1>6, GCMoves

LEMMA GCKeyStep ==
  ASSUME IInv, NEW k \in Keys, GCKey(k)
  PROVE  IInv'
  <1>1. /\ gc \in GCRec /\ GCInv /\ entries \in [Keys -> ChainIds] /\ ChainIds = 0 .. Len(heads)
        /\ 0 \in NodeIds /\ \A c \in 1 .. Len(heads) : heads[c] \in NodeIds
    BY Before
  <1>2. PICK h : h = heads[entries[k]]
    OBVIOUS
  <1>3. PICK K : K = gc.keys \ {k}
    OBVIOUS
  <1>4. /\ gc.pc = "keys" /\ k \in gc.keys
        /\ gc' = [gc EXCEPT !.pc = "visit", !.keys = K, !.key = k, !.prev = 0, !.node = h]
        /\ UNCHANGED <<store, tx, reader>>
    BY <1>2, <1>3 DEF GCKey
  <1>5. /\ gc.bucket < NumBuckets
        /\ \A l \in gc.keys : Bucket[l] = gc.bucket /\ entries[l] # 0
    BY <1>1, <1>4 DEF GCInv
  <1>6. h \in NodeIds
    BY <1>1, <1>2, <1>4, <1>5
  <1>7. gc' \in GCRec
    BY <1>1, <1>3, <1>4, <1>6 DEF GCRec
  <1>8. /\ gc'.freed = gc.freed /\ gc'.pc = "visit" /\ gc'.keys = K /\ gc'.bucket = gc.bucket
        /\ gc'.key = k /\ gc'.prev = 0 /\ gc'.node = h
    BY <1>1, <1>4 DEF GCRec
  <1>9. GCInv'
    BY <1>2, <1>3, <1>4, <1>5, <1>8 DEF GCInv, store
  <1> QED BY <1>4, <1>7, <1>8, <1>9, GCMoves

LEMMA GCKeepStep ==
  ASSUME IInv, GCKeep
  PROVE  IInv'
  <1>1. /\ gc \in GCRec /\ GCInv /\ Shape /\ LinkedFacts
        /\ \A n \in 1 .. Len(nodes) : nodes[n].next \in NodeIds
    BY Before
  <1>2. PICK h : h = nodes[gc.node].next
    OBVIOUS
  <1>3. /\ gc.pc = "visit" /\ gc.node # 0
        /\ gc' = [gc EXCEPT !.prev = gc.node, !.node = h]
        /\ UNCHANGED <<store, tx, reader>>
    BY <1>2 DEF GCKeep
  <1>4. gc.key \in Keys /\ gc.node \in Linked(gc.key)
    BY <1>1, <1>3, GCStandsOnLinked
  <1>5. gc.node \in 1 .. Len(nodes)
    BY <1>1, <1>4 DEF LinkedFacts, LinkedOf
  <1>6. gc' \in GCRec
    BY <1>1, <1>2, <1>3, <1>5 DEF GCRec
  <1>7. /\ gc'.freed = gc.freed /\ gc'.pc = "visit" /\ gc'.keys = gc.keys /\ gc'.bucket = gc.bucket
        /\ gc'.key = gc.key /\ gc'.prev = gc.node /\ gc'.node = h
    BY <1>1, <1>3 DEF GCRec
  <1>8. nodes' = nodes /\ heads' = heads /\ entries' = entries
    BY <1>3 DEF store
  <1>9. Linked(gc.key)' = Linked(gc.key)
    BY <1>7, <1>8 DEF Linked, Below, NodeIds
  <1>10. GCInv'
    BY <1>1, <1>2, <1>3, <1>4, <1>7, <1>8, <1>9 DEF GCInv
  <1> QED BY <1>3, <1>6, <1>7, <1>10, GCMoves

LEMMA GCUnlockStep ==
  ASSUME IInv, GCUnlock
  PROVE  IInv'
  <1>1. gc \in GCRec /\ GCInv
    BY Before
  <1>2. /\ gc.pc = "keys" /\ gc' = [gc EXCEPT !.pc = "bucket", !.bucket = gc.bucket + 1]
        /\ UNCHANGED <<store, tx, reader>>
    BY DEF GCUnlock
  <1>3. gc.bucket + 1 \in 0 .. NumBuckets
    <2>1. gc.bucket < NumBuckets /\ gc.bucket \in 0 .. NumBuckets
      BY <1>1, <1>2 DEF GCInv, GCRec
    <2> QED BY <2>1, BucketAssumption
  <1>4. gc' \in GCRec
    BY <1>1, <1>2, <1>3 DEF GCRec
  <1>5. gc'.freed = gc.freed /\ gc'.pc = "bucket"
    BY <1>1, <1>2 DEF GCRec
  <1>6. GCInv'
    BY <1>5 DEF GCInv
  <1> QED BY <1>2, <1>4, <1>5, <1>6, GCMoves

--------------------------------------------------------------------------------
(* Steps that change the store *)

LEMMA TypesGrow ==
  ASSUME StoreType, Evolves
  PROVE  TxRec \subseteq TxRec' /\ ReaderRec \subseteq ReaderRec' /\ GCRec \subseteq GCRec'
  <1>1. NodeIds \subseteq NodeIds' /\ ChainIds \subseteq ChainIds'
    BY StoreTypeFacts DEF Evolves, NodeIds, ChainIds
  <1>2. TxRec \subseteq TxRec'
    BY <1>1 DEF TxRec
  <1>3. ReaderRec \subseteq ReaderRec'
    BY <1>1 DEF ReaderRec
  <1>4. GCRec \subseteq GCRec'
    BY <1>1 DEF GCRec
  <1> QED BY <1>2, <1>3, <1>4

LEMMA ReadersStay ==
  ASSUME IInv, Shape', Evolves, reader' = reader
  PROVE  ReaderType' /\ \A r \in Readers : WalkOK(reader[r])'
  <1>1. /\ Shape /\ StoreType /\ reader \in [Readers -> ReaderRec]
        /\ \A r \in Readers : WalkOK(reader[r])
    BY Before
  <1>2. LinkedFacts'
    BY ShapeMakesLinked, PTL
  <1>3. ReaderType'
    BY <1>1, TypesGrow DEF ReaderType
  <1>4. ASSUME NEW r \in Readers
        PROVE  WalkOK(reader[r])'
    <2>1. PICK R \in ReaderRec : R = reader[r]
      BY <1>1
    <2>2. WalkOK(R)
      BY <1>1, <2>1
    <2>3. WalkOK(R)'
      BY <1>1, <1>2, <2>2, ReaderFrame
    <2> QED BY <2>1, <2>3 DEF WalkOK, IsAfterAll, Seen, Returns, ChainOf, Linked
  <1> QED BY <1>3, <1>4

LEMMA OtherTxsStay ==
  ASSUME IInv, Shape', Evolves, NEW t \in Txs, tx'[t] = tx[t],
         \A n \in 1 .. Len(nodes') : nodes'[n].tx = t =>
           n \in 1 .. Len(nodes) /\ nodes'[n].status = nodes[n].status
  PROVE  TxOK(t, tx[t])'
  <1>1. Shape /\ tx \in [Txs -> TxRec] /\ TxOK(t, tx[t])
    BY Before
  <1>2. LinkedFacts'
    BY ShapeMakesLinked, PTL
  <1>3. PICK T \in TxRec : T = tx[t]
    BY <1>1
  <1>4. TxOK(t, T)
    BY <1>1, <1>3
  <1>5. TxOK(t, T)'
    BY <1>1, <1>2, <1>4, TxFrame
  <1> QED BY <1>3, <1>5 DEF TxOK, Made, ChainOf, Linked

LEMMA AllLinkedFinite ==
  ASSUME LinkedFacts, Len(nodes) \in Nat
  PROVE  /\ IsFiniteSet(UNION {Linked(k) : k \in Keys})
         /\ UNION {Linked(k) : k \in Keys} \subseteq 1 .. Len(nodes)
  <1>1. UNION {Linked(k) : k \in Keys} \subseteq 1 .. Len(nodes)
    BY DEF LinkedFacts, LinkedOf
  <1>2. IsFiniteSet(1 .. Len(nodes))
    BY FS_Interval
  <1> QED BY <1>1, <1>2, FS_Subset

LEMMA WriteStep ==
  ASSUME IInv, NEW t \in Txs, NEW k \in Keys, Write(t, k)
  PROVE  IInv'
  <1> DEFINE N == Len(nodes)
  <1>1. /\ Shape /\ NoGap /\ VersionInv /\ GCInv /\ LinkedFacts /\ LinksInv /\ StoreType
        /\ tx \in [Txs -> TxRec] /\ gc \in GCRec
        /\ entries \in [Keys -> ChainIds]
        /\ TxOK(t, tx[t])
        /\ N \in Nat /\ Len(heads) \in Nat
        /\ NodeIds = 0 .. N /\ ChainIds = 0 .. Len(heads)
        /\ \A n \in 1 .. N :
             /\ nodes[n].key \in Keys /\ nodes[n].tx \in Txs /\ nodes[n].inc \in Nat
             /\ nodes[n].status \in Statuses /\ nodes[n].next \in NodeIds
    BY Before
  <1>2. PICK Q \in TxRec : Q = tx[t]
    BY <1>1
  <1>3. Q.inc \in Nat
    BY DEF TxRec
  <1>4. Wrote(t, k) /\ StoreType'
    BY <1>1, <1>2, <1>3, WriteEffect
  <1>5. /\ LinksInv'
        /\ \A l \in Keys : Linked(l)' = IF l = k THEN Linked(l) \cup {N + 1} ELSE Linked(l)
    BY <1>1, <1>4, WriteLinks
  <1>6. Shape'
    BY <1>4, <1>5 DEF Shape
  <1>7. LinkedFacts'
    BY <1>6, ShapeMakesLinked, PTL
  <1>8. Evolves
    BY <1>1, <1>4, <1>5, WriteEvolves
  <1>9. /\ Len(nodes') = N + 1
        /\ \A n \in 1 .. N : nodes'[n] = nodes[n]
        /\ nodes'[N + 1].key = k /\ nodes'[N + 1].tx = t /\ nodes'[N + 1].inc = Q.inc
        /\ nodes'[N + 1].status = "estimate"
        /\ nodes'[N + 1].next = IF entries[k] = 0 THEN 0 ELSE heads[entries[k]]
    BY <1>2, <1>4 DEF Wrote
  <1>10. Q.pc = "execute" /\ k \notin Q.writes /\ reader' = reader /\ gc' = gc
    BY <1>2 DEF Write
  <1>11. NoGap'
    <2> SUFFICES ASSUME NEW n \in 1 .. N + 1, NEW l \in Keys, l = nodes'[n].key,
                        NEW m \in Linked(l)', m < n
                 PROVE  m <= nodes'[n].next
      <3>1. \A n \in 1 .. N + 1 : nodes'[n].key \in Keys
        BY <1>1, <1>9
      <3> QED BY <1>9, <3>1 DEF NoGap
    <2>1. m \in 1 .. N + 1
      BY <1>7, <1>9 DEF LinkedFacts, LinkedOf
    <2>2. m \in 1 .. N /\ m \in Linked(l)
      BY <1>1, <1>5, <2>1
    <2>3. CASE n \in 1 .. N
      <3>1. nodes'[n] = nodes[n]
        BY <1>9, <2>3
      <3> QED BY <1>1, <2>2, <2>3, <3>1 DEF NoGap
    <2>4. CASE n = N + 1
      <3>1. l = k
        BY <1>9, <2>4
      <3>2. entries[k] # 0 /\ m <= heads[entries[k]]
        BY <1>1, <2>2, <3>1 DEF LinkedFacts, LinkedOf
      <3> QED BY <1>9, <2>4, <3>2
    <2> QED BY <1>1, <2>3, <2>4
  <1>12. VersionInv'
    <2> SUFFICES ASSUME NEW m \in 1 .. N + 1, NEW n \in 1 .. N + 1, m < n,
                        nodes'[m].key = nodes'[n].key, nodes'[m].tx = nodes'[n].tx
                 PROVE  nodes'[m].inc < nodes'[n].inc
      BY <1>9 DEF VersionInv
    <2>1. m \in 1 .. N /\ nodes'[m] = nodes[m]
      BY <1>1, <1>9
    <2>2. CASE n \in 1 .. N
      <3>1. nodes'[n] = nodes[n]
        BY <1>9, <2>2
      <3> QED BY <1>1, <2>1, <2>2, <3>1 DEF VersionInv
    <2>3. CASE n = N + 1
      <3>1. nodes[m].key = k /\ nodes[m].tx = t
        BY <1>9, <2>1, <2>3
      <3>2. nodes[m].inc <= Q.inc /\ nodes[m].inc # Q.inc
        BY <1>1, <1>2, <1>10, <2>1, <3>1 DEF TxOK
      <3>3. nodes[m].inc \in Nat
        BY <1>1, <2>1
      <3> QED BY <1>3, <1>9, <2>1, <2>3, <3>2, <3>3
    <2> QED BY <1>1, <2>2, <2>3
  <1>13. CountInv'
    <2>1. CountInv
      BY InvariantParts
    <2>2. PICK K : K = {l \in Keys : entries[l] # 0}
      OBVIOUS
    <2>3. {l \in Keys : entries'[l] # 0} = K \cup {k}
      <3>1. entries'[k] # 0 /\ \A l \in Keys : l # k => entries'[l] = entries[l]
        BY <1>4 DEF Wrote
      <3> QED BY <2>2, <3>1
    <2>4. IsFiniteSet(K) /\ totalKeys = Cardinality(K)
      BY <2>1, <2>2 DEF CountInv, AccountsBalance
    <2>5. IsFiniteSet(K \cup {k}) /\ totalKeys' = Cardinality(K \cup {k})
      <3>1. totalKeys' = totalKeys + (IF entries[k] = 0 THEN 1 ELSE 0)
        BY DEF Write
      <3>2. totalKeys \in Nat
        BY <1>1 DEF StoreType
      <3>3. k \in K <=> entries[k] # 0
        BY <2>2
      <3> QED BY <2>4, <3>1, <3>2, <3>3, FS_AddElement
    <2>6. PICK U : U = UNION {Linked(l) : l \in Keys}
      OBVIOUS
    <2>7. IsFiniteSet(U) /\ U \subseteq 1 .. N
      BY <1>1, <2>6, AllLinkedFinite
    <2>8. UNION {Linked(l)' : l \in Keys} = U \cup {N + 1}
      BY <1>5, <2>6
    <2>9. Cardinality(U \cup {N + 1}) = Cardinality(U) + 1
      <3>1. N + 1 \notin U
        BY <1>1, <2>7
      <3> QED BY <2>7, <3>1, FS_AddElement
    <2>10. totalVersions - gc.freed = Cardinality(U)
      BY <2>1, <2>6 DEF CountInv, AccountsBalance
    <2>11. totalVersions' = totalVersions + 1
      BY DEF Write
    <2>12. totalVersions' - gc'.freed = Cardinality(U \cup {N + 1})
      <3>1. totalVersions \in Nat /\ gc.freed \in Nat
        BY <1>1 DEF StoreType, GCRec
      <3> QED BY <1>10, <2>9, <2>10, <2>11, <3>1
    <2> QED BY <2>3, <2>5, <2>8, <2>12 DEF CountInv, AccountsBalance
  <1>14. GCInv'
    <2>1. \A l \in Keys : entries[l] # 0 => entries'[l] = entries[l]
      BY <1>4 DEF Wrote
    <2>2. ASSUME gc.pc \in {"keys", "visit"}
          PROVE  \A l \in gc.keys : Bucket[l] = gc.bucket /\ entries'[l] # 0
      <3>1. \A l \in gc.keys : l \in Keys /\ Bucket[l] = gc.bucket /\ entries[l] # 0
        BY <1>1, <2>2 DEF GCInv, GCRec
      <3> QED BY <2>1, <3>1
    <2>3. ASSUME gc.pc = "visit"
          PROVE  /\ entries'[gc.key] # 0
                 /\ IF gc.prev = 0 THEN gc.node = heads'[entries'[gc.key]]
                                   ELSE gc.prev \in Linked(gc.key)' /\ gc.node = nodes'[gc.prev].next
      <3>1. PICK g : g = gc.key
        OBVIOUS
      <3>2. /\ g \in Keys /\ Bucket[g] = gc.bucket /\ entries[g] # 0
            /\ IF gc.prev = 0 THEN gc.node = heads[entries[g]]
                              ELSE gc.prev \in Linked(g) /\ gc.node = nodes[gc.prev].next
        BY <1>1, <2>3, <3>1 DEF GCInv
      <3>3. g # k
        BY <2>3, <3>2 DEF Write, Unlocked
      <3>4. entries'[g] = entries[g] /\ Linked(g)' = Linked(g)
        BY <1>5, <2>1, <3>2, <3>3
      <3>5. heads'[entries[g]] = heads[entries[g]]
        <4>1. entries[g] # entries[k] /\ entries[g] \in 1 .. Len(heads)
          BY <1>1, <3>2, <3>3 DEF LinksInv
        <4> QED BY <1>4, <4>1 DEF Wrote
      <3>6. gc.prev # 0 => nodes'[gc.prev] = nodes[gc.prev]
        BY <1>1, <1>9, <3>2 DEF LinkedFacts, LinkedOf
      <3>7. Linked(gc.key)' = Linked(g)'
        BY <1>10, <3>1 DEF Linked
      <3> QED BY <3>1, <3>2, <3>4, <3>5, <3>6, <3>7
    <2> QED BY <1>1, <1>10, <2>2, <2>3 DEF GCInv
  <1>15. PICK T : T = [Q EXCEPT !.writes = Q.writes \cup {k}]
    OBVIOUS
  <1>16. tx' = [tx EXCEPT ![t] = T]
    BY <1>1, <1>2, <1>15 DEF Write
  <1>17. T \in TxRec /\ T.pc = "execute" /\ T.inc = Q.inc /\ T.writes = Q.writes \cup {k}
    BY <1>10, <1>15 DEF TxRec
  <1>18. TxOK(t, T)'
    <2>1. TxOK(t, Q)
      BY <1>1, <1>2
    <2>2. ASSUME NEW n \in 1 .. N + 1, nodes'[n].tx = t
          PROVE  /\ nodes'[n].inc <= T.inc
                 /\ nodes'[n].inc = T.inc => nodes'[n].key \in T.writes
                 /\ nodes'[n].status # "committed"
      <3>1. CASE n \in 1 .. N
        <4>1. nodes'[n] = nodes[n]
          BY <1>9, <3>1
        <4> QED BY <1>10, <1>17, <2>1, <2>2, <3>1, <4>1 DEF TxOK
      <3>2. CASE n = N + 1
        BY <1>3, <1>9, <1>17, <3>2
      <3> QED BY <1>1, <3>1, <3>2
    <2> QED BY <1>9, <1>17, <2>2 DEF TxOK
  <1>19. ASSUME NEW u \in Txs
         PROVE  TxOK(u, tx[u])'
    <2>1. CASE u = t
      <3>1. tx'[t] = T
        BY <1>1, <1>16
      <3> QED BY <1>18, <2>1, <3>1 DEF TxOK, Made, ChainOf, Linked
    <2>2. CASE u # t
      <3>1. tx'[u] = tx[u]
        BY <1>1, <1>16, <2>2
      <3>2. \A n \in 1 .. Len(nodes') : nodes'[n].tx = u =>
              n \in 1 .. Len(nodes) /\ nodes'[n].status = nodes[n].status
        BY <1>1, <1>9, <2>2
      <3> QED BY <1>6, <1>8, <3>1, <3>2, OtherTxsStay
    <2> QED BY <2>1, <2>2
  <1>20. ReaderType' /\ \A r \in Readers : WalkOK(reader[r])'
    BY <1>6, <1>8, <1>10, ReadersStay
  <1>21. TxType' /\ GCType'
    <2>1. TxRec \subseteq TxRec' /\ GCRec \subseteq GCRec'
      BY <1>1, <1>8, TypesGrow
    <2>2. tx' \in [Txs -> TxRec]
      BY <1>1, <1>16, <1>17
    <2> QED BY <1>1, <1>10, <2>1, <2>2 DEF TxType, GCType
  <1>22. StoreFacts' /\ ActorTypes' /\ ActorFacts'
    BY <1>6, <1>11, <1>12, <1>19, <1>20, <1>21 DEF StoreFacts, ActorTypes, ActorFacts
  <1> QED BY <1>13, <1>14, <1>22, InvariantParts, PTL

LEMMA MarkStep ==
  ASSUME IInv, NEW t \in Txs, MarkVersionAsCommitted(t)
  PROVE  IInv'
  <1> DEFINE N == Len(nodes)
  <1>1. /\ Shape /\ NoGap /\ VersionInv /\ GCInv /\ LinkedFacts /\ StoreType
        /\ tx \in [Txs -> TxRec] /\ gc \in GCRec /\ TxOK(t, tx[t])
        /\ N \in Nat /\ NodeIds = 0 .. N
        /\ 0 \in NodeIds /\ 0 \in ChainIds
        /\ \A n \in 1 .. N : nodes[n].key \in Keys /\ nodes[n].tx \in Txs
    BY Before
  <1>2. PICK Q \in TxRec : Q = tx[t]
    BY <1>1
  <1>3. PICK n : n = Q.node
    OBVIOUS
  <1>4. /\ Q.pc = "mark" /\ n # 0 /\ Made(n, t, Q)
        /\ nodes' = [nodes EXCEPT ![n].status = "committed"]
        /\ UNCHANGED <<heads, entries, totalKeys, totalVersions, pool, reader, gc>>
    BY <1>2, <1>3 DEF MarkVersionAsCommitted, Made, IsVersion
  <1>5. n \in 1 .. N
    BY <1>1, <1>3, <1>4 DEF TxRec
  <1>6. /\ Shape' /\ Len(nodes') = N
        /\ \A m \in 1 .. N : NodesKept(m) /\ nodes'[m].next = nodes[m].next
        /\ nodes'[n].status = "committed"
        /\ \A m \in 1 .. N : m # n => nodes'[m] = nodes[m]
        /\ \A k \in Keys : Linked(k)' = Linked(k)
    BY <1>1, <1>4, <1>5, MarkEffect
  <1>7. \A m \in 1 .. N :
          /\ NodesKept(m)
          /\ nodes[m].status = "committed" => nodes'[m].status = "committed"
    BY <1>6
  <1>8. Evolves
    BY <1>1, <1>4, <1>6, <1>7, SameChainsEvolve
  <1>9. NoGap' /\ VersionInv'
    <2>1. VersionInv'
      BY <1>1, <1>6 DEF VersionInv, NodesKept
    <2>2. NoGap'
      <3> SUFFICES ASSUME NEW m \in 1 .. N, NEW k \in Keys, k = nodes'[m].key,
                          NEW l \in Linked(k)', l < m
                   PROVE  l <= nodes'[m].next
        BY <1>1, <1>6 DEF NoGap, NodesKept
      <3>1. k = nodes[m].key /\ nodes'[m].next = nodes[m].next /\ l \in Linked(k)
        BY <1>6 DEF NodesKept
      <3> QED BY <1>1, <3>1 DEF NoGap
    <2> QED BY <2>1, <2>2
  <1>10. CountInv'
    <2>1. CountInv
      BY InvariantParts
    <2> QED BY <1>4, <1>6, <2>1, CountStays
  <1>11. GCInv'
    <2>1. ASSUME gc.pc = "visit", gc.prev # 0
          PROVE  /\ Linked(gc.key)' = Linked(gc.key)
                 /\ gc.prev \in Linked(gc.key) => nodes'[gc.prev].next = nodes[gc.prev].next
      <3>1. PICK g \in Keys : g = gc.key
        BY <1>1, <2>1 DEF GCInv
      <3>2. Linked(g)' = Linked(g) /\ Linked(g) \subseteq 1 .. N
        BY <1>1, <1>6 DEF LinkedFacts, LinkedOf
      <3>3. Linked(gc.key)' = Linked(g)'
        BY <1>4, <3>1 DEF Linked
      <3> QED BY <1>6, <3>1, <3>2, <3>3
    <2> QED BY <1>1, <1>4, <2>1 DEF GCInv
  <1>12. PICK T : T = [Q EXCEPT !.pc = "commit", !.left = Q.left \ {Q.key},
                                !.key = NoKey, !.chain = 0, !.node = 0]
    OBVIOUS
  <1>13. tx' = [tx EXCEPT ![t] = T]
    BY <1>1, <1>2, <1>12 DEF MarkVersionAsCommitted, Marked
  <1>14. /\ T \in TxRec /\ T.pc = "commit" /\ T.inc = Q.inc /\ T.writes = Q.writes
         /\ T.left = Q.left \ {Q.key}
    <2>1. Q.left \ {Q.key} \in SUBSET Keys
      BY DEF TxRec
    <2>2. T \in TxRec
      BY <1>1, <1>12, <2>1 DEF TxRec
    <2> QED BY <1>12, <2>2 DEF TxRec
  <1>15. TxOK(t, T)'
    <2>1. TxOK(t, Q)
      BY <1>1, <1>2
    <2>2. Q.key \in Keys /\ nodes[n].key = Q.key
      BY <1>3, <1>4, <2>1 DEF TxOK
    <2>3. ASSUME NEW m \in 1 .. N, nodes'[m].tx = t
          PROVE  /\ nodes'[m].inc <= T.inc
                 /\ nodes'[m].inc = T.inc => nodes'[m].key \in T.writes
                 /\ nodes'[m].status = "committed" => nodes'[m].inc = T.inc
      <3>1. CASE m = n
        BY <1>4, <1>5, <1>6, <1>14, <2>1, <2>3, <3>1 DEF NodesKept, Made, TxOK
      <3>2. CASE m # n
        BY <1>6, <1>14, <2>1, <2>3, <3>2 DEF TxOK
      <3> QED BY <3>1, <3>2
    <2>4. ASSUME NEW k \in Keys \ T.left, NEW m \in Linked(k)', Made(m, t, T)'
          PROVE  nodes'[m].status = "committed"
      <3>1. m \in Linked(k) /\ m \in 1 .. N /\ nodes[m].key = k
        BY <1>1, <1>6 DEF LinkedFacts, LinkedOf
      <3>2. Made(m, t, Q)
        BY <1>6, <1>14, <2>4, <3>1 DEF Made, NodesKept
      <3>3. CASE k = Q.key
        <4>1. m = n
          <5>1. /\ nodes[m].key = nodes[n].key /\ nodes[m].tx = nodes[n].tx
                /\ nodes[m].inc = nodes[n].inc
            BY <1>4, <2>2, <3>1, <3>2, <3>3 DEF Made
          <5>2. Q.inc \in Nat /\ nodes[m].inc = Q.inc
            BY <3>2 DEF TxRec, Made
          <5> DEFINE Later(a, b) == a < b /\ nodes[a].key = nodes[b].key
                                         /\ nodes[a].tx = nodes[b].tx
          <5>v. \A a, b \in 1 .. N : Later(a, b) => nodes[a].inc < nodes[b].inc
            <6>1. N = Len(nodes)
              OBVIOUS
            <6>2. VersionInv
              BY <1>1
            <6> QED BY <6>1, <6>2 DEF VersionInv
          <5>i. nodes[n].inc = Q.inc /\ ~ (nodes[m].inc < nodes[n].inc)
                /\ ~ (nodes[n].inc < nodes[m].inc)
            BY <5>1, <5>2
          <5>3. ~ (m < n)
            BY <1>5, <3>1, <5>1, <5>v, <5>i
          <5>4. ~ (n < m)
            BY <1>5, <3>1, <5>1, <5>v, <5>i
          <5> QED BY <1>5, <3>1, <5>3, <5>4
        <4> QED BY <1>6, <4>1
      <3>4. CASE k # Q.key
        <4>1. k \in Keys \ Q.left
          BY <1>14, <3>4
        <4>2. nodes[m].status = "committed"
          BY <1>4, <2>1, <3>1, <3>2, <4>1 DEF TxOK
        <4> QED BY <1>7, <3>1, <4>2
      <3> QED BY <3>3, <3>4
    <2> QED BY <1>6, <1>14, <2>3, <2>4 DEF TxOK
  <1>16. ASSUME NEW u \in Txs
         PROVE  TxOK(u, tx[u])'
    <2>1. CASE u = t
      <3>1. tx'[t] = T
        BY <1>1, <1>13
      <3> QED BY <1>15, <2>1, <3>1 DEF TxOK, Made, ChainOf, Linked
    <2>2. CASE u # t
      <3>1. tx'[u] = tx[u]
        BY <1>1, <1>13, <2>2
      <3>2. \A m \in 1 .. Len(nodes') : nodes'[m].tx = u =>
              m \in 1 .. Len(nodes) /\ nodes'[m].status = nodes[m].status
        BY <1>4, <1>5, <1>6, <2>2 DEF Made, NodesKept
      <3> QED BY <1>6, <1>8, <3>1, <3>2, OtherTxsStay
    <2> QED BY <2>1, <2>2
  <1>17. ReaderType' /\ \A r \in Readers : WalkOK(reader[r])'
    BY <1>4, <1>6, <1>8, ReadersStay
  <1>18. TxType' /\ GCType'
    <2>1. TxRec \subseteq TxRec' /\ GCRec \subseteq GCRec'
      BY <1>1, <1>8, TypesGrow
    <2>2. tx' \in [Txs -> TxRec]
      BY <1>1, <1>13, <1>14
    <2> QED BY <1>1, <1>4, <2>1, <2>2 DEF TxType, GCType
  <1>19. StoreFacts' /\ ActorTypes' /\ ActorFacts'
    BY <1>6, <1>9, <1>16, <1>17, <1>18 DEF StoreFacts, ActorTypes, ActorFacts
  <1> QED BY <1>10, <1>11, <1>19, InvariantParts, PTL

\* Where transactions and readers stay and the nodes keep their status.
LEMMA GCLeavesActors ==
  ASSUME IInv, Shape', Evolves, UNCHANGED <<tx, reader>>, Len(nodes') = Len(nodes),
         \A n \in 1 .. Len(nodes) : nodes'[n].status = nodes[n].status, gc' \in GCRec
  PROVE  ActorTypes' /\ ActorFacts'
  <1>1. StoreType /\ tx \in [Txs -> TxRec]
    BY Before
  <1>2. \A t \in Txs : TxOK(t, tx[t])'
    BY OtherTxsStay
  <1>3. ReaderType' /\ \A r \in Readers : WalkOK(reader[r])'
    BY ReadersStay
  <1>4. TxRec \subseteq TxRec' /\ GCRec \subseteq GCRec'
    BY <1>1, TypesGrow
  <1>5. TxType' /\ GCType'
    BY <1>1, <1>4 DEF TxType, GCType
  <1> QED BY <1>2, <1>3, <1>5 DEF ActorTypes, ActorFacts

LEMMA GCRemoveStep ==
  ASSUME UsePool = FALSE, IInv, GCRemove
  PROVE  IInv'
  <1> DEFINE N == Len(nodes)
  <1>1. /\ Shape /\ NoGap /\ VersionInv /\ GCInv /\ LinkedFacts /\ StoreType /\ gc \in GCRec
        /\ N \in Nat /\ NodeIds = 0 .. N
        /\ \A n \in 1 .. N : nodes[n].key \in Keys /\ nodes[n].next \in NodeIds
    BY Before
  <1>2. PICK q : q = gc.node
    OBVIOUS
  <1>3. PICK x : x = nodes[q].next
    OBVIOUS
  <1>4. /\ gc.pc = "visit" /\ q # 0
        /\ gc' = [gc EXCEPT !.node = x, !.freed = gc.freed + 1]
        /\ UNCHANGED <<entries, totalKeys, totalVersions, tx, reader>>
    BY <1>2, <1>3 DEF GCRemove
  <1>5. PICK g \in Keys : g = gc.key
    BY <1>1, <1>4 DEF GCInv
  <1>6. /\ entries[g] # 0 /\ q \in Linked(g)
        /\ gc.prev # 0 => gc.prev \in Linked(g) /\ nodes[gc.prev].next = q
        /\ gc.prev = 0 => heads[entries[g]] = q
    BY <1>1, <1>2, <1>4, <1>5, GCStandsOnLinked
  <1>7. Removed /\ StoreType' /\ LinksInv'
    BY <1>1, RemoveEffect
  <1>8. Shape'
    BY <1>7 DEF Shape
  <1>9. \A k \in Keys : Linked(k)' = Linked(k) \ {gc.node}
    BY <1>1, <1>2, <1>4, <1>7, <1>8, RemoveLinks
  <1>10. Evolves
    BY <1>1, <1>2, <1>4, <1>7, <1>9, RemoveEvolves
  <1>11. /\ Len(nodes') = N
         /\ \A n \in 1 .. N :
              /\ NodesKept(n) /\ nodes'[n].status = nodes[n].status
              /\ nodes'[n].next = IF n = gc.prev THEN x ELSE nodes[n].next
    BY <1>2, <1>3, <1>7 DEF Removed
  <1>12. q \in 1 .. N /\ nodes[q].key = g /\ x \in NodeIds
    BY <1>1, <1>3, <1>6 DEF LinkedFacts, LinkedOf
  <1>13. gc' \in GCRec /\ gc'.pc = "visit" /\ gc'.node = x /\ gc'.freed = gc.freed + 1
           /\ gc'.key = gc.key /\ gc'.keys = gc.keys /\ gc'.prev = gc.prev /\ gc'.bucket = gc.bucket
    <2>1. gc.freed + 1 \in Nat
      BY <1>1 DEF GCRec
    <2> QED BY <1>1, <1>4, <1>12, <2>1 DEF GCRec
  <1>14. NoGap'
    <2> SUFFICES ASSUME NEW n \in 1 .. N, NEW k \in Keys, k = nodes'[n].key,
                        NEW m \in Linked(k)', m < n
                 PROVE  m <= nodes'[n].next
      BY <1>1, <1>11 DEF NoGap, NodesKept
    <2>1. k = nodes[n].key /\ m \in Linked(k) /\ m # q
      BY <1>2, <1>9, <1>11 DEF NodesKept
    <2>2. m <= nodes[n].next
      BY <1>1, <2>1 DEF NoGap
    <2>3. CASE n = gc.prev
      <3>1. gc.prev # 0 /\ nodes[n].next = q
        BY <1>6, <2>3
      <3>2. k = g
        BY <1>1, <1>6, <2>1, <2>3, <3>1 DEF LinkedFacts, LinkedOf
      <3>3. m \in 1 .. N
        BY <1>1, <2>1 DEF LinkedFacts, LinkedOf
      <3>4. m < q
        BY <1>12, <2>1, <2>2, <3>1, <3>3
      <3>5. m <= x
        BY <1>1, <1>3, <1>12, <2>1, <3>2, <3>4 DEF NoGap
      <3> QED BY <1>11, <2>3, <3>5
    <2>4. CASE n # gc.prev
      BY <1>11, <2>2, <2>4
    <2> QED BY <2>3, <2>4
  <1>15. VersionInv'
    BY <1>1, <1>11 DEF VersionInv, NodesKept
  <1>16. CountInv'
    <2>1. CountInv
      BY InvariantParts
    <2>2. {l \in Keys : entries'[l] # 0} = {l \in Keys : entries[l] # 0}
      BY <1>4
    <2>3. PICK U : U = UNION {Linked(l) : l \in Keys}
      OBVIOUS
    <2>4. IsFiniteSet(U)
      BY <1>1, <2>3, AllLinkedFinite
    <2>5. UNION {Linked(l)' : l \in Keys} = U \ {q}
      BY <1>2, <1>9, <2>3
    <2>6. Cardinality(U \ {q}) = Cardinality(U) - 1
      <3>1. q \in U
        BY <1>6, <2>3
      <3> QED BY <2>4, <3>1, FS_RemoveElement
    <2>7. totalVersions - gc.freed = Cardinality(U)
      BY <2>1, <2>3 DEF CountInv, AccountsBalance
    <2>8. totalVersions' - gc'.freed = Cardinality(U \ {q})
      <3>1. totalVersions \in Nat /\ gc.freed \in Nat
        BY <1>1 DEF StoreType, GCRec
      <3> QED BY <1>4, <1>13, <2>6, <2>7, <3>1
    <2> QED BY <1>4, <2>1, <2>2, <2>5, <2>8 DEF CountInv, AccountsBalance
  <1>17. GCInv'
    <2>1. /\ gc.bucket < NumBuckets
          /\ \A l \in gc.keys : Bucket[l] = gc.bucket /\ entries[l] # 0
          /\ gc.key \in Keys \ gc.keys /\ Bucket[gc.key] = gc.bucket
      BY <1>1, <1>4 DEF GCInv
    <2>2. Linked(gc.key)' = Linked(g) \ {q}
      <3>1. Linked(gc.key)' = Linked(g)'
        BY <1>5, <1>13 DEF Linked
      <3> QED BY <1>2, <1>9, <3>1
    <2>3. IF gc.prev = 0 THEN gc'.node = heads'[entries'[gc.key]]
                         ELSE gc.prev \in Linked(gc.key)' /\ gc'.node = nodes'[gc.prev].next
      <3>1. CASE gc.prev = 0
        <4>1. entries[g] \in 1 .. Len(heads)
          BY <1>1, <1>6, StoreTypeFacts DEF StoreType
        <4>2. heads'[entries[g]] = x
          BY <1>2, <1>3, <1>5, <1>7, <3>1, <4>1 DEF Removed
        <4> QED BY <1>4, <1>5, <1>13, <3>1, <4>2
      <3>2. CASE gc.prev # 0
        <4>1. gc.prev \in 1 .. N /\ gc.prev \in Linked(g)
          BY <1>1, <1>6, <3>2 DEF LinkedFacts, LinkedOf
        <4>2. gc.prev # q
          <5>1. nodes[gc.prev].next < gc.prev
            BY <1>1, <4>1 DEF Shape, LinksInv
          <5> QED BY <1>1, <1>6, <1>12, <3>2, <4>1, <5>1
        <4> QED BY <1>11, <1>13, <2>2, <3>2, <4>1, <4>2
      <3> QED BY <3>1, <3>2
    <2> QED BY <1>4, <1>5, <1>6, <1>13, <2>1, <2>3 DEF GCInv
  <1>18. ActorTypes' /\ ActorFacts'
    BY <1>4, <1>8, <1>10, <1>11, <1>13, GCLeavesActors
  <1>19. StoreFacts'
    BY <1>8, <1>14, <1>15 DEF StoreFacts
  <1> QED BY <1>16, <1>17, <1>18, <1>19, InvariantParts, PTL

LEMMA GCKeyDoneStep ==
  ASSUME IInv, GCKeyDone
  PROVE  IInv'
  <1>1. /\ Shape /\ NoGap /\ VersionInv /\ GCInv /\ LinkedFacts /\ StoreType /\ gc \in GCRec
        /\ Len(nodes) \in Nat /\ 0 \in NodeIds /\ 0 \in ChainIds
        /\ entries \in [Keys -> ChainIds]
        /\ \A n \in 1 .. Len(nodes) : nodes[n].key \in Keys
    BY Before
  <1>2. /\ UNCHANGED <<nodes, heads>>
        /\ entries' = [entries EXCEPT ![gc.key] = IF heads[entries[gc.key]] = 0 THEN 0 ELSE @]
        /\ gc.key \in Keys /\ entries[gc.key] # 0
        /\ LinksInv'
        /\ \A k \in Keys : Linked(k)' = Linked(k)
    BY <1>1, KeyDoneEffect
  <1>3. /\ gc.pc = "visit" /\ gc' = [gc EXCEPT !.pc = "keys", !.key = NoKey, !.prev = 0]
        /\ UNCHANGED <<nodes, heads, totalVersions, pool, tx, reader>>
    BY DEF GCKeyDone
  <1>4. PICK g \in Keys : g = gc.key
    BY <1>2
  <1>6. \A l \in Keys : entries'[l] = IF l = g /\ heads[entries[g]] = 0 THEN 0 ELSE entries[l]
    BY <1>1, <1>2, <1>4
  <1>7. totalKeys' = IF heads[entries[g]] = 0 THEN totalKeys - 1 ELSE totalKeys
    <2>1. IF heads[entries[gc.key]] = 0 THEN totalKeys' = totalKeys - 1 ELSE totalKeys' = totalKeys
      BY DEF GCKeyDone
    <2> QED BY <1>4, <2>1
  <1>8. CountInv'
    <2>1. CountInv
      BY InvariantParts
    <2>2. PICK K : K = {l \in Keys : entries[l] # 0}
      OBVIOUS
    <2>3. IsFiniteSet(K) /\ totalKeys = Cardinality(K) /\ g \in K
      BY <1>2, <1>4, <2>1, <2>2 DEF CountInv, AccountsBalance
    <2>4. PICK K2 : K2 = {l \in Keys : entries'[l] # 0}
      OBVIOUS
    <2>5. IsFiniteSet(K2) /\ totalKeys' = Cardinality(K2)
      <3>1. CASE heads[entries[g]] = 0
        <4>1. K2 = K \ {g}
          BY <1>6, <2>2, <2>4, <3>1
        <4> QED BY <1>7, <2>3, <3>1, <4>1, FS_RemoveElement
      <3>2. CASE heads[entries[g]] # 0
        <4>1. K2 = K
          BY <1>6, <2>2, <2>4, <3>2
        <4> QED BY <1>7, <2>3, <3>2, <4>1
      <3> QED BY <3>1, <3>2
    <2>6. UNION {Linked(k)' : k \in Keys} = UNION {Linked(k) : k \in Keys}
      BY <1>2
    <2>7. gc'.freed = gc.freed
      BY <1>1, <1>3 DEF GCRec
    <2> QED BY <1>3, <2>1, <2>4, <2>5, <2>6, <2>7 DEF CountInv, AccountsBalance
  <1>9. totalKeys' \in Nat
    <2>1. IsFiniteSet({l \in Keys : entries'[l] # 0})
            /\ totalKeys' = Cardinality({l \in Keys : entries'[l] # 0})
      BY <1>8 DEF CountInv, AccountsBalance
    <2> QED BY <2>1, FS_CardinalityType
  <1>10. StoreType'
    <2>1. entries' \in [Keys -> ChainIds]
      BY <1>1, <1>2
    <2>2. NodeIds' = NodeIds /\ ChainIds' = ChainIds /\ NodeRec' = NodeRec
      BY <1>3 DEF NodeIds, ChainIds, NodeRec
    <2> QED BY <1>1, <1>3, <1>9, <2>1, <2>2 DEF StoreType
  <1>11. Shape'
    BY <1>2, <1>10 DEF Shape
  <1>12. Evolves
    BY <1>1, <1>2, KeyDoneEvolves
  <1>13. NoGap' /\ VersionInv'
    <2>1. VersionInv'
      BY <1>1, <1>3 DEF VersionInv
    <2>2. ASSUME NEW n \in 1 .. Len(nodes), NEW k \in Keys, k = nodes[n].key
          PROVE  \A m \in Linked(k)' : m < n => m <= nodes[n].next
      BY <1>1, <1>2, <2>2 DEF NoGap
    <2>3. NoGap'
      BY <1>1, <1>3, <2>2 DEF NoGap
    <2> QED BY <2>1, <2>3
  <1>14. gc' \in GCRec /\ gc'.pc = "keys" /\ gc'.keys = gc.keys /\ gc'.bucket = gc.bucket
    BY <1>1, <1>3 DEF GCRec
  <1>15. GCInv'
    <2>1. /\ gc.bucket < NumBuckets /\ g \notin gc.keys
          /\ \A l \in gc.keys : l \in Keys /\ Bucket[l] = gc.bucket /\ entries[l] # 0
      BY <1>1, <1>3, <1>4 DEF GCInv, GCRec
    <2>2. \A l \in gc.keys : entries'[l] # 0
      BY <1>6, <2>1
    <2> QED BY <1>14, <2>1, <2>2 DEF GCInv
  <1>16. ActorTypes' /\ ActorFacts'
    BY <1>3, <1>11, <1>12, <1>14, GCLeavesActors
  <1>17. StoreFacts'
    BY <1>11, <1>13 DEF StoreFacts
  <1> QED BY <1>8, <1>15, <1>16, <1>17, InvariantParts, PTL

LEMMA GCReturnStep ==
  ASSUME IInv, GCReturn
  PROVE  IInv'
  <1>1. /\ Shape /\ NoGap /\ VersionInv /\ GCInv /\ LinkedFacts /\ StoreType /\ gc \in GCRec
        /\ LinksInv /\ Len(nodes) \in Nat /\ 0 \in NodeIds
        /\ \A n \in 1 .. Len(nodes) : nodes[n].key \in Keys
    BY Before
  <1>2. /\ totalVersions' = totalVersions - gc.freed /\ gc' = IdleGC
        /\ UNCHANGED <<nodes, heads, entries, totalKeys, pool, tx, reader>>
    BY DEF GCReturn
  <1>3. \A k \in Keys : Linked(k)' = Linked(k)
    BY <1>2 DEF Linked, Below, NodeIds
  <1>4. CountInv
    BY InvariantParts
  <1>5. gc' \in GCRec /\ gc'.pc = "idle" /\ gc'.freed = 0
    <2>1. 0 \in 0 .. NumBuckets /\ 0 \in Nat
      BY BucketAssumption
    <2> QED BY <1>1, <1>2, <2>1 DEF IdleGC, GCRec
  <1>6. PICK U : U = UNION {Linked(k) : k \in Keys}
    OBVIOUS
  <1>7. IsFiniteSet(U) /\ totalVersions' = Cardinality(U)
    <2>1. IsFiniteSet(U)
      BY <1>1, <1>6, AllLinkedFinite
    <2>2. totalVersions - gc.freed = Cardinality(U)
      BY <1>4, <1>6 DEF CountInv, AccountsBalance
    <2> QED BY <1>2, <2>1, <2>2
  <1>8. totalVersions' \in Nat
    BY <1>7, FS_CardinalityType
  <1>9. CountInv'
    <2>1. {k \in Keys : entries'[k] # 0} = {k \in Keys : entries[k] # 0}
      BY <1>2
    <2>2. UNION {Linked(k)' : k \in Keys} = U
      BY <1>3, <1>6
    <2>3. totalVersions' - gc'.freed = Cardinality(U)
      BY <1>5, <1>7, <1>8
    <2> QED BY <1>2, <1>4, <2>1, <2>2, <2>3 DEF CountInv, AccountsBalance
  <1>10. StoreType' /\ LinksInv'
    <2>1. NodeIds' = NodeIds /\ ChainIds' = ChainIds /\ NodeRec' = NodeRec
      BY <1>2 DEF NodeIds, ChainIds, NodeRec
    <2> QED BY <1>1, <1>2, <1>8, <2>1 DEF StoreType, LinksInv
  <1>11. Shape'
    BY <1>10 DEF Shape
  <1>12. Evolves
    BY <1>1, <1>2, <1>3, SameChainsEvolve DEF NodesKept
  <1>13. NoGap' /\ VersionInv'
    <2>1. VersionInv'
      BY <1>1, <1>2 DEF VersionInv
    <2>2. ASSUME NEW n \in 1 .. Len(nodes), NEW k \in Keys, k = nodes[n].key
          PROVE  \A m \in Linked(k)' : m < n => m <= nodes[n].next
      BY <1>1, <1>3, <2>2 DEF NoGap
    <2>3. NoGap'
      BY <1>1, <1>2, <2>2 DEF NoGap
    <2> QED BY <2>1, <2>3
  <1>14. GCInv'
    BY <1>5 DEF GCInv
  <1>15. ActorTypes' /\ ActorFacts'
    BY <1>2, <1>5, <1>11, <1>12, GCLeavesActors
  <1>16. StoreFacts'
    BY <1>11, <1>13 DEF StoreFacts
  <1> QED BY <1>9, <1>14, <1>15, <1>16, InvariantParts, PTL

--------------------------------------------------------------------------------
(* The invariant, and what follows from it *)

LEMMA InitHolds ==
  ASSUME Init
  PROVE  IInv
  <1>1. /\ nodes = <<>> /\ heads = <<>> /\ entries = [k \in Keys |-> 0]
        /\ totalKeys = 0 /\ totalVersions = 0 /\ pool = {}
        /\ tx = [t \in Txs |-> IdleTx] /\ reader = [r \in Readers |-> IdleReader]
        /\ gc = IdleGC
    BY DEF Init
  <1>2. NodeIds = {0} /\ ChainIds = {0}
    BY <1>1 DEF NodeIds, ChainIds
  <1>3. \A k \in Keys : Linked(k) = {}
    BY <1>1 DEF Linked
  <1>4. Shape
    BY <1>1, <1>2 DEF Shape, StoreType, LinksInv
  <1>5. NoGap /\ VersionInv
    BY <1>1 DEF NoGap, VersionInv
  <1>6. ActorTypes
    <2>1. TxType
      BY <1>1, <1>2 DEF TxType, TxRec, IdleTx
    <2>2. ReaderType
      <3>1. NotFound \in ResultType
        BY DEF NotFound, ResultType
      <3>2. IdleReader \in ReaderRec
        BY <1>2, <3>1 DEF IdleReader, ReaderRec
      <3> QED BY <1>1, <3>2 DEF ReaderType
    <2>3. GCType
      <3>1. 0 \in 0 .. NumBuckets
        BY BucketAssumption
      <3> QED BY <1>1, <1>2, <3>1 DEF GCType, GCRec, IdleGC
    <2> QED BY <2>1, <2>2, <2>3 DEF ActorTypes
  <1>7. CountInv
    <2>1. {k \in Keys : entries[k] # 0} = {}
      BY <1>1
    <2>2. UNION {Linked(k) : k \in Keys} = {}
      BY <1>3
    <2>3. IsFiniteSet({}) /\ Cardinality({}) = 0
      BY FS_EmptySet
    <2>4. gc.freed = 0
      BY <1>1 DEF IdleGC
    <2>5. totalVersions - gc.freed = 0
      BY <1>1, <2>4
    <2> QED BY <1>1, <2>1, <2>2, <2>3, <2>5 DEF CountInv, AccountsBalance
  <1>8. GCInv
    BY <1>1 DEF GCInv, IdleGC
  <1>9. ActorFacts
    <2>1. ASSUME NEW t \in Txs
          PROVE  TxOK(t, tx[t])
      BY <1>1 DEF TxOK, IdleTx
    <2>2. ASSUME NEW r \in Readers
          PROVE  WalkOK(reader[r])
      BY <1>1 DEF WalkOK, IdleReader
    <2> QED BY <2>1, <2>2 DEF ActorFacts
  <1> QED BY <1>4, <1>5, <1>6, <1>7, <1>8, <1>9, InvariantParts DEF StoreFacts

LEMMA Stuttering ==
  ASSUME IInv, UNCHANGED vars
  PROVE  IInv'
  <1>1. GCInv /\ gc \in GCRec
    BY Before
  <1>2. UNCHANGED <<store, tx, reader, gc>>
    BY DEF vars, store
  <1>3. \A k \in Keys : Linked(k)' = Linked(k)
    BY <1>2 DEF store, Linked, Below, NodeIds
  <1>4. GCInv'
    BY <1>1, <1>2, <1>3, GCStays
  <1> QED BY <1>1, <1>2, <1>4, GCMoves

LEMMA StepsKeepIInv ==
  ASSUME UsePool = FALSE, IInv, [Next]_vars
  PROVE  IInv'
  <1>1. CASE UNCHANGED vars
    BY <1>1, Stuttering
  <1>2. ASSUME NEW t \in Txs, NEW k \in Keys, Write(t, k)
        PROVE  IInv'
    BY <1>2, WriteStep
  <1>3. ASSUME NEW t \in Txs, Reexecute(t) \/ Commit(t)
        PROVE  IInv'
    BY <1>3, ReexecuteStep, CommitBegins
  <1>4. ASSUME NEW t \in Txs, CommitStep(t)
        PROVE  IInv'
    BY <1>4, CommitLookupStep, CommitHeadStep, MarkStep, MarkNextStep, MarkNothingStep,
       CommitReturnStep DEF CommitStep
  <1>5. ASSUME NEW r \in Readers, NEW k \in Keys, NEW a \in ReadAt, Read(r, k, a)
        PROVE  IInv'
    BY <1>5, ReadStarts
  <1>6. ASSUME NEW r \in Readers, Validate(r) \/ Finish(r)
        PROVE  IInv'
    BY <1>6, ValidateStarts, FinishStep
  <1>7. ASSUME NEW r \in Readers, ReadStep(r)
        PROVE  IInv'
    BY <1>7, ReadLookupStep, ReadHeadStep, FindVersionStep, FindNextStep, FindNothingStep
       DEF ReadStep
  <1>8. ASSUME NEW b \in GCBefore, GC(b)
        PROVE  IInv'
    BY <1>8, GCStarts
  <1>9. ASSUME GCStep
        PROVE  IInv'
    BY <1>9, GCLockStep, GCKeyStep, GCKeepStep, GCRemoveStep, GCKeyDoneStep, GCUnlockStep,
       GCReturnStep DEF GCStep
  <1> QED BY <1>1, <1>2, <1>3, <1>4, <1>5, <1>6, <1>7, <1>8, <1>9 DEF Next

\* Without a MemoryPool the inductive invariant holds in every reachable state: nodes
\* keep their order, GC takes versions out one at a time, and whoever walks along a chain
\* still has everything ahead of it that it has to find (lockfree.go's Write, Read,
\* Commit, findVersion and GC).
THEOREM Consistency ==
  ASSUME UsePool = FALSE
  PROVE  Spec => []IInv
  <1>1. Init => IInv
    BY InitHolds
  <1>2. IInv /\ [Next]_vars => IInv'
    BY StepsKeepIInv
  <1> QED BY <1>1, <1>2, PTL DEF Spec

\* findVersion passes by no version it should have returned, whatever GC unlinks.
THEOREM ReadsSkipNoVersion ==
  ASSUME UsePool = FALSE
  PROVE  Spec => []NoVersionSkipped
  <1>1. IInv => NoVersionSkipped
    BY DEF IInv
  <1> QED BY <1>1, Consistency, PTL

\* A committed version that was read and that Validate accepts had no other version of a
\* lower transaction on top of it when the validation loaded the head of the chain.
THEOREM ValidationIsSound ==
  ASSUME UsePool = FALSE
  PROVE  Spec => []ValidReadIsCurrent
  <1>1. IInv => ValidReadIsCurrent
    BY DEF IInv
  <1> QED BY <1>1, Consistency, PTL

\* Commit marks the versions of its own transaction and incarnation, all of them that are
\* still in the store and no others.
THEOREM CommitsAreExact ==
  ASSUME UsePool = FALSE
  PROVE  Spec => []CommitExact
  <1>1. ASSUME IInv
        PROVE  CommitExact
    <2>1. /\ LinkedFacts /\ \A t \in Txs : TxOK(t, tx[t])
          /\ \A n \in 1 .. Len(nodes) : nodes[n].tx \in Txs
      BY <1>1, Before
    <2> SUFFICES ASSUME NEW k \in Keys, NEW n \in Linked(k), NEW t, t = nodes[n].tx
                 PROVE  /\ nodes[n].status = "committed" =>
                              tx[t].pc # "execute" /\ nodes[n].inc = tx[t].inc
                        /\ tx[t].pc = "committed" /\ nodes[n].inc = tx[t].inc =>
                              nodes[n].status = "committed"
      BY DEF CommitExact
    <2>2. n \in 1 .. Len(nodes) /\ t \in Txs
      BY <2>1 DEF LinkedFacts, LinkedOf
    <2>3. TxOK(t, tx[t])
      BY <2>1, <2>2
    <2> QED BY <2>2, <2>3 DEF TxOK, Made
  <1>2. IInv => CommitExact
    BY <1>1
  <1> QED BY <1>2, Consistency, PTL

--------------------------------------------------------------------------------
(* What the abstract store of versions sees of the nodes and of the actors *)

LEMMA WrittenFacts ==
  ASSUME StoreType
  PROVE  /\ Written \in Seq([key: Keys, tx: Txs, inc: Nat]) /\ Len(Written) = Len(nodes)
         /\ DOMAIN Written = 1 .. Len(nodes)
         /\ \A n \in 1 .. Len(nodes) :
              Written[n] = [key |-> nodes[n].key, tx |-> nodes[n].tx, inc |-> nodes[n].inc]
  <1>1. /\ Len(nodes) \in Nat
        /\ \A n \in 1 .. Len(nodes) :
             nodes[n].key \in Keys /\ nodes[n].tx \in Txs /\ nodes[n].inc \in Nat
    BY StoreTypeFacts
  <1>2. Written \in [1 .. Len(nodes) -> [key: Keys, tx: Txs, inc: Nat]]
    BY <1>1 DEF Written
  <1>3. Written \in Seq([key: Keys, tx: Txs, inc: Nat]) /\ Len(Written) = Len(nodes)
    BY <1>1, <1>2, SeqIsFunction
  <1> QED BY <1>2, <1>3 DEF Written

LEMMA WrittenKept ==
  ASSUME Len(nodes') = Len(nodes), \A n \in 1 .. Len(nodes) : NodesKept(n)
  PROVE  Written' = Written
  BY DEF Written, NodesKept

TransactionOf(T) ==
  [pc |-> IF T.pc \in {"head", "mark"} THEN "commit" ELSE T.pc,
   inc |-> T.inc, writes |-> T.writes]

Fits(R) == {n \in Linked(R.key) : nodes[n].tx < R.at}

MustOf(R) ==
  CASE R.pc = "lookup" -> Fits(R)
    [] R.pc = "head" -> IF entries[R.key] = R.chain THEN Fits(R) ELSE {}
    [] R.pc = "visit" -> Seen(R)
    [] OTHER -> {}

IsReading(R) == R.pc \in {"lookup", "head", "visit"}

CallOf(R) ==
  [pc |-> IF R.pc = "idle" THEN "idle"
          ELSE IF R.pc \in {"read", "validated"} THEN "answered" ELSE "reading",
   key |-> R.key, at |-> R.at, must |-> MustOf(R),
   answer |-> IF R.pc = "read" THEN R.first
              ELSE IF R.pc = "validated" THEN R.second ELSE NotFound]

LEMMA Mapping ==
  /\ Transactions = [t \in Txs |-> TransactionOf(tx[t])]
  /\ Calls = [r \in Readers |-> CallOf(reader[r])]
  <1>1. Transactions = [t \in Txs |-> TransactionOf(tx[t])]
    BY DEF Transactions, TransactionOf
  <1>2. ASSUME NEW r \in Readers
        PROVE  Must(r) = MustOf(reader[r])
    BY DEF Must, MustOf, Fits, Candidates, Seen
  <1>3. ASSUME NEW r \in Readers
        PROVE  (CASE reader[r].pc = "idle" -> "idle"
                  [] reader[r].pc \in {"read", "validated"} -> "answered"
                  [] OTHER -> "reading")
               = IF reader[r].pc = "idle" THEN "idle"
                 ELSE IF reader[r].pc \in {"read", "validated"} THEN "answered" ELSE "reading"
    OBVIOUS
  <1>4. ASSUME NEW r \in Readers
        PROVE  (CASE reader[r].pc = "read" -> reader[r].first
                  [] reader[r].pc = "validated" -> reader[r].second
                  [] OTHER -> NotFound)
               = IF reader[r].pc = "read" THEN reader[r].first
                 ELSE IF reader[r].pc = "validated" THEN reader[r].second ELSE NotFound
    OBVIOUS
  <1>5. Calls = [r \in Readers |-> CallOf(reader[r])]
    BY <1>2, <1>3, <1>4 DEF Calls, CallOf
  <1> QED BY <1>1, <1>5

LEMMA CallsAfter ==
  Calls' = [r \in Readers |-> CallOf(reader[r])']
  <1>1. Calls = [r \in Readers |-> CallOf(reader[r])]
    BY Mapping
  <1>2. (Calls = [r \in Readers |-> CallOf(reader[r])])'
    BY <1>1, PTL
  <1> QED BY <1>2

LEMMA CallAfter ==
  ASSUME NEW r \in Readers, NEW R, reader'[r] = R
  PROVE  CallOf(reader[r])' = CallOf(R)'
  BY DEF CallOf, MustOf, Fits, Seen, Linked

\* Where the versions of the keys stay, so do those a read has to consider.
LEMMA MustStays ==
  ASSUME LinkedFacts, NEW R, IsReading(R) => R.key \in Keys,
         \A n \in 1 .. Len(nodes) : nodes'[n].tx = nodes[n].tx,
         \A k \in Keys : Linked(k)' = Linked(k),
         \A k \in Keys : entries'[k] = entries[k] \/ Linked(k) = {}
  PROVE  CallOf(R)' = CallOf(R)
  <1>1. IsReading(R) => Fits(R)' = Fits(R) /\ Seen(R)' = Seen(R)
    <2> SUFFICES ASSUME IsReading(R)
                 PROVE  Fits(R)' = Fits(R) /\ Seen(R)' = Seen(R)
      OBVIOUS
    <2>1. Linked(R.key)' = Linked(R.key) /\ \A n \in Linked(R.key) : nodes'[n].tx = nodes[n].tx
      BY DEF LinkedFacts, LinkedOf
    <2> QED BY <2>1 DEF Fits, Seen
  <1>2. R.pc = "head" /\ entries'[R.key] # entries[R.key] => Fits(R) = {}
    BY DEF IsReading, Fits
  <1>3. MustOf(R)' = MustOf(R)
    BY <1>1, <1>2 DEF MustOf, IsReading
  <1> QED BY <1>3 DEF CallOf

LEMMA NobodySees ==
  ASSUME IInv, UNCHANGED store
  PROVE  /\ Written' = Written /\ Live' = Live /\ Committed' = Committed
         /\ \A R \in ReaderRec : (IsReading(R) => R.key \in Keys) => CallOf(R)' = CallOf(R)
  <1>1. LinkedFacts /\ Shape
    BY Before
  <1>2. nodes' = nodes /\ heads' = heads /\ entries' = entries
    BY DEF store
  <1>3. \A k \in Keys : Linked(k)' = Linked(k)
    BY <1>2 DEF Linked, Below, NodeIds
  <1>4. Written' = Written /\ Live' = Live /\ Committed' = Committed
    BY <1>2, <1>3 DEF Written, Live, Committed
  <1>5. ASSUME NEW R \in ReaderRec, IsReading(R) => R.key \in Keys
        PROVE  CallOf(R)' = CallOf(R)
    BY <1>1, <1>2, <1>3, <1>5, MustStays
  <1> QED BY <1>4, <1>5

\* A reader whose call looks as before, and that does not move, is as before.
LEMMA CallsStay ==
  ASSUME IInv, NEW r \in Readers, reader'[r] = reader[r],
         \A R \in ReaderRec : (IsReading(R) => R.key \in Keys) => CallOf(R)' = CallOf(R)
  PROVE  CallOf(reader[r])' = CallOf(reader[r])
  <1>1. reader \in [Readers -> ReaderRec] /\ WalkOK(reader[r])
    BY Before
  <1>2. PICK R \in ReaderRec : R = reader[r]
    BY <1>1
  <1>3. IsReading(R) => R.key \in Keys
    BY <1>1, <1>2 DEF IsReading, WalkOK
  <1>4. CallOf(R)' = CallOf(R)
    BY <1>3
  <1>5. CallOf(reader[r])' = CallOf(R)'
    BY <1>2, CallAfter
  <1> QED BY <1>2, <1>4, <1>5

\* A step of transaction t that its versions take no part in.
LEMMA OnlyTx ==
  ASSUME IInv, NEW t \in Txs, NEW T, tx' = [tx EXCEPT ![t] = T],
         UNCHANGED <<store, reader, gc>>
  PROVE  /\ UNCHANGED <<Written, Live, Committed, Calls, Horizon>>
         /\ Transactions' = [Transactions EXCEPT ![t] = TransactionOf(T)]
  <1>1. tx \in [Txs -> TxRec]
    BY Before
  <1>2. /\ Written' = Written /\ Live' = Live /\ Committed' = Committed
        /\ \A R \in ReaderRec : (IsReading(R) => R.key \in Keys) => CallOf(R)' = CallOf(R)
    BY NobodySees
  <1>3. \A r \in Readers : CallOf(reader[r])' = CallOf(reader[r])
    BY <1>2, CallsStay
  <1>4. Calls' = Calls
    <2>1. Calls' = [r \in Readers |-> CallOf(reader[r])']
      BY CallsAfter
    <2> QED BY <1>3, <2>1, Mapping
  <1>5. Transactions' = [Transactions EXCEPT ![t] = TransactionOf(T)]
    <2>1. Transactions' = [u \in Txs |-> TransactionOf(tx'[u])]
      BY DEF Transactions, TransactionOf
    <2>2. \A u \in Txs : tx'[u] = IF u = t THEN T ELSE tx[u]
      BY <1>1
    <2> QED BY <2>1, <2>2, Mapping
  <1> QED BY <1>2, <1>4, <1>5 DEF Horizon

\* A step of reader r to record R.
LEMMA OnlyReader ==
  ASSUME IInv, NEW r \in Readers, NEW R \in ReaderRec, IsReading(R) => R.key \in Keys,
         reader' = [reader EXCEPT ![r] = R], UNCHANGED <<store, tx, gc>>
  PROVE  /\ UNCHANGED <<Written, Live, Committed, Transactions, Horizon>>
         /\ Calls' = [Calls EXCEPT ![r] = CallOf(R)]
  <1>1. reader \in [Readers -> ReaderRec]
    BY Before
  <1>2. /\ Written' = Written /\ Live' = Live /\ Committed' = Committed
        /\ \A Q \in ReaderRec : (IsReading(Q) => Q.key \in Keys) => CallOf(Q)' = CallOf(Q)
    BY NobodySees
  <1>3. ASSUME NEW q \in Readers
        PROVE  CallOf(reader[q])' = IF q = r THEN CallOf(R) ELSE CallOf(reader[q])
    <2>1. CASE q # r
      <3>1. reader'[q] = reader[q]
        BY <1>1, <2>1
      <3> QED BY <1>2, <2>1, <3>1, CallsStay
    <2>2. CASE q = r
      <3>1. reader'[q] = R
        BY <1>1, <2>2
      <3>2. CallOf(reader[q])' = CallOf(R)'
        BY <3>1, CallAfter
      <3> QED BY <1>2, <2>2, <3>2
    <2> QED BY <2>1, <2>2
  <1>4. Calls' = [q \in Readers |-> CallOf(reader[q])']
    BY CallsAfter
  <1>5. Calls' = [Calls EXCEPT ![r] = CallOf(R)]
    BY <1>3, <1>4, Mapping
  <1> QED BY <1>2, <1>5 DEF Transactions, Horizon

\* A step of GC.
LEMMA OnlyGC ==
  ASSUME IInv, UNCHANGED <<store, tx, reader>>
  PROVE  UNCHANGED <<Written, Live, Committed, Transactions, Calls>>
  <1>1. /\ Written' = Written /\ Live' = Live /\ Committed' = Committed
        /\ \A Q \in ReaderRec : (IsReading(Q) => Q.key \in Keys) => CallOf(Q)' = CallOf(Q)
    BY NobodySees
  <1>2. \A r \in Readers : CallOf(reader[r])' = CallOf(reader[r])
    BY <1>1, CallsStay
  <1>3. Calls' = Calls
    <2>1. Calls' = [r \in Readers |-> CallOf(reader[r])']
      BY CallsAfter
    <2> QED BY <1>2, <2>1, Mapping
  <1> QED BY <1>1, <1>3 DEF Transactions

--------------------------------------------------------------------------------
(* Every step is one of the abstract store, or changes nothing there *)

Unseen == UNCHANGED <<Written, Live, Committed, Transactions, Calls, Horizon>>

LEMMA TransactionOfRecord ==
  ASSUME NEW T
  PROVE  /\ TransactionOf(T).pc = IF T.pc \in {"head", "mark"} THEN "commit" ELSE T.pc
         /\ TransactionOf(T).inc = T.inc /\ TransactionOf(T).writes = T.writes
  BY DEF TransactionOf

LEMMA ReexecuteSeen ==
  ASSUME IInv, NEW t \in Txs, Reexecute(t)
  PROVE  Versions!Reexecute(t)
  <1>1. tx \in [Txs -> TxRec]
    BY Before
  <1>2. PICK Q \in TxRec : Q = tx[t]
    BY <1>1
  <1>3. PICK T : T = [Q EXCEPT !.inc = Q.inc + 1, !.writes = {}]
    OBVIOUS
  <1>4. /\ Q.pc = "execute" /\ Q.inc < MaxIncarnation[t] /\ Q.writes # {}
        /\ tx' = [tx EXCEPT ![t] = T] /\ UNCHANGED <<store, reader, gc>>
    BY <1>1, <1>2, <1>3 DEF Reexecute
  <1>5. T.pc = "execute" /\ T.inc = Q.inc + 1 /\ T.writes = {}
    BY <1>3, <1>4 DEF TxRec
  <1>6. /\ UNCHANGED <<Written, Live, Committed, Calls, Horizon>>
        /\ Transactions' = [Transactions EXCEPT ![t] = TransactionOf(T)]
    BY <1>4, OnlyTx
  <1>7. Transactions[t] = TransactionOf(Q)
    BY <1>2, Mapping
  <1>8. TransactionOf(T) = [TransactionOf(Q) EXCEPT !.inc = Q.inc + 1, !.writes = {}]
    <2>1. PICK j : j = Q.inc + 1
      OBVIOUS
    <2>2. TransactionOf(Q) = [pc |-> "execute", inc |-> Q.inc, writes |-> Q.writes]
      BY <1>4 DEF TransactionOf
    <2>3. TransactionOf(T) = [pc |-> "execute", inc |-> j, writes |-> {}]
      BY <1>5, <2>1 DEF TransactionOf
    <2>4. [TransactionOf(Q) EXCEPT !.inc = j]
            = [pc |-> "execute", inc |-> j, writes |-> Q.writes]
      BY <2>2
    <2>5. [[pc |-> "execute", inc |-> j, writes |-> Q.writes] EXCEPT !.writes = {}]
            = [pc |-> "execute", inc |-> j, writes |-> {}]
      OBVIOUS
    <2> QED BY <2>1, <2>3, <2>4, <2>5, Zenon
  <1>9. Transactions' = [Transactions EXCEPT ![t].inc = @ + 1, ![t].writes = {}]
    <2>1. TransactionOf(Q).inc = Q.inc
      BY TransactionOfRecord
    <2> QED BY <1>6, <1>7, <1>8, <2>1, Mapping
  <1> QED BY <1>4, <1>6, <1>7, <1>9, TransactionOfRecord DEF Versions!Reexecute

LEMMA CommitSeen ==
  ASSUME IInv, NEW t \in Txs, Commit(t)
  PROVE  Versions!Commit(t)
  <1>1. tx \in [Txs -> TxRec]
    BY Before
  <1>2. PICK Q \in TxRec : Q = tx[t]
    BY <1>1
  <1>3. PICK T : T = [Q EXCEPT !.pc = "commit", !.left = Q.writes]
    OBVIOUS
  <1>4. /\ Q.pc = "execute" /\ Q.writes # {}
        /\ tx' = [tx EXCEPT ![t] = T] /\ UNCHANGED <<store, reader, gc>>
    BY <1>1, <1>2, <1>3 DEF Commit
  <1>5. T.pc = "commit" /\ T.inc = Q.inc /\ T.writes = Q.writes
    BY <1>3 DEF TxRec
  <1>6. /\ UNCHANGED <<Written, Live, Committed, Calls, Horizon>>
        /\ Transactions' = [Transactions EXCEPT ![t] = TransactionOf(T)]
    BY <1>4, OnlyTx
  <1>7. Transactions[t] = TransactionOf(Q)
    BY <1>2, Mapping
  <1>8. TransactionOf(T) = [TransactionOf(Q) EXCEPT !.pc = "commit"]
    BY <1>4, <1>5 DEF TransactionOf
  <1>9. Transactions' = [Transactions EXCEPT ![t].pc = "commit"]
    BY <1>6, <1>7, <1>8, Mapping
  <1> QED BY <1>4, <1>6, <1>7, <1>9, TransactionOfRecord DEF Versions!Commit

\* A step of a Commit on its way.
LEMMA TxUnseen ==
  ASSUME IInv, NEW t \in Txs, NEW T, tx' = [tx EXCEPT ![t] = T],
         UNCHANGED <<store, reader, gc>>, TransactionOf(T) = TransactionOf(tx[t])
  PROVE  Unseen
  <1>1. /\ UNCHANGED <<Written, Live, Committed, Calls, Horizon>>
        /\ Transactions' = [Transactions EXCEPT ![t] = TransactionOf(T)]
    BY OnlyTx
  <1>2. Transactions' = Transactions
    BY <1>1, Mapping
  <1> QED BY <1>1, <1>2 DEF Unseen

LEMMA WalkUnseen ==
  ASSUME IInv, NEW t \in Txs,
         (\E k \in Keys : CommitLookup(t, k)) \/ CommitHead(t) \/ MarkNext(t) \/ MarkNothing(t)
  PROVE  Unseen
  <1>1. tx \in [Txs -> TxRec]
    BY Before
  <1>2. PICK Q \in TxRec : Q = tx[t]
    BY <1>1
  <1>3. \E T : /\ tx' = [tx EXCEPT ![t] = T] /\ UNCHANGED <<store, reader, gc>>
               /\ TransactionOf(T) = TransactionOf(Q)
    <2>1. ASSUME NEW k \in Keys, CommitLookup(t, k)
          PROVE  \E T : /\ tx' = [tx EXCEPT ![t] = T] /\ UNCHANGED <<store, reader, gc>>
                        /\ TransactionOf(T) = TransactionOf(Q)
      <3>1. PICK T : T = IF entries[k] = 0 THEN [Q EXCEPT !.left = Q.left \ {k}]
                         ELSE [Q EXCEPT !.pc = "head", !.key = k, !.chain = entries[k]]
        OBVIOUS
      <3>2. /\ Q.pc = "commit" /\ tx' = [tx EXCEPT ![t] = T]
            /\ UNCHANGED <<store, reader, gc>>
        BY <1>1, <1>2, <2>1, <3>1 DEF CommitLookup
      <3>3. T.pc \in {"commit", "head"} /\ T.inc = Q.inc /\ T.writes = Q.writes
        BY <3>1, <3>2 DEF TxRec
      <3> QED BY <3>2, <3>3 DEF TransactionOf
    <2>2. ASSUME CommitHead(t)
          PROVE  \E T : /\ tx' = [tx EXCEPT ![t] = T] /\ UNCHANGED <<store, reader, gc>>
                        /\ TransactionOf(T) = TransactionOf(Q)
      <3>1. PICK T : T = [Q EXCEPT !.pc = "mark", !.node = heads[Q.chain]]
        OBVIOUS
      <3>2. /\ Q.pc = "head" /\ tx' = [tx EXCEPT ![t] = T]
            /\ UNCHANGED <<store, reader, gc>>
        BY <1>1, <1>2, <2>2, <3>1 DEF CommitHead
      <3>3. T.pc = "mark" /\ T.inc = Q.inc /\ T.writes = Q.writes
        BY <3>1 DEF TxRec
      <3> QED BY <3>2, <3>3 DEF TransactionOf
    <2>3. ASSUME MarkNext(t)
          PROVE  \E T : /\ tx' = [tx EXCEPT ![t] = T] /\ UNCHANGED <<store, reader, gc>>
                        /\ TransactionOf(T) = TransactionOf(Q)
      <3>1. PICK T : T = [Q EXCEPT !.node = nodes[Q.node].next]
        OBVIOUS
      <3>2. tx' = [tx EXCEPT ![t] = T] /\ UNCHANGED <<store, reader, gc>>
        BY <1>1, <1>2, <2>3, <3>1 DEF MarkNext
      <3>3. T.pc = Q.pc /\ T.inc = Q.inc /\ T.writes = Q.writes
        BY <3>1 DEF TxRec
      <3> QED BY <3>2, <3>3 DEF TransactionOf
    <2>4. ASSUME MarkNothing(t)
          PROVE  \E T : /\ tx' = [tx EXCEPT ![t] = T] /\ UNCHANGED <<store, reader, gc>>
                        /\ TransactionOf(T) = TransactionOf(Q)
      <3>1. PICK T : T = [Q EXCEPT !.pc = "commit", !.left = Q.left \ {Q.key}, !.key = NoKey,
                                   !.chain = 0, !.node = 0]
        OBVIOUS
      <3>2. Q.pc = "mark" /\ tx' = [tx EXCEPT ![t] = T] /\ UNCHANGED <<store, reader, gc>>
        BY <1>1, <1>2, <2>4, <3>1 DEF MarkNothing, Marked
      <3>3. T.pc = "commit" /\ T.inc = Q.inc /\ T.writes = Q.writes
        BY <3>1 DEF TxRec
      <3> QED BY <3>2, <3>3 DEF TransactionOf
    <2> QED BY <2>1, <2>2, <2>3, <2>4
  <1> QED BY <1>2, <1>3, TxUnseen

LEMMA CommitReturnSeen ==
  ASSUME IInv, NEW t \in Txs, CommitReturn(t)
  PROVE  Versions!CommitReturn(t)
  <1>1. /\ tx \in [Txs -> TxRec] /\ TxOK(t, tx[t]) /\ StoreType /\ LinkedFacts
        /\ Len(nodes) \in Nat
    BY Before
  <1>2. PICK Q \in TxRec : Q = tx[t]
    BY <1>1
  <1>3. PICK T : T = [Q EXCEPT !.pc = "committed"]
    OBVIOUS
  <1>4. /\ Q.pc = "commit" /\ Q.left = {}
        /\ tx' = [tx EXCEPT ![t] = T] /\ UNCHANGED <<store, reader, gc>>
    BY <1>1, <1>2, <1>3 DEF CommitReturn
  <1>5. T.pc = "committed" /\ T.inc = Q.inc /\ T.writes = Q.writes
    BY <1>3 DEF TxRec
  <1>6. /\ UNCHANGED <<Written, Live, Committed, Calls, Horizon>>
        /\ Transactions' = [Transactions EXCEPT ![t] = TransactionOf(T)]
    BY <1>4, OnlyTx
  <1>7. Transactions[t] = TransactionOf(Q)
    BY <1>2, Mapping
  <1>8. Transactions' = [Transactions EXCEPT ![t].pc = "committed"]
    <2>1. TransactionOf(T) = [TransactionOf(Q) EXCEPT !.pc = "committed"]
      BY <1>4, <1>5 DEF TransactionOf
    <2> QED BY <1>6, <1>7, <2>1, Mapping
  <1>9. ASSUME NEW n \in Live \ Committed, NEW k
        PROVE  Written[n] # [key |-> k, tx |-> t, inc |-> Q.inc]
    <2>1. PICK l \in Keys : n \in Linked(l)
      BY DEF Live
    <2>2. n \in 1 .. Len(nodes) /\ nodes[n].status # "committed"
      BY <2>1, <1>1 DEF LinkedFacts, LinkedOf, Committed
    <2>3. ~ (nodes[n].tx = t /\ nodes[n].inc = Q.inc)
      BY <1>1, <1>2, <1>4, <2>1, <2>2 DEF TxOK, Made
    <2> QED BY <1>1, <2>2, <2>3, WrittenFacts
  <1>10. \A n \in Live \ Committed : \A k \in Transactions[t].writes :
           Written[n] # [key |-> k, tx |-> t, inc |-> Transactions[t].inc]
    BY <1>7, <1>9, TransactionOfRecord
  <1> QED BY <1>4, <1>6, <1>7, <1>8, <1>10, TransactionOfRecord
          DEF Versions!CommitReturn, Versions!Version

LEMMA MarkSeen ==
  ASSUME IInv, NEW t \in Txs, MarkVersionAsCommitted(t)
  PROVE  \E n \in DOMAIN Written : Versions!Mark(t, n)
  <1>1. /\ tx \in [Txs -> TxRec] /\ TxOK(t, tx[t]) /\ StoreType /\ LinkedFacts /\ Shape
        /\ Len(nodes) \in Nat /\ NodeIds = 0 .. Len(nodes)
    BY Before
  <1>2. PICK Q \in TxRec : Q = tx[t]
    BY <1>1
  <1>3. PICK n : n = Q.node
    OBVIOUS
  <1>4. PICK T : T = [Q EXCEPT !.pc = "commit", !.left = Q.left \ {Q.key}, !.key = NoKey,
                               !.chain = 0, !.node = 0]
    OBVIOUS
  <1>5. /\ Q.pc = "mark" /\ n # 0 /\ nodes[n].tx = t /\ nodes[n].inc = Q.inc
        /\ nodes' = [nodes EXCEPT ![n].status = "committed"]
        /\ tx' = [tx EXCEPT ![t] = T]
        /\ UNCHANGED <<heads, entries, totalKeys, totalVersions, pool, reader, gc>>
    BY <1>1, <1>2, <1>3, <1>4 DEF MarkVersionAsCommitted, IsVersion, Marked
  <1>6. n \in 1 .. Len(nodes)
    BY <1>1, <1>3, <1>5 DEF TxRec
  <1>7. T.pc = "commit" /\ T.inc = Q.inc /\ T.writes = Q.writes
    BY <1>4 DEF TxRec
  <1>8. /\ Len(nodes') = Len(nodes)
        /\ \A m \in 1 .. Len(nodes) : NodesKept(m)
        /\ nodes'[n].status = "committed"
        /\ \A m \in 1 .. Len(nodes) : m # n => nodes'[m] = nodes[m]
        /\ \A k \in Keys : Linked(k)' = Linked(k)
    BY <1>1, <1>5, <1>6, MarkEffect
  <1>9. Written' = Written /\ Live' = Live
    BY <1>8, WrittenKept DEF Live
  <1>10. Committed' = Committed \cup {n}
    BY <1>6, <1>8 DEF Committed
  <1>11. Calls' = Calls
    <2>1. \A R \in ReaderRec : (IsReading(R) => R.key \in Keys) => CallOf(R)' = CallOf(R)
      BY <1>1, <1>5, <1>8, MustStays DEF NodesKept
    <2>2. \A r \in Readers : CallOf(reader[r])' = CallOf(reader[r])
      BY <1>5, <2>1, CallsStay
    <2> QED BY <2>2, CallsAfter, Mapping
  <1>12. Transactions' = Transactions
    <2>1. TransactionOf(T) = TransactionOf(Q)
      BY <1>5, <1>7 DEF TransactionOf
    <2>2. Transactions' = [u \in Txs |-> TransactionOf(tx'[u])]
      BY DEF Transactions, TransactionOf
    <2>3. \A u \in Txs : TransactionOf(tx'[u]) = TransactionOf(tx[u])
      BY <1>1, <1>2, <1>5, <2>1
    <2> QED BY <2>2, <2>3, Mapping
  <1>13. Transactions[t] = TransactionOf(Q)
    BY <1>2, Mapping
  <1>14. Q.inc \in Nat /\ nodes[n].key \in Q.writes
    BY <1>1, <1>2, <1>5, <1>6 DEF TxOK, TxRec
  <1>15. Written[n] = [key |-> nodes[n].key, tx |-> t, inc |-> Q.inc] /\ n \in DOMAIN Written
    BY <1>1, <1>5, <1>6, WrittenFacts
  <1>16. \E k \in Transactions[t].writes :
           Written[n] = [key |-> k, tx |-> t, inc |-> Transactions[t].inc]
    BY <1>13, <1>14, <1>15, TransactionOfRecord
  <1>17. Transactions[t].pc = "commit"
    BY <1>5, <1>13, TransactionOfRecord
  <1>18. Horizon' = Horizon
    BY <1>5 DEF Horizon
  <1>19. Versions!Mark(t, n)
    BY <1>9, <1>10, <1>11, <1>12, <1>16, <1>17, <1>18 DEF Versions!Mark, Versions!Version
  <1> QED BY <1>15, <1>19

--------------------------------------------------------------------------------
(* Reads, as the abstract store sees them *)

\* The versions that suit a read are those the abstract store has for it.
LEMMA SuitableSeen ==
  ASSUME IInv, NEW k \in Keys, NEW a
  PROVE  {n \in Live : Written[n].key = k /\ Written[n].tx < a}
           = {n \in Linked(k) : nodes[n].tx < a}
  <1>1. LinkedFacts /\ StoreType
    BY Before
  <1>2. \A n \in 1 .. Len(nodes) : Written[n].key = nodes[n].key /\ Written[n].tx = nodes[n].tx
    BY <1>1, WrittenFacts
  <1>3. \A l \in Keys : \A n \in Linked(l) : n \in 1 .. Len(nodes) /\ nodes[n].key = l
    BY <1>1 DEF LinkedFacts, LinkedOf
  <1>4. \A n \in Live : n \in 1 .. Len(nodes) /\ (nodes[n].key = k <=> n \in Linked(k))
    BY <1>3 DEF Live
  <1>5. Linked(k) \subseteq Live
    BY DEF Live
  <1> QED BY <1>2, <1>4, <1>5

LEMMA CallOfRecord ==
  ASSUME NEW R
  PROVE  /\ IsReading(R) => CallOf(R).pc = "reading"
         /\ R.pc = "idle" => CallOf(R).pc = "idle"
         /\ R.pc \in {"read", "validated"} => CallOf(R).pc = "answered"
         /\ CallOf(R).key = R.key /\ CallOf(R).at = R.at /\ CallOf(R).must = MustOf(R)
  BY DEF CallOf, IsReading

\* A Read or Validate begins with record R.
LEMMA LookupSeen ==
  ASSUME IInv, NEW r \in Readers, NEW R \in ReaderRec, R.pc = "lookup", R.key \in Keys,
         reader' = [reader EXCEPT ![r] = R], UNCHANGED <<store, tx, gc>>
  PROVE  Versions!BeginRead(r, R.key, R.at)
  <1>1. /\ UNCHANGED <<Written, Live, Committed, Transactions, Horizon>>
        /\ Calls' = [Calls EXCEPT ![r] = CallOf(R)]
    BY OnlyReader
  <1>2. MustOf(R) = {n \in Live : Written[n].key = R.key /\ Written[n].tx < R.at}
    BY SuitableSeen DEF MustOf, Fits
  <1>3. CallOf(R) = [pc |-> "reading", key |-> R.key, at |-> R.at, must |-> MustOf(R),
                     answer |-> NotFound]
    BY DEF CallOf
  <1>4. NotFound = Versions!NotFound
    BY DEF NotFound, Versions!NotFound
  <1>5. CallOf(R) =
          [pc |-> "reading", key |-> R.key, at |-> R.at, answer |-> Versions!NotFound,
           must |-> {n \in Live : Written[n].key = R.key /\ Written[n].tx < R.at}]
    BY <1>2, <1>3, <1>4
  <1> QED BY <1>1, <1>5 DEF Versions!BeginRead

LEMMA ReadSeen ==
  ASSUME IInv, NEW r \in Readers, NEW k \in Keys, NEW a \in ReadAt, Read(r, k, a)
  PROVE  Versions!Read(r, k, a)
  <1>1. 0 \in NodeIds /\ 0 \in ChainIds /\ reader \in [Readers -> ReaderRec]
    BY Before
  <1>2. PICK R : R = [IdleReader EXCEPT !.pc = "lookup", !.key = k, !.at = a]
    OBVIOUS
  <1>3. /\ UNCHANGED <<store, tx, gc>> /\ reader' = [reader EXCEPT ![r] = R]
        /\ reader[r].pc = "idle"
    BY <1>2 DEF Read
  <1>4. R.pc = "lookup" /\ R.key = k /\ R.at = a
    BY <1>2 DEF IdleReader
  <1>5. NotFound \in ResultType
    BY DEF NotFound, ResultType
  <1>6. R \in ReaderRec
    BY <1>1, <1>2, <1>5 DEF IdleReader, ReaderRec
  <1>7. Versions!BeginRead(r, k, a)
    BY <1>3, <1>4, <1>6, LookupSeen
  <1>8. Calls[r].pc = "idle"
    BY <1>3, Mapping, CallOfRecord
  <1> QED BY <1>7, <1>8 DEF Versions!Read

LEMMA ValidateSeen ==
  ASSUME IInv, NEW r \in Readers, Validate(r)
  PROVE  Versions!Validate(r)
  <1>1. /\ 0 \in NodeIds /\ 0 \in ChainIds
        /\ reader \in [Readers -> ReaderRec] /\ WalkOK(reader[r])
    BY Before
  <1>2. PICK Q \in ReaderRec : Q = reader[r]
    BY <1>1
  <1>3. PICK R : R = [Q EXCEPT !.pc = "lookup", !.phase = 2, !.chain = 0, !.start = 0, !.node = 0]
    OBVIOUS
  <1>4. /\ Q.pc = "read" /\ UNCHANGED <<store, tx, gc>>
        /\ reader' = [reader EXCEPT ![r] = R]
    BY <1>1, <1>2, <1>3 DEF Validate
  <1>5. R \in ReaderRec
    BY <1>1, <1>3 DEF ReaderRec
  <1>6. R.pc = "lookup" /\ R.key = Q.key /\ R.at = Q.at
    BY <1>3 DEF ReaderRec
  <1>7. Q.key \in Keys
    BY <1>1, <1>2, <1>4 DEF WalkOK
  <1>8. Versions!BeginRead(r, R.key, R.at)
    BY <1>4, <1>5, <1>6, <1>7, LookupSeen
  <1>9. Calls[r].pc = "answered" /\ Calls[r].key = R.key /\ Calls[r].at = R.at
    BY <1>2, <1>4, <1>6, Mapping, CallOfRecord
  <1> QED BY <1>8, <1>9 DEF Versions!Validate

LEMMA FinishSeen ==
  ASSUME IInv, NEW r \in Readers, Finish(r)
  PROVE  Versions!Finish(r)
  <1>1. 0 \in NodeIds /\ 0 \in ChainIds /\ reader \in [Readers -> ReaderRec]
    BY Before
  <1>2. /\ UNCHANGED <<store, tx, gc>> /\ reader' = [reader EXCEPT ![r] = IdleReader]
        /\ reader[r].pc \in {"read", "validated"}
    BY DEF Finish
  <1>3. NotFound \in ResultType
    BY DEF NotFound, ResultType
  <1>4. IdleReader \in ReaderRec
    BY <1>1, <1>3 DEF IdleReader, ReaderRec
  <1>5. PICK R \in ReaderRec : R = IdleReader
    BY <1>4
  <1>6. /\ R.pc = "idle" /\ R.key = NoKey /\ R.at = 0
    BY <1>5 DEF IdleReader
  <1>7. MustOf(R) = {} /\ ~ IsReading(R)
    BY <1>6 DEF MustOf, IsReading
  <1>8. NotFound = Versions!NotFound
    BY DEF NotFound, Versions!NotFound
  <1>9. CallOf(R) = [pc |-> "idle", key |-> NoKey, at |-> 0, must |-> {},
                     answer |-> Versions!NotFound]
    BY <1>6, <1>7, <1>8 DEF CallOf
  <1>10. /\ UNCHANGED <<Written, Live, Committed, Transactions, Horizon>>
         /\ Calls' = [Calls EXCEPT ![r] = CallOf(R)]
    BY <1>2, <1>5, <1>7, OnlyReader
  <1>11. Calls[r].pc = "answered"
    BY <1>2, Mapping, CallOfRecord
  <1> QED BY <1>9, <1>10, <1>11 DEF Versions!Finish

\* A read ends with result v.
LEMMA AnswerSeen ==
  ASSUME IInv, NEW r \in Readers, NEW Q \in ReaderRec, Q = reader[r], IsReading(Q),
         NEW v \in ResultType, Return(r, v), UNCHANGED <<store, tx, gc>>
  PROVE  /\ UNCHANGED <<Written, Live, Committed, Transactions, Horizon>>
         /\ Versions!Answer(r, v)
  <1>1. reader \in [Readers -> ReaderRec]
    BY Before
  <1>2. \E R \in ReaderRec :
          /\ reader' = [reader EXCEPT ![r] = R]
          /\ R.pc \in {"read", "validated"} /\ R.key = Q.key /\ R.at = Q.at
          /\ (IF R.pc = "read" THEN R.first ELSE R.second) = v
    <2>1. CASE Q.phase = 1
      <3>1. PICK R : R = [Q EXCEPT !.pc = "read", !.first = v]
        OBVIOUS
      <3>2. reader' = [reader EXCEPT ![r] = R]
        BY <1>1, <2>1, <3>1 DEF Return
      <3>3. R \in ReaderRec
        BY <3>1 DEF ReaderRec
      <3>4. R.pc = "read" /\ R.first = v /\ R.key = Q.key /\ R.at = Q.at
        BY <3>1 DEF ReaderRec
      <3> QED BY <3>2, <3>3, <3>4
    <2>2. CASE Q.phase # 1
      <3>1. PICK b : b = IsReadValid(Q.first, v)
        OBVIOUS
      <3>2. b \in BOOLEAN
        BY <3>1, Zenon DEF IsReadValid
      <3>3. PICK R : R = [Q EXCEPT !.pc = "validated", !.second = v, !.valid = b]
        OBVIOUS
      <3>4. reader' = [reader EXCEPT ![r] = R]
        <4>1. reader' = [reader EXCEPT ![r].pc = "validated", ![r].second = v,
                                       ![r].valid = IsReadValid(reader[r].first, v)]
          BY <2>2, Zenon DEF Return
        <4>2. reader' = [reader EXCEPT ![r].pc = "validated", ![r].second = v, ![r].valid = b]
          BY <3>1, <4>1, Zenon
        <4> QED BY <1>1, <3>3, <4>2
      <3>5. R \in ReaderRec
        BY <3>2, <3>3 DEF ReaderRec
      <3>6. /\ R.pc = "validated" /\ R.second = v /\ R.key = Q.key /\ R.at = Q.at
        BY <3>3 DEF ReaderRec
      <3> QED BY <3>4, <3>5, <3>6
    <2> QED BY <2>1, <2>2
  <1>3. PICK R \in ReaderRec :
          /\ reader' = [reader EXCEPT ![r] = R]
          /\ R.pc \in {"read", "validated"} /\ R.key = Q.key /\ R.at = Q.at
          /\ (IF R.pc = "read" THEN R.first ELSE R.second) = v
    BY <1>2
  <1>4. ~ IsReading(R) /\ MustOf(R) = {}
    BY <1>3 DEF IsReading, MustOf
  <1>5. /\ UNCHANGED <<Written, Live, Committed, Transactions, Horizon>>
        /\ Calls' = [Calls EXCEPT ![r] = CallOf(R)]
    BY <1>3, <1>4, OnlyReader
  <1>6. PICK a : a = NotFound
    OBVIOUS
  <1>7. Calls[r] = [pc |-> "reading", key |-> Q.key, at |-> Q.at, must |-> MustOf(Q), answer |-> a]
    <2>1. CallOf(Q) =
            [pc |-> "reading", key |-> Q.key, at |-> Q.at, must |-> MustOf(Q), answer |-> a]
      BY <1>6 DEF CallOf, IsReading
    <2> QED BY <2>1, Mapping
  <1>8. CallOf(R) = [pc |-> "answered", key |-> Q.key, at |-> Q.at, must |-> {}, answer |-> v]
    BY <1>3, <1>4 DEF CallOf
  <1>9. [Calls[r] EXCEPT !.pc = "answered", !.must = {}, !.answer = v] = CallOf(R)
    <2>1. [Calls[r] EXCEPT !.pc = "answered"] =
            [pc |-> "answered", key |-> Q.key, at |-> Q.at, must |-> MustOf(Q), answer |-> a]
      BY <1>7
    <2>2. [[pc |-> "answered", key |-> Q.key, at |-> Q.at, must |-> MustOf(Q), answer |-> a]
             EXCEPT !.must = {}] =
            [pc |-> "answered", key |-> Q.key, at |-> Q.at, must |-> {}, answer |-> a]
      OBVIOUS
    <2>3. [[pc |-> "answered", key |-> Q.key, at |-> Q.at, must |-> {}, answer |-> a]
             EXCEPT !.answer = v] =
            [pc |-> "answered", key |-> Q.key, at |-> Q.at, must |-> {}, answer |-> v]
      OBVIOUS
    <2> QED BY <1>8, <2>1, <2>2, <2>3, Zenon
  <1>10. Calls' = [Calls EXCEPT ![r].pc = "answered", ![r].must = {}, ![r].answer = v]
    BY <1>5, <1>9, Mapping
  <1> QED BY <1>5, <1>10 DEF Versions!Answer

\* A step of a read on its way that has the same versions to consider.
LEMMA ReadUnseen ==
  ASSUME IInv, NEW r \in Readers, NEW Q, Q = reader[r], IsReading(Q),
         NEW R \in ReaderRec, IsReading(R), R.key \in Keys, R.key = Q.key, R.at = Q.at,
         MustOf(R) = MustOf(Q),
         reader' = [reader EXCEPT ![r] = R], UNCHANGED <<store, tx, gc>>
  PROVE  Unseen
  <1>1. /\ UNCHANGED <<Written, Live, Committed, Transactions, Horizon>>
        /\ Calls' = [Calls EXCEPT ![r] = CallOf(R)]
    BY OnlyReader
  <1>2. CallOf(R) = CallOf(Q)
    BY DEF CallOf, IsReading
  <1>3. Calls' = Calls
    BY <1>1, <1>2, Mapping
  <1> QED BY <1>1, <1>3 DEF Unseen

LEMMA FindNothingNow ==
  ASSUME IInv, NEW r \in Readers, NEW Q \in ReaderRec, Q = reader[r], IsReading(Q),
         MustOf(Q) = {}, Return(r, NotFound), UNCHANGED <<store, tx, gc>>
  PROVE  Versions!FindNothing(r)
  <1>1. PICK v \in ResultType : v = NotFound
    BY DEF NotFound, ResultType
  <1>2. Return(r, v)
    BY <1>1
  <1>3. /\ UNCHANGED <<Written, Live, Committed, Transactions, Horizon>>
        /\ Versions!Answer(r, v)
    BY <1>2, AnswerSeen
  <1>4. v = Versions!NotFound
    BY <1>1 DEF NotFound, Versions!NotFound
  <1>5. Calls[r].pc = "reading" /\ Calls[r].must = {}
    BY Mapping, CallOfRecord
  <1> QED BY <1>3, <1>4, <1>5 DEF Versions!FindNothing

LEMMA ReadLookupSeen ==
  ASSUME IInv, NEW r \in Readers, ReadLookup(r)
  PROVE  Unseen \/ Versions!FindNothing(r)
  <1>1. /\ reader \in [Readers -> ReaderRec] /\ WalkOK(reader[r]) /\ LinkedFacts
        /\ entries \in [Keys -> ChainIds]
    BY Before
  <1>2. PICK Q \in ReaderRec : Q = reader[r]
    BY <1>1
  <1>3. Q.pc = "lookup" /\ UNCHANGED <<store, tx, gc>>
    BY <1>2 DEF ReadLookup
  <1>4. IsReading(Q) /\ Q.key \in Keys
    BY <1>1, <1>2, <1>3 DEF IsReading, WalkOK
  <1>5. MustOf(Q) = Fits(Q)
    BY <1>3 DEF MustOf
  <1>6. CASE entries[Q.key] = 0
    <2>1. MustOf(Q) = {}
      BY <1>1, <1>4, <1>5, <1>6 DEF LinkedFacts, LinkedOf, Fits
    <2>2. Return(r, NotFound)
      BY <1>2, <1>6 DEF ReadLookup
    <2> QED BY <1>2, <1>3, <1>4, <2>1, <2>2, FindNothingNow
  <1>7. CASE entries[Q.key] # 0
    <2>1. PICK R : R = [Q EXCEPT !.pc = "head", !.chain = entries[Q.key]]
      OBVIOUS
    <2>2. reader' = [reader EXCEPT ![r] = R]
      BY <1>1, <1>2, <1>7, <2>1 DEF ReadLookup
    <2>3. R \in ReaderRec
      BY <1>1, <1>4, <2>1 DEF ReaderRec
    <2>4. R.pc = "head" /\ R.chain = entries[Q.key] /\ R.key = Q.key /\ R.at = Q.at
      BY <2>1 DEF ReaderRec
    <2>5. MustOf(R) = Fits(R) /\ IsReading(R)
      BY <2>4 DEF MustOf, IsReading
    <2>6. Fits(R) = Fits(Q)
      BY <2>4 DEF Fits
    <2> QED BY <1>2, <1>3, <1>4, <1>5, <2>2, <2>3, <2>4, <2>5, <2>6, ReadUnseen
  <1> QED BY <1>6, <1>7

LEMMA ReadHeadUnseen ==
  ASSUME IInv, NEW r \in Readers, ReadHead(r)
  PROVE  Unseen
  <1>1. /\ reader \in [Readers -> ReaderRec] /\ WalkOK(reader[r]) /\ LinkedFacts
        /\ ChainIds = 0 .. Len(heads) /\ Len(nodes) \in Nat /\ NodeIds = 0 .. Len(nodes)
        /\ \A c \in 1 .. Len(heads) : heads[c] \in NodeIds
    BY Before
  <1>2. PICK Q \in ReaderRec : Q = reader[r]
    BY <1>1
  <1>3. PICK h : h = heads[Q.chain]
    OBVIOUS
  <1>4. PICK R : R = [Q EXCEPT !.pc = "visit", !.start = h, !.node = h]
    OBVIOUS
  <1>5. /\ Q.pc = "head" /\ UNCHANGED <<store, tx, gc>>
        /\ reader' = [reader EXCEPT ![r] = R]
    BY <1>1, <1>2, <1>3, <1>4 DEF ReadHead
  <1>6. IsReading(Q) /\ Q.key \in Keys /\ ChainOf(Q.chain, Q.key)
    BY <1>1, <1>2, <1>5 DEF IsReading, WalkOK
  <1>7. h \in NodeIds
    BY <1>1, <1>3, <1>6 DEF ReaderRec, ChainOf
  <1>8. R \in ReaderRec
    BY <1>4, <1>7 DEF ReaderRec
  <1>9. R.pc = "visit" /\ R.start = h /\ R.key = Q.key /\ R.at = Q.at
    BY <1>4 DEF ReaderRec
  <1>10. IsReading(R) /\ MustOf(R) = Seen(R)
    BY <1>9 DEF IsReading, MustOf
  <1>11. LinkedOf(Q.key)
    BY <1>1, <1>6 DEF LinkedFacts
  <1>12. Seen(R) = MustOf(Q)
    <2>1. MustOf(Q) = IF entries[Q.key] = Q.chain THEN Fits(Q) ELSE {}
      BY <1>5 DEF MustOf
    <2>2. CASE entries[Q.key] = Q.chain
      <3>1. \A n \in Linked(Q.key) : n <= h
        BY <1>3, <1>6, <1>11, <2>2 DEF LinkedOf, ChainOf
      <3> QED BY <1>9, <2>1, <2>2, <3>1 DEF Seen, Fits
    <2>3. CASE entries[Q.key] # Q.chain
      <3>1. h = 0
        BY <1>3, <1>6, <2>3 DEF ChainOf
      <3>2. \A n \in Linked(Q.key) : ~ (n <= 0)
        BY <1>1, <1>11 DEF LinkedOf
      <3> QED BY <1>9, <2>1, <2>3, <3>1, <3>2 DEF Seen
    <2> QED BY <2>2, <2>3
  <1> QED BY <1>2, <1>5, <1>6, <1>8, <1>9, <1>10, <1>12, ReadUnseen

LEMMA FindNextUnseen ==
  ASSUME IInv, NEW r \in Readers, FindNext(r)
  PROVE  Unseen
  <1>1. /\ reader \in [Readers -> ReaderRec] /\ WalkOK(reader[r])
        /\ NodeIds = 0 .. Len(nodes) /\ Len(nodes) \in Nat
        /\ \A n \in 1 .. Len(nodes) : nodes[n].next \in NodeIds
    BY Before
  <1>2. PICK Q \in ReaderRec : Q = reader[r]
    BY <1>1
  <1>3. PICK h : h = nodes[Q.node].next
    OBVIOUS
  <1>4. PICK R : R = [Q EXCEPT !.node = h]
    OBVIOUS
  <1>5. /\ Q.pc = "visit" /\ Q.node # 0 /\ UNCHANGED <<store, tx, gc>>
        /\ reader' = [reader EXCEPT ![r] = R]
    BY <1>1, <1>2, <1>3, <1>4 DEF FindNext
  <1>6. IsReading(Q) /\ Q.key \in Keys
    BY <1>1, <1>2, <1>5 DEF IsReading, WalkOK
  <1>7. Q.node \in 1 .. Len(nodes) /\ h \in NodeIds
    BY <1>1, <1>3, <1>5 DEF ReaderRec
  <1>8. R \in ReaderRec
    BY <1>4, <1>7 DEF ReaderRec
  <1>9. R.pc = "visit" /\ R.start = Q.start /\ R.key = Q.key /\ R.at = Q.at
    BY <1>4, <1>5 DEF ReaderRec
  <1>10. MustOf(R) = Seen(R) /\ MustOf(Q) = Seen(Q) /\ IsReading(R)
    BY <1>5, <1>9 DEF MustOf, IsReading
  <1>11. Seen(R) = Seen(Q)
    BY <1>9 DEF Seen
  <1> QED BY <1>2, <1>5, <1>6, <1>8, <1>9, <1>10, <1>11, ReadUnseen

LEMMA FindVersionSeen ==
  ASSUME IInv, NEW r \in Readers, FindVersion(r)
  PROVE  \E n \in DOMAIN Written : Versions!Find(r, n)
  <1>1. /\ reader \in [Readers -> ReaderRec] /\ WalkOK(reader[r]) /\ LinkedFacts /\ StoreType
        /\ Len(nodes) \in Nat /\ NodeIds = 0 .. Len(nodes)
        /\ \A n \in 1 .. Len(nodes) :
             /\ nodes[n].key \in Keys /\ nodes[n].tx \in Txs /\ nodes[n].inc \in Nat
    BY Before
  <1>2. PICK Q \in ReaderRec : Q = reader[r]
    BY <1>1
  <1>3. PICK n : n = Q.node
    OBVIOUS
  <1>4. /\ Q.pc = "visit" /\ n # 0 /\ nodes[n].tx < Q.at /\ Return(r, Result(n))
        /\ UNCHANGED <<store, tx, gc>>
    BY <1>2, <1>3 DEF FindVersion
  <1>5. IsReading(Q) /\ nodes[n].key = Q.key /\ \A m \in Seen(Q) : m <= n
    BY <1>1, <1>2, <1>3, <1>4 DEF IsReading, WalkOK
  <1>6. n \in 1 .. Len(nodes)
    BY <1>1, <1>3, <1>4 DEF ReaderRec
  <1>7. PICK v : v = Result(n)
    OBVIOUS
  <1>8. v \in ResultType
    <2>1. nodes[n].key \in Keys /\ nodes[n].tx \in Nat /\ nodes[n].inc \in Nat
      BY <1>1, <1>6, TxsAssumption
    <2> QED BY <1>7, <2>1 DEF Result, ResultType
  <1>9. /\ UNCHANGED <<Written, Live, Committed, Transactions, Horizon>>
        /\ Versions!Answer(r, v)
    BY <1>2, <1>4, <1>5, <1>7, <1>8, AnswerSeen
  <1>10. /\ Written[n].key = nodes[n].key /\ Written[n].tx = nodes[n].tx
         /\ Written[n].inc = nodes[n].inc /\ n \in DOMAIN Written
    BY <1>1, <1>6, WrittenFacts
  <1>11. v = [status |-> IF n \in Committed THEN "found" ELSE "estimate",
              key |-> Written[n].key, tx |-> Written[n].tx, inc |-> Written[n].inc]
    BY <1>6, <1>7, <1>10 DEF Result, Committed
  <1>12. /\ Calls[r].pc = "reading" /\ Calls[r].key = Q.key /\ Calls[r].at = Q.at
         /\ Calls[r].must = MustOf(Q)
    BY <1>2, <1>5, Mapping, CallOfRecord
  <1>13. MustOf(Q) = Seen(Q)
    BY <1>4 DEF MustOf
  <1>14. Versions!Find(r, n)
    BY <1>4, <1>5, <1>9, <1>10, <1>11, <1>12, <1>13 DEF Versions!Find
  <1> QED BY <1>10, <1>14

LEMMA FindNothingSeen ==
  ASSUME IInv, NEW r \in Readers, FindNothing(r)
  PROVE  Versions!FindNothing(r)
  <1>1. /\ reader \in [Readers -> ReaderRec] /\ WalkOK(reader[r]) /\ LinkedFacts
        /\ Len(nodes) \in Nat
    BY Before
  <1>2. PICK Q \in ReaderRec : Q = reader[r]
    BY <1>1
  <1>3. /\ Q.pc = "visit" /\ Q.node = 0 /\ Return(r, NotFound) /\ UNCHANGED <<store, tx, gc>>
    BY <1>2 DEF FindNothing
  <1>4. IsReading(Q) /\ Q.key \in Keys /\ \A n \in Seen(Q) : n <= 0
    BY <1>1, <1>2, <1>3 DEF IsReading, WalkOK
  <1>5. Seen(Q) = {}
    <2>1. \A n \in Linked(Q.key) : n \in 1 .. Len(nodes)
      BY <1>1, <1>4 DEF LinkedFacts, LinkedOf
    <2> QED BY <1>1, <1>4, <2>1 DEF Seen
  <1>6. MustOf(Q) = {}
    BY <1>3, <1>5 DEF MustOf
  <1> QED BY <1>2, <1>3, <1>4, <1>6, FindNothingNow

--------------------------------------------------------------------------------
(* GC, as the abstract store sees it *)

LEMMA GCSeen ==
  ASSUME IInv, NEW b \in GCBefore, GC(b)
  PROVE  Versions!GC(b)
  <1>1. /\ gc.pc = "idle" /\ gc' = [IdleGC EXCEPT !.pc = "bucket", !.before = b]
        /\ UNCHANGED <<store, tx, reader>>
    BY DEF GC
  <1>2. gc'.pc = "bucket" /\ gc'.before = b
    BY <1>1 DEF IdleGC
  <1>3. Horizon = 0 /\ Horizon' = b
    BY <1>1, <1>2 DEF Horizon
  <1>4. UNCHANGED <<Written, Live, Committed, Transactions, Calls>>
    BY <1>1, OnlyGC
  <1> QED BY <1>3, <1>4 DEF Versions!GC

\* A step of a GC on its way that leaves the store alone.
LEMMA GCWalkUnseen ==
  ASSUME IInv, GCLock \/ (\E k \in Keys : GCKey(k)) \/ GCKeep \/ GCUnlock
  PROVE  Unseen
  <1>1. gc \in GCRec
    BY Before
  <1>2. UNCHANGED <<store, tx, reader>>
    BY DEF GCLock, GCKey, GCKeep, GCUnlock
  <1>3. gc.pc # "idle" /\ gc'.pc # "idle" /\ gc'.before = gc.before
    <2>1. CASE GCLock
      BY <1>1, <2>1 DEF GCLock, GCRec
    <2>2. ASSUME NEW k \in Keys, GCKey(k)
          PROVE  gc.pc # "idle" /\ gc'.pc # "idle" /\ gc'.before = gc.before
      BY <1>1, <2>2 DEF GCKey, GCRec
    <2>3. CASE GCKeep
      BY <1>1, <2>3 DEF GCKeep, GCRec
    <2>4. CASE GCUnlock
      BY <1>1, <2>4 DEF GCUnlock, GCRec
    <2> QED BY <2>1, <2>2, <2>3, <2>4
  <1>4. Horizon' = Horizon
    BY <1>3 DEF Horizon
  <1> QED BY <1>2, <1>4, OnlyGC DEF Unseen

\* The store looks the same: no node and no chain with versions in it changes.
LEMMA SameVersions ==
  ASSUME IInv, UNCHANGED <<nodes, tx, reader>>, \A k \in Keys : Linked(k)' = Linked(k),
         \A k \in Keys : entries'[k] = entries[k] \/ Linked(k) = {}
  PROVE  UNCHANGED <<Written, Live, Committed, Transactions, Calls>>
  <1>1. LinkedFacts
    BY Before
  <1>2. \A R \in ReaderRec : (IsReading(R) => R.key \in Keys) => CallOf(R)' = CallOf(R)
    BY <1>1, MustStays
  <1>3. \A r \in Readers : CallOf(reader[r])' = CallOf(reader[r])
    BY <1>2, CallsStay
  <1>4. Calls' = Calls
    BY <1>3, CallsAfter, Mapping
  <1> QED BY <1>4 DEF Written, Live, Committed, Transactions

LEMMA GCKeyDoneUnseen ==
  ASSUME IInv, GCKeyDone
  PROVE  Unseen
  <1>1. /\ Shape /\ GCInv /\ LinkedFacts /\ gc \in GCRec /\ entries \in [Keys -> ChainIds]
    BY Before
  <1>2. /\ UNCHANGED <<nodes, heads>>
        /\ entries' = [entries EXCEPT ![gc.key] = IF heads[entries[gc.key]] = 0 THEN 0 ELSE @]
        /\ gc.key \in Keys /\ entries[gc.key] # 0
        /\ \A k \in Keys : Linked(k)' = Linked(k)
    BY <1>1, KeyDoneEffect
  <1>3. \A k \in Keys : entries'[k] = entries[k] \/ Linked(k) = {}
    BY <1>1, <1>2 DEF LinkedFacts, LinkedOf
  <1>4. /\ gc.pc = "visit" /\ gc' = [gc EXCEPT !.pc = "keys", !.key = NoKey, !.prev = 0]
        /\ UNCHANGED <<tx, reader>>
    BY DEF GCKeyDone
  <1>5. gc'.pc = "keys" /\ gc'.before = gc.before
    BY <1>1, <1>4 DEF GCRec
  <1>6. Horizon' = Horizon
    BY <1>4, <1>5 DEF Horizon
  <1>7. UNCHANGED <<Written, Live, Committed, Transactions, Calls>>
    BY <1>2, <1>3, <1>4, SameVersions
  <1> QED BY <1>6, <1>7 DEF Unseen

LEMMA GCReturnSeen ==
  ASSUME IInv, GCReturn
  PROVE  Versions!GCReturn
  <1>1. gc' = IdleGC /\ UNCHANGED <<nodes, heads, entries, tx, reader>>
    BY DEF GCReturn
  <1>2. \A k \in Keys : Linked(k)' = Linked(k)
    BY <1>1 DEF Linked, Below, NodeIds
  <1>3. UNCHANGED <<Written, Live, Committed, Transactions, Calls>>
    BY <1>1, <1>2, SameVersions
  <1>4. Horizon' = 0
    BY <1>1 DEF Horizon, IdleGC
  <1> QED BY <1>3, <1>4 DEF Versions!GCReturn

\* What changes of a call when its reader does not move.
LEMMA CallWith ==
  ASSUME NEW R, NEW M, M = MustOf(R)'
  PROVE  CallOf(R)' = [CallOf(R) EXCEPT !.must = M]
  <1>1. PICK K : K = MustOf(R)
    OBVIOUS
  <1>2. PICK p, a :
          /\ CallOf(R) = [pc |-> p, key |-> R.key, at |-> R.at, must |-> K, answer |-> a]
          /\ CallOf(R)' = [pc |-> p, key |-> R.key, at |-> R.at, must |-> M, answer |-> a]
    BY <1>1, Zenon DEF CallOf, NotFound
  <1>3. PICK D : D = CallOf(R)
    OBVIOUS
  <1>4. [D EXCEPT !.must = M] =
          [pc |-> p, key |-> R.key, at |-> R.at, must |-> M, answer |-> a]
    BY <1>2, <1>3
  <1> QED BY <1>2, <1>3, <1>4, Zenon

\* A version that leaves the store leaves what the reads have to consider.
LEMMA MustLoses ==
  ASSUME LinkedFacts, NEW q, NEW R, IsReading(R) => R.key \in Keys,
         \A n \in 1 .. Len(nodes) : nodes'[n].tx = nodes[n].tx,
         \A k \in Keys : Linked(k)' = Linked(k) \ {q}, entries' = entries
  PROVE  CallOf(R)' = [CallOf(R) EXCEPT !.must = @ \ {q}]
  <1>1. IsReading(R) => Fits(R)' = Fits(R) \ {q} /\ Seen(R)' = Seen(R) \ {q}
    <2> SUFFICES ASSUME IsReading(R)
                 PROVE  Fits(R)' = Fits(R) \ {q} /\ Seen(R)' = Seen(R) \ {q}
      OBVIOUS
    <2>1. /\ Linked(R.key)' = Linked(R.key) \ {q}
          /\ \A n \in Linked(R.key) : nodes'[n].tx = nodes[n].tx
      BY DEF LinkedFacts, LinkedOf
    <2> QED BY <2>1 DEF Fits, Seen
  <1>2. MustOf(R)' = MustOf(R) \ {q}
    BY <1>1 DEF MustOf, IsReading
  <1>3. PICK M : M = MustOf(R)'
    OBVIOUS
  <1>4. CallOf(R)' = [CallOf(R) EXCEPT !.must = M]
    BY <1>3, CallWith
  <1>5. M = CallOf(R).must \ {q}
    BY <1>2, <1>3, CallOfRecord
  <1> QED BY <1>4, <1>5, Zenon

LEMMA RemoveSeen ==
  ASSUME UsePool = FALSE, IInv, GCRemove
  PROVE  \E n \in Live : Versions!Remove(n)
  <1> DEFINE N == Len(nodes)
  <1>1. /\ Shape /\ GCInv /\ LinkedFacts /\ StoreType /\ LinksInv /\ gc \in GCRec
        /\ reader \in [Readers -> ReaderRec]
        /\ \A r \in Readers : WalkOK(reader[r])
        /\ N \in Nat /\ NodeIds = 0 .. N
        /\ \A n \in 1 .. N : nodes[n].tx \in Txs
    BY Before
  <1>2. PICK q : q = gc.node
    OBVIOUS
  <1>3. /\ gc.pc = "visit" /\ q # 0 /\ ~ Keeps(q)
        /\ gc' = [gc EXCEPT !.node = nodes[gc.node].next, !.freed = gc.freed + 1]
        /\ UNCHANGED <<entries, tx, reader>>
    BY <1>2 DEF GCRemove
  <1>4. PICK g \in Keys : g = gc.key
    BY <1>1, <1>3 DEF GCInv
  <1>5. /\ q \in Linked(g)
        /\ gc.prev # 0 => gc.prev \in Linked(g) /\ nodes[gc.prev].next = q
    BY <1>1, <1>2, <1>3, <1>4, GCStandsOnLinked
  <1>6. Removed /\ StoreType' /\ LinksInv'
    BY <1>1, RemoveEffect
  <1>7. Shape'
    BY <1>6 DEF Shape
  <1>8. \A k \in Keys : Linked(k)' = Linked(k) \ {q}
    BY <1>1, <1>2, <1>3, <1>6, <1>7, RemoveLinks
  <1>9. /\ Len(nodes') = N
        /\ \A n \in 1 .. N : NodesKept(n) /\ nodes'[n].status = nodes[n].status
    BY <1>6 DEF Removed
  <1>10. q \in 1 .. N /\ q \in Live
    BY <1>1, <1>5 DEF LinkedFacts, LinkedOf, Live
  <1>11. Horizon = gc.before /\ Horizon' = Horizon
    <2>1. gc'.pc = gc.pc /\ gc'.before = gc.before
      BY <1>1, <1>3 DEF GCRec
    <2> QED BY <1>3, <2>1 DEF Horizon
  <1>12. nodes[q].tx < gc.before /\ (nodes[q].status = "committed" => gc.prev # 0)
    <2>1. nodes[q].tx \in Nat /\ gc.before \in Nat
      <3>1. nodes[q].tx \in Txs /\ gc.before \in GCBefore \cup {0}
        BY <1>1, <1>10 DEF GCRec
      <3>2. Txs \subseteq Nat /\ GCBefore \cup {0} \subseteq Nat
        BY TxsAssumption
      <3> QED BY <3>1, <3>2
    <2> QED BY <1>3, <2>1 DEF Keeps
  <1>13. /\ \A n \in 1 .. N : Written[n].key = nodes[n].key /\ Written[n].tx = nodes[n].tx
    BY <1>1, WrittenFacts
  <1>14. q \in Committed => \E m \in Live : q < m /\ Written[m].key = Written[q].key
    <2> SUFFICES ASSUME q \in Committed
                 PROVE  \E m \in Live : q < m /\ Written[m].key = Written[q].key
      OBVIOUS
    <2>1. gc.prev # 0
      BY <1>12 DEF Committed
    <2>2. gc.prev \in 1 .. N /\ nodes[gc.prev].key = g /\ nodes[q].key = g /\ gc.prev \in Live
      BY <1>1, <1>5, <2>1 DEF LinkedFacts, LinkedOf, Live
    <2>3. q < gc.prev
      BY <1>1, <1>5, <2>1, <2>2 DEF LinksInv
    <2> QED BY <1>10, <1>13, <2>2, <2>3
  <1>15. Live' = Live \ {q}
    <2>1. Live' = UNION {Linked(k) \ {q} : k \in Keys}
      BY <1>8 DEF Live
    <2> QED BY <2>1 DEF Live
  <1>16. Written' = Written
    BY <1>9, WrittenKept
  <1>17. Committed' = Committed
    BY <1>9 DEF Committed
  <1>18. Transactions' = Transactions
    BY <1>3 DEF Transactions
  <1>19. Calls' = [r \in Readers |-> [Calls[r] EXCEPT !.must = @ \ {q}]]
    <2>1. ASSUME NEW r \in Readers
          PROVE  CallOf(reader[r])' = [Calls[r] EXCEPT !.must = @ \ {q}]
      <3>1. PICK R \in ReaderRec : R = reader[r]
        BY <1>1
      <3>2. IsReading(R) => R.key \in Keys
        BY <1>1, <3>1 DEF IsReading, WalkOK
      <3>3. reader'[r] = R
        BY <1>3, <3>1
      <3>4. CallOf(reader[r])' = CallOf(R)'
        BY <3>3, CallAfter
      <3>5. CallOf(R)' = [CallOf(R) EXCEPT !.must = @ \ {q}]
        BY <1>1, <1>3, <1>8, <1>9, <3>2, MustLoses DEF NodesKept
      <3> QED BY <3>1, <3>4, <3>5, Mapping
    <2> QED BY <2>1, CallsAfter
  <1>20. Versions!Remove(q)
    BY <1>10, <1>11, <1>12, <1>13, <1>14, <1>15, <1>16, <1>17, <1>18, <1>19
       DEF Versions!Remove
  <1> QED BY <1>10, <1>20

--------------------------------------------------------------------------------
(* Write, and the refinement *)

\* A new version is one more a read has to consider, if it has not loaded the head of
\* the chain, or none.
LEMMA MustGains ==
  ASSUME IInv, NEW t \in Txs, NEW k \in Keys, Wrote(t, k),
         \A l \in Keys : Linked(l)' = IF l = k THEN Linked(l) \cup {Len(nodes) + 1} ELSE Linked(l),
         NEW R \in ReaderRec, WalkOK(R)
  PROVE  \/ MustOf(R)' = MustOf(R)
         \/ /\ IsReading(R) /\ R.key = k /\ t < R.at
            /\ MustOf(R)' = MustOf(R) \cup {Len(nodes) + 1}
  <1> DEFINE N == Len(nodes)
  <1>1. /\ LinkedFacts /\ entries \in [Keys -> ChainIds]
        /\ N \in Nat /\ NodeIds = 0 .. N /\ Len(heads) \in Nat /\ ChainIds = 0 .. Len(heads)
    BY Before
  <1>2. /\ \A n \in 1 .. N : nodes'[n] = nodes[n]
        /\ nodes'[N + 1].tx = t
        /\ \A l \in Keys \ {k} : entries'[l] = entries[l]
        /\ entries[k] # 0 => entries'[k] = entries[k]
        /\ entries[k] = 0 => entries'[k] = Len(heads) + 1
    BY DEF Wrote
  <1>3. CASE ~ IsReading(R)
    <2>1. MustOf(R) = {} /\ MustOf(R)' = {}
      BY <1>3 DEF MustOf, IsReading
    <2> QED BY <2>1
  <1>4. CASE IsReading(R)
    <2>1. R.key \in Keys
      BY <1>4 DEF IsReading, WalkOK
    <2>2. /\ Linked(R.key) \subseteq 1 .. N
          /\ Linked(R.key)' = IF R.key = k THEN Linked(R.key) \cup {N + 1} ELSE Linked(R.key)
      BY <1>1, <2>1 DEF LinkedFacts, LinkedOf
    <2>3. Fits(R)' = IF R.key = k /\ t < R.at THEN Fits(R) \cup {N + 1} ELSE Fits(R)
      BY <1>1, <1>2, <2>2 DEF Fits
    <2>4. CASE R.pc = "lookup"
      <3>1. MustOf(R) = Fits(R) /\ MustOf(R)' = Fits(R)'
        BY <2>4 DEF MustOf
      <3> QED BY <1>4, <2>3, <3>1
    <2>5. CASE R.pc = "head"
      <3>1. /\ MustOf(R) = IF entries[R.key] = R.chain THEN Fits(R) ELSE {}
            /\ MustOf(R)' = IF entries'[R.key] = R.chain THEN Fits(R)' ELSE {}
        BY <2>5 DEF MustOf
      <3>2. R.chain \in 1 .. Len(heads)
        <4>1. ChainOf(R.chain, R.key)
          BY <2>5 DEF WalkOK
        <4> QED BY <1>1, <4>1 DEF ChainOf, ReaderRec
      <3>3. entries'[R.key] = R.chain <=> entries[R.key] = R.chain
        BY <1>1, <1>2, <2>1, <3>2
      <3> QED BY <1>4, <2>3, <3>1, <3>3
    <2>6. CASE R.pc = "visit"
      <3>1. MustOf(R) = Seen(R) /\ MustOf(R)' = Seen(R)'
        BY <2>6 DEF MustOf
      <3>2. R.start \in 0 .. N
        BY <1>1 DEF ReaderRec
      <3>3. Seen(R)' = Seen(R)
        BY <1>1, <1>2, <2>2, <3>2 DEF Seen
      <3> QED BY <3>1, <3>3
    <2> QED BY <1>4, <2>4, <2>5, <2>6 DEF IsReading
  <1> QED BY <1>3, <1>4

LEMMA WriteSeen ==
  ASSUME IInv, NEW t \in Txs, NEW k \in Keys, Write(t, k)
  PROVE  Versions!Write(t, k)
  <1> DEFINE N == Len(nodes)
  <1>1. /\ Shape /\ LinkedFacts /\ StoreType
        /\ tx \in [Txs -> TxRec] /\ reader \in [Readers -> ReaderRec]
        /\ \A r \in Readers : WalkOK(reader[r])
        /\ N \in Nat
    BY Before
  <1>2. PICK Q \in TxRec : Q = tx[t]
    BY <1>1
  <1>3. Q.inc \in Nat
    BY DEF TxRec
  <1>4. Wrote(t, k) /\ StoreType'
    BY <1>1, <1>2, <1>3, WriteEffect
  <1>5. \A l \in Keys : Linked(l)' = IF l = k THEN Linked(l) \cup {N + 1} ELSE Linked(l)
    BY <1>1, <1>4, WriteLinks
  <1>6. /\ Len(nodes') = N + 1
        /\ \A n \in 1 .. N : nodes'[n] = nodes[n]
        /\ nodes'[N + 1].key = k /\ nodes'[N + 1].tx = t /\ nodes'[N + 1].inc = Q.inc
        /\ nodes'[N + 1].status = "estimate"
    BY <1>2, <1>4 DEF Wrote
  <1>7. PICK T : T = [Q EXCEPT !.writes = Q.writes \cup {k}]
    OBVIOUS
  <1>8. /\ Q.pc = "execute" /\ k \notin Q.writes /\ UNCHANGED <<reader, gc>>
        /\ tx' = [tx EXCEPT ![t] = T]
    BY <1>1, <1>2, <1>7 DEF Write
  <1>9. Transactions[t] = TransactionOf(Q)
    BY <1>2, Mapping
  <1>10. Transactions' = [Transactions EXCEPT ![t].writes = @ \cup {k}]
    <2>1. T.pc = Q.pc /\ T.inc = Q.inc /\ T.writes = Q.writes \cup {k}
      BY <1>7 DEF TxRec
    <2>2. PICK W : W = Q.writes \cup {k}
      OBVIOUS
    <2>3. TransactionOf(Q) = [pc |-> "execute", inc |-> Q.inc, writes |-> Q.writes]
      BY <1>8 DEF TransactionOf
    <2>4. TransactionOf(T) = [pc |-> "execute", inc |-> Q.inc, writes |-> W]
      BY <1>8, <2>1, <2>2 DEF TransactionOf
    <2>5. [TransactionOf(Q) EXCEPT !.writes = W] = TransactionOf(T)
      BY <2>3, <2>4
    <2>6. Transactions[t].writes \cup {k} = W
      BY <1>9, <2>2, TransactionOfRecord
    <2>7. Transactions' = [u \in Txs |-> TransactionOf(tx'[u])]
      BY DEF Transactions, TransactionOf
    <2>8. \A u \in Txs : tx'[u] = IF u = t THEN T ELSE tx[u]
      BY <1>1, <1>8
    <2>9. Transactions' = [Transactions EXCEPT ![t] = TransactionOf(T)]
      BY <2>7, <2>8, Mapping
    <2> QED BY <1>9, <2>5, <2>6, <2>9, Zenon
  <1>11. PICK v : v = [key |-> k, tx |-> t, inc |-> Q.inc]
    OBVIOUS
  <1>12. v = Versions!Version(t, k)
    BY <1>9, <1>11, TransactionOfRecord DEF Versions!Version
  <1>13. Written' = Append(Written, v)
    <2>1. Written \in Seq([key: Keys, tx: Txs, inc: Nat]) /\ Len(Written) = N
      BY <1>1, WrittenFacts
    <2>2. v \in [key: Keys, tx: Txs, inc: Nat]
      BY <1>3, <1>11
    <2>3. Written' = [n \in 1 .. N + 1 |->
             [key |-> nodes'[n].key, tx |-> nodes'[n].tx, inc |-> nodes'[n].inc]]
      BY <1>6 DEF Written
    <2>4. \A n \in 1 .. N + 1 : Written'[n] = IF n = N + 1 THEN v ELSE Written[n]
      BY <1>1, <1>6, <1>11, <2>3, WrittenFacts
    <2>5. PICK S : S = [key: Keys, tx: Txs, inc: Nat]
      OBVIOUS
    <2>6. PICK w \in Seq(S) : w = Written
      BY <2>1, <2>5
    <2>7. PICK w2 : w2 = Written'
      OBVIOUS
    <2>8. /\ w2 = [n \in 1 .. N + 1 |-> w2[n]]
          /\ \A n \in 1 .. N + 1 : w2[n] = IF n = N + 1 THEN v ELSE w[n]
      BY <2>3, <2>4, <2>6, <2>7
    <2>9. Len(w) = N /\ v \in S
      BY <2>1, <2>2, <2>5, <2>6
    <2>10. /\ Append(w, v) \in Seq(S) /\ Len(Append(w, v)) = N + 1
           /\ \A n \in 1 .. N + 1 : Append(w, v)[n] = IF n = N + 1 THEN v ELSE w[n]
      BY <1>1, <2>9
    <2>11. Append(w, v) \in [1 .. N + 1 -> S]
      BY <2>10, LenProperties
    <2> QED BY <2>6, <2>7, <2>8, <2>10, <2>11
  <1>14. Len(Written) = N
    BY <1>1, WrittenFacts
  <1>15. Live' = Live \cup {N + 1}
    <2>1. Live' = UNION {Linked(l)' : l \in Keys}
      BY DEF Live
    <2> QED BY <1>5, <2>1 DEF Live
  <1>16. Committed' = Committed
    BY <1>1, <1>6 DEF Committed
  <1>17. Horizon' = Horizon
    BY <1>8 DEF Horizon
  <1> DEFINE seen == {r \in Readers : CallOf(reader[r])' # Calls[r]}
  <1>18. ASSUME NEW r \in Readers
         PROVE  \/ CallOf(reader[r])' = Calls[r]
                \/ /\ Calls[r].pc = "reading" /\ Calls[r].key = k /\ t < Calls[r].at
                   /\ CallOf(reader[r])' = [Calls[r] EXCEPT !.must = @ \cup {N + 1}]
    <2>1. PICK R \in ReaderRec : R = reader[r]
      BY <1>1
    <2>2. Calls[r] = CallOf(R) /\ WalkOK(R)
      BY <1>1, <2>1, Mapping
    <2>3. reader'[r] = R
      BY <1>8, <2>1
    <2>4. CallOf(reader[r])' = CallOf(R)'
      BY <2>3, CallAfter
    <2>5. PICK M : M = MustOf(R)'
      OBVIOUS
    <2>6. CallOf(R)' = [CallOf(R) EXCEPT !.must = M]
      BY <2>5, CallWith
    <2>7. \/ MustOf(R)' = MustOf(R)
          \/ /\ IsReading(R) /\ R.key = k /\ t < R.at
             /\ MustOf(R)' = MustOf(R) \cup {N + 1}
      BY <1>4, <1>5, <2>2, MustGains
    <2>8. CASE MustOf(R)' = MustOf(R)
      <3>1. CallOf(R)' = CallOf(R)
        BY <2>8, Zenon DEF CallOf, NotFound
      <3> QED BY <2>2, <2>4, <3>1
    <2>9. CASE /\ IsReading(R) /\ R.key = k /\ t < R.at
               /\ MustOf(R)' = MustOf(R) \cup {N + 1}
      <3>1. M = CallOf(R).must \cup {N + 1}
        BY <2>5, <2>9, CallOfRecord
      <3>2. CallOf(R)' = [CallOf(R) EXCEPT !.must = CallOf(R).must \cup {N + 1}]
        BY <2>6, <3>1, Zenon
      <3>3. CallOf(R).pc = "reading" /\ CallOf(R).key = k /\ t < CallOf(R).at
        BY <2>9, CallOfRecord
      <3> QED BY <2>2, <2>4, <3>2, <3>3, Zenon
    <2> QED BY <2>7, <2>8, <2>9
  <1>19. seen \in SUBSET {r \in Readers : /\ Calls[r].pc = "reading" /\ Calls[r].key = k
                                          /\ t < Calls[r].at}
    BY <1>18
  <1>20. Calls' = [r \in Readers |-> IF r \in seen THEN [Calls[r] EXCEPT !.must = @ \cup {N + 1}]
                                     ELSE Calls[r]]
    BY <1>18, CallsAfter
  <1>21. Transactions[t].pc = "execute" /\ k \notin Transactions[t].writes
    BY <1>8, <1>9, TransactionOfRecord
  <1> HIDE DEF seen
  <1> QED BY <1>10, <1>12, <1>13, <1>14, <1>15, <1>16, <1>17, <1>19, <1>20, <1>21
          DEF Versions!Write

LEMMA StartSeen ==
  ASSUME Init
  PROVE  Versions!Init
  <1>1. /\ nodes = <<>> /\ heads = <<>> /\ entries = [k \in Keys |-> 0]
        /\ tx = [t \in Txs |-> IdleTx] /\ reader = [r \in Readers |-> IdleReader]
        /\ gc = IdleGC
    BY DEF Init
  <1>2. \A k \in Keys : Linked(k) = {}
    BY <1>1 DEF Linked
  <1>3. Written = <<>>
    <2>1. Len(nodes) = 0 /\ 1 .. 0 = {}
      BY <1>1
    <2> QED BY <2>1 DEF Written
  <1>4. Live = {}
    BY <1>2 DEF Live
  <1>5. Committed = {}
    BY <1>1 DEF Committed
  <1>6. Horizon = 0
    BY <1>1 DEF Horizon, IdleGC
  <1>7. Transactions = [t \in Txs |-> [pc |-> "execute", inc |-> 0, writes |-> {}]]
    <2>1. TransactionOf(IdleTx) = [pc |-> "execute", inc |-> 0, writes |-> {}]
      BY DEF TransactionOf, IdleTx
    <2>2. \A t \in Txs : tx[t] = IdleTx
      BY <1>1
    <2> QED BY <2>1, <2>2, Mapping
  <1>8. Calls = [r \in Readers |-> [pc |-> "idle", key |-> NoKey, at |-> 0, must |-> {},
                                    answer |-> Versions!NotFound]]
    <2>1. PICK R : R = IdleReader
      OBVIOUS
    <2>2. R.pc = "idle" /\ R.key = NoKey /\ R.at = 0
      BY <2>1 DEF IdleReader
    <2>3. NotFound = Versions!NotFound
      BY DEF NotFound, Versions!NotFound
    <2>4. CallOf(R) = [pc |-> "idle", key |-> NoKey, at |-> 0, must |-> {},
                       answer |-> Versions!NotFound]
      BY <2>2, <2>3 DEF CallOf, MustOf
    <2>5. \A r \in Readers : reader[r] = R
      BY <1>1, <2>1
    <2> QED BY <2>4, <2>5, Mapping
  <1> QED BY <1>3, <1>4, <1>5, <1>6, <1>7, <1>8 DEF Versions!Init

LEMMA NothingSeen ==
  ASSUME IInv, UNCHANGED vars
  PROVE  Unseen
  <1>1. UNCHANGED <<store, tx, reader, gc>>
    BY DEF vars, store
  <1>2. Horizon' = Horizon
    BY <1>1 DEF Horizon
  <1> QED BY <1>1, <1>2, OnlyGC DEF Unseen

\* Without a MemoryPool the chains, walked and changed one node at a time, implement an
\* abstract store of versions: each of lockfree.go's Write, Read, Validate, Commit and GC
\* acts on it in single steps, and what they do in between does not show.
THEOREM Refinement ==
  ASSUME UsePool = FALSE
  PROVE  Spec => KeepsVersions
  <1>1. Init => Versions!Init
    BY StartSeen
  <1>2. IInv /\ [Next]_vars
          => [UNCHANGED Versions!vars \/ Versions!Next]_(Versions!vars)
    <2> SUFFICES ASSUME IInv, [Next]_vars
                 PROVE  Versions!Next \/ Unseen
      BY DEF Unseen, Versions!vars
    <2>1. CASE UNCHANGED vars
      BY <2>1, NothingSeen
    <2>2. ASSUME NEW t \in Txs,
                 (\E k \in Keys : Write(t, k)) \/ Reexecute(t) \/ Commit(t)
          PROVE  Versions!Next
      BY <2>2, WriteSeen, ReexecuteSeen, CommitSeen DEF Versions!Next
    <2>3. ASSUME NEW t \in Txs, CommitStep(t)
          PROVE  Versions!Next \/ Unseen
      <3>1. CASE MarkVersionAsCommitted(t)
        BY <3>1, MarkSeen DEF Versions!Next
      <3>2. CASE CommitReturn(t)
        BY <3>2, CommitReturnSeen DEF Versions!Next
      <3> QED BY <2>3, <3>1, <3>2, WalkUnseen DEF CommitStep
    <2>4. ASSUME NEW r \in Readers,
                 \/ \E k \in Keys, a \in ReadAt : Read(r, k, a)
                 \/ Validate(r)
                 \/ Finish(r)
          PROVE  Versions!Next
      BY <2>4, ReadSeen, ValidateSeen, FinishSeen DEF Versions!Next
    <2>5. ASSUME NEW r \in Readers, ReadStep(r)
          PROVE  Versions!Next \/ Unseen
      <3>1. CASE ReadLookup(r) \/ FindNothing(r)
        BY <3>1, ReadLookupSeen, FindNothingSeen DEF Versions!Next
      <3>2. CASE FindVersion(r)
        BY <3>2, FindVersionSeen DEF Versions!Next
      <3> QED BY <2>5, <3>1, <3>2, ReadHeadUnseen, FindNextUnseen DEF ReadStep
    <2>6. ASSUME NEW b \in GCBefore, GC(b)
          PROVE  Versions!Next
      BY <2>6, GCSeen DEF Versions!Next
    <2>7. ASSUME GCStep
          PROVE  Versions!Next \/ Unseen
      <3>1. CASE GCRemove
        BY <3>1, RemoveSeen DEF Versions!Next
      <3>2. CASE GCReturn
        BY <3>2, GCReturnSeen DEF Versions!Next
      <3> QED BY <2>7, <3>1, <3>2, GCWalkUnseen, GCKeyDoneUnseen DEF GCStep
    <2> QED BY <2>1, <2>2, <2>3, <2>4, <2>5, <2>6, <2>7 DEF Next
  <1> QED BY <1>1, <1>2, Consistency, PTL DEF Spec, KeepsVersions, Versions!Spec

--------------------------------------------------------------------------------
(* Chains, for any pointers that do not run in circles *)

Graph(nx, N) == \A n \in 1 .. N : nx[n] \in 0 .. N

NoCircle(nx, N) == \A S \in SUBSET (1 .. N) : S # {} => \E n \in S : nx[n] \notin S

\* What holds of the end of a chain and of a node if of its successor, holds of all.
LEMMA ChainInduction ==
  ASSUME NEW N \in Nat, NEW nx, Graph(nx, N), NoCircle(nx, N), NEW P, 0 \in P,
         \A n \in 1 .. N : nx[n] \in P => n \in P
  PROVE  0 .. N \subseteq P
  <1> SUFFICES ASSUME ~ (0 .. N \subseteq P)
               PROVE  FALSE
    OBVIOUS
  <1>1. PICK S : S = (1 .. N) \ P
    OBVIOUS
  <1>2. S \in SUBSET (1 .. N) /\ S # {}
    BY <1>1
  <1>3. PICK n \in S : nx[n] \notin S
    BY <1>2 DEF NoCircle
  <1>4. n \in 1 .. N /\ n \notin P /\ nx[n] \in 0 .. N
    BY <1>1, <1>3 DEF Graph
  <1> QED BY <1>1, <1>3, <1>4

LEMMA ChainStep ==
  ASSUME NEW N \in Nat, NEW nx, Graph(nx, N), NEW f, IsBelow(f, nx, N), NEW n \in 0 .. N
  PROVE  /\ n = 0 => f[n] = {}
         /\ n # 0 => n \in 1 .. N /\ nx[n] \in 0 .. N /\ f[n] = {n} \cup f[nx[n]]
  <1>1. f[n] = IF n = 0 THEN {} ELSE {n} \cup f[nx[n]]
    BY DEF IsBelow
  <1>2. n # 0 => n \in 1 .. N /\ nx[n] \in 0 .. N
    BY DEF Graph
  <1> QED BY <1>1, <1>2

\* The chain that begins with h is in every closed set that h is in.
LEMMA ChainInClosed ==
  ASSUME NEW N \in Nat, NEW nx, Graph(nx, N), NoCircle(nx, N), NEW f, IsBelow(f, nx, N),
         NEW C, \A n \in 1 .. N : n \in C /\ nx[n] # 0 => nx[n] \in C,
         NEW h \in 0 .. N, h = 0 \/ h \in C
  PROVE  f[h] \subseteq C
  <1> DEFINE P == {n \in 0 .. N : n = 0 \/ n \in C => f[n] \subseteq C}
  <1>1. 0 \in P
    BY ChainStep
  <1>2. ASSUME NEW n \in 1 .. N, nx[n] \in P
        PROVE  n \in P
    <2>1. f[n] = {n} \cup f[nx[n]]
      BY ChainStep
    <2> QED BY <1>2, <2>1
  <1>3. 0 .. N \subseteq P
    <2> HIDE DEF P
    <2> QED BY <1>1, <1>2, ChainInduction
  <1> QED BY <1>3

\* It consists of nodes, each with its successors.
LEMMA ChainIsClosed ==
  ASSUME NEW N \in Nat, NEW nx, Graph(nx, N), NoCircle(nx, N), NEW f, IsBelow(f, nx, N),
         NEW h \in 0 .. N
  PROVE  /\ f[h] \subseteq 1 .. N
         /\ \A n \in f[h] : f[n] \subseteq f[h] /\ (nx[n] # 0 => nx[n] \in f[h])
  <1> DEFINE P == {n \in 0 .. N : /\ f[n] \subseteq 1 .. N
                                  /\ \A m \in f[n] : f[m] \subseteq f[n]}
  <1>1. 0 \in P
    BY ChainStep
  <1>2. ASSUME NEW n \in 1 .. N, nx[n] \in P
        PROVE  n \in P
    <2>1. f[n] = {n} \cup f[nx[n]]
      BY ChainStep
    <2> QED BY <1>2, <2>1
  <1>3. 0 .. N \subseteq P
    <2> HIDE DEF P
    <2> QED BY <1>1, <1>2, ChainInduction
  <1>4. f[h] \subseteq 1 .. N /\ \A n \in f[h] : f[n] \subseteq f[h]
    BY <1>3
  <1>5. ASSUME NEW n \in f[h], nx[n] # 0
        PROVE  nx[n] \in f[h]
    <2>1. nx[n] \in 1 .. N /\ f[n] = {n} \cup f[nx[n]]
      BY <1>4, <1>5, ChainStep
    <2>2. nx[n] \in f[nx[n]]
      BY <2>1, ChainStep
    <2> QED BY <1>4, <2>1, <2>2
  <1> QED BY <1>4, <1>5

\* A node is not its own successor, nor in the chain behind it.
LEMMA NotBehindItself ==
  ASSUME NEW N \in Nat, NEW nx, Graph(nx, N), NoCircle(nx, N), NEW f, IsBelow(f, nx, N),
         NEW n \in 1 .. N
  PROVE  n \notin f[nx[n]] /\ nx[n] # n
  <1>1. nx[n] \in 0 .. N
    BY DEF Graph
  <1>2. n \notin f[nx[n]]
    <2> SUFFICES ASSUME n \in f[nx[n]]
                 PROVE  FALSE
      OBVIOUS
    <2>1. PICK S : S = {m \in f[nx[n]] : n \in f[m]}
      OBVIOUS
    <2>2. nx[n] # 0
      BY ChainStep
    <2>3. nx[n] \in f[nx[n]]
      BY <1>1, <2>2, ChainStep
    <2>4. S \in SUBSET (1 .. N) /\ S # {}
      BY <1>1, <2>1, <2>3, ChainIsClosed
    <2>5. ASSUME NEW m \in S
          PROVE  nx[m] \in S
      <3>1. m \in 1 .. N /\ m \in f[nx[n]] /\ n \in f[m]
        BY <2>1, <2>4
      <3>2. CASE m = n
        BY <2>1, <2>3, <3>2
      <3>3. CASE m # n
        <4>1. n \in f[nx[m]]
          BY <3>1, <3>3, ChainStep
        <4>2. nx[m] # 0
          BY <3>1, <4>1, ChainStep
        <4>3. nx[m] \in f[nx[n]]
          BY <1>1, <3>1, <4>2, ChainIsClosed
        <4> QED BY <2>1, <4>1, <4>3
      <3> QED BY <3>2, <3>3
    <2> QED BY <2>4, <2>5 DEF NoCircle
  <1>3. nx[n] # n
    <2> SUFFICES ASSUME nx[n] = n
                 PROVE  FALSE
      OBVIOUS
    <2>1. n \in f[n]
      BY ChainStep
    <2> QED BY <1>2, <2>1
  <1> QED BY <1>2, <1>3

\* A chain is a line: of two of its nodes one is behind the other.
LEMMA ChainIsLine ==
  ASSUME NEW N \in Nat, NEW nx, Graph(nx, N), NoCircle(nx, N), NEW f, IsBelow(f, nx, N),
         NEW h \in 0 .. N, NEW m \in f[h], NEW n \in f[h]
  PROVE  m \in f[n] \/ n \in f[m]
  <1> DEFINE P == {i \in 0 .. N : \A a, b \in f[i] : a \in f[b] \/ b \in f[a]}
  <1>1. 0 \in P
    BY ChainStep
  <1>2. ASSUME NEW i \in 1 .. N, nx[i] \in P
        PROVE  i \in P
    <2>1. f[i] = {i} \cup f[nx[i]]
      BY ChainStep
    <2> QED BY <1>2, <2>1
  <1>3. 0 .. N \subseteq P
    <2> HIDE DEF P
    <2> QED BY <1>1, <1>2, ChainInduction
  <1> QED BY <1>3

\* No two nodes of a chain have the same successor, and the first one is nobody's.
LEMMA OnePredecessor ==
  ASSUME NEW N \in Nat, NEW nx, Graph(nx, N), NoCircle(nx, N), NEW f, IsBelow(f, nx, N),
         NEW h \in 0 .. N, NEW m \in f[h], nx[m] # 0
  PROVE  nx[m] # h /\ \A n \in f[h] : nx[n] = nx[m] => n = m
  <1>1. m \in 1 .. N /\ f[h] \subseteq 1 .. N
    BY ChainIsClosed
  <1>2. \A n \in f[h] : n \notin f[nx[n]] /\ f[n] = {n} \cup f[nx[n]]
    BY <1>1, NotBehindItself, ChainStep
  <1>3. nx[m] # h
    BY <1>2
  <1>4. ASSUME NEW n \in f[h], nx[n] = nx[m], n # m
        PROVE  FALSE
    <2>1. m \in f[n] \/ n \in f[m]
      BY ChainIsLine
    <2> QED BY <1>2, <1>4, <2>1
  <1> QED BY <1>3, <1>4

\* A chain whose nodes keep their successors stays as it is.
LEMMA ChainKept ==
  ASSUME NEW N \in Nat, NEW nx, Graph(nx, N), NoCircle(nx, N), NEW f, IsBelow(f, nx, N),
         NEW M \in Nat, N <= M, NEW ny, NEW g, IsBelow(g, ny, M),
         NEW h \in 0 .. N, \A n \in f[h] : ny[n] = nx[n]
  PROVE  g[h] = f[h]
  <1> DEFINE P == {i \in 0 .. N : (\A n \in f[i] : ny[n] = nx[n]) => g[i] = f[i]}
  <1>0. \A n \in 0 .. N : g[n] = IF n = 0 THEN {} ELSE {n} \cup g[ny[n]]
    <2>1. \A n \in 0 .. N : n \in 0 .. M
      OBVIOUS
    <2> QED BY <2>1 DEF IsBelow
  <1>a. g[0] = {} /\ f[0] = {}
    <2>1. 0 \in 0 .. N
      OBVIOUS
    <2> QED BY <1>0, <2>1, ChainStep
  <1>b. ASSUME NEW i \in 1 .. N
        PROVE  g[i] = {i} \cup g[ny[i]]
    <2>1. i \in 0 .. N /\ i # 0
      OBVIOUS
    <2> QED BY <1>0, <2>1
  <1>1. 0 \in P
    BY <1>a
  <1>2. ASSUME NEW i \in 1 .. N, nx[i] \in P
        PROVE  i \in P
    <2>1. f[i] = {i} \cup f[nx[i]]
      BY ChainStep
    <2>2. g[i] = {i} \cup g[ny[i]]
      BY <1>b
    <2> QED BY <1>2, <2>1, <2>2
  <1>3. 0 .. N \subseteq P
    <2> HIDE DEF P
    <2> QED BY <1>1, <1>2, ChainInduction
  <1> QED BY <1>3

\* The successor of p is taken out of a chain through p.
LEMMA ChainLoses ==
  ASSUME NEW N \in Nat, NEW nx, Graph(nx, N), NoCircle(nx, N), NEW f, IsBelow(f, nx, N),
         NEW ny, Graph(ny, N), NoCircle(ny, N), NEW g, IsBelow(g, ny, N),
         NEW h \in 0 .. N, NEW p \in f[h], SkipsSuccessor(ny, nx, p, N)
  PROVE  g[h] = f[h] \ {nx[p]}
  <1>1. PICK x : x = nx[p]
    OBVIOUS
  <1>2. x # 0 /\ ny[p] = nx[x] /\ \A n \in 1 .. N : n # p => ny[n] = nx[n]
    BY <1>1 DEF SkipsSuccessor
  <1>3. /\ f[h] \subseteq 1 .. N /\ x \in f[h]
        /\ \A n \in f[h] : nx[n] # 0 => nx[n] \in f[h]
    BY <1>1, <1>2, ChainIsClosed
  <1>4. x # h /\ \A n \in f[h] : nx[n] = x => n = p
    BY <1>1, <1>2, OnePredecessor
  <1>5. nx[x] # x /\ h # 0
    BY <1>3, NotBehindItself, ChainStep
  <1>6. h \in f[h] /\ h \in g[h]
    <2>1. h \in 1 .. N
      BY <1>5
    <2> QED BY <2>1, ChainStep, SMTT(30)
  <1>7. g[h] \subseteq f[h] \ {x}
    <2>1. PICK C : C = f[h] \ {x}
      OBVIOUS
    <2>2. \A n \in 1 .. N : n \in C /\ ny[n] # 0 => ny[n] \in C
      BY <1>2, <1>3, <1>4, <1>5, <2>1
    <2>3. h \in C
      BY <1>4, <1>6, <2>1
    <2>4. g[h] \subseteq C
      BY <2>2, <2>3, ChainInClosed, SMTT(30)
    <2> QED BY <2>1, <2>4
  <1>8. f[h] \ {x} \subseteq g[h]
    <2>1. PICK C : C = g[h] \cup (IF p \in g[h] THEN {x} ELSE {})
      OBVIOUS
    <2>2. /\ g[h] \subseteq 1 .. N
          /\ \A n \in g[h] : ny[n] # 0 => ny[n] \in g[h]
      BY ChainIsClosed
    <2>3. \A n \in 1 .. N : n \in C /\ nx[n] # 0 => nx[n] \in C
      <3> SUFFICES ASSUME NEW n \in 1 .. N, n \in C, nx[n] # 0
                   PROVE  nx[n] \in C
        OBVIOUS
      <3>1. CASE n = p
        <4>1. p # x
          BY <1>1, <1>3, <3>1, NotBehindItself
        <4> QED BY <1>1, <2>1, <3>1, <4>1
      <3>2. CASE n # p /\ n \in g[h]
        BY <1>2, <2>1, <2>2, <3>2
      <3>3. CASE n = x /\ p \in g[h]
        BY <1>2, <2>1, <2>2, <3>3
      <3> QED BY <2>1, <3>1, <3>2, <3>3
    <2>4. f[h] \subseteq C
      BY <1>6, <2>1, <2>3, ChainInClosed
    <2> QED BY <2>1, <2>4
  <1> QED BY <1>1, <1>7, <1>8

--------------------------------------------------------------------------------
(* The chains of a store whose nodes are used again *)

StoreTyped ==
  /\ nodes \in Seq(NodeRec)
  /\ heads \in Seq(NodeIds)
  /\ entries \in [Keys -> ChainIds]
  /\ totalKeys \in Nat /\ totalVersions \in Nat
  /\ pool \in SUBSET (NodeIds \ {0})

Linking == StoreTyped /\ Acyclic /\ OwnChain

LEMMA StoreTypedFacts ==
  ASSUME StoreTyped
  PROVE  /\ Len(nodes) \in Nat /\ Len(heads) \in Nat
         /\ NodeIds = 0 .. Len(nodes) /\ ChainIds = 0 .. Len(heads)
         /\ nodes \in [1 .. Len(nodes) -> NodeRec]
         /\ heads \in [1 .. Len(heads) -> NodeIds]
         /\ \A n \in 1 .. Len(nodes) : nodes[n].next \in NodeIds
  <1>1. nodes \in Seq(NodeRec) /\ heads \in Seq(NodeIds)
    BY DEF StoreTyped
  <1>2. Len(nodes) \in Nat /\ Len(heads) \in Nat
    BY <1>1
  <1>3. nodes \in [1 .. Len(nodes) -> NodeRec] /\ heads \in [1 .. Len(heads) -> NodeIds]
    BY <1>1, LenProperties
  <1>4. ASSUME NEW n \in 1 .. Len(nodes)
        PROVE  nodes[n] \in NodeRec
    BY <1>3
  <1> QED BY <1>2, <1>3, <1>4 DEF NodeRec, NodeIds, ChainIds

GraphFacts ==
  /\ Len(nodes) \in Nat
  /\ Graph(Pointer, Len(nodes)) /\ NoCircle(Pointer, Len(nodes))
  /\ BelowOK

LEMMA LinkingMakesGraph == Linking => GraphFacts
  <1> SUFFICES ASSUME Linking
               PROVE  GraphFacts
    OBVIOUS
  <1>1. /\ Acyclic /\ Len(nodes) \in Nat /\ NodeIds = 0 .. Len(nodes)
        /\ \A n \in 1 .. Len(nodes) : nodes[n].next \in NodeIds
    BY StoreTypedFacts DEF Linking
  <1>2. \A n \in 1 .. Len(nodes) : Pointer[n] = nodes[n].next
    BY DEF Pointer
  <1>3. Graph(Pointer, Len(nodes))
    BY <1>1, <1>2 DEF Graph
  <1>4. NoCircle(Pointer, Len(nodes))
    <2> SUFFICES ASSUME NEW S \in SUBSET (1 .. Len(nodes)), S # {}
                 PROVE  \E n \in S : Pointer[n] \notin S
      BY DEF NoCircle
    <2>1. S \in SUBSET (NodeIds \ {0})
      BY <1>1
    <2>2. PICK n \in S : nodes[n].next \notin S
      BY <1>1, <2>1 DEF Acyclic
    <2> QED BY <1>2, <2>2
  <1>5. PointersOK
    BY <1>1 DEF PointersOK
  <1> QED BY <1>1, <1>3, <1>4, <1>5, BelowExists DEF GraphFacts

\* A node and those behind it.
BehindFacts ==
  /\ Below[0] = {}
  /\ \A n \in 1 .. Len(nodes) :
       /\ nodes[n].next # n
       /\ Below[n] = {n} \cup Below[nodes[n].next]
       /\ n \notin Below[nodes[n].next]
  /\ \A h \in NodeIds :
       /\ Below[h] \subseteq 1 .. Len(nodes)
       /\ \A n \in Below[h] : nodes[n].next # 0 => nodes[n].next \in Below[h]

LEMMA LinkingMakesBehind == Linking => BehindFacts
  <1> SUFFICES ASSUME Linking
               PROVE  BehindFacts
    OBVIOUS
  <1>1. GraphFacts
    BY LinkingMakesGraph
  <1>2. PICK f : f = Below
    OBVIOUS
  <1>3. PICK nx : nx = Pointer
    OBVIOUS
  <1>4. PICK N \in Nat : N = Len(nodes)
    BY <1>1 DEF GraphFacts
  <1>5. Graph(nx, N) /\ NoCircle(nx, N) /\ IsBelow(f, nx, N)
    BY <1>1, <1>2, <1>3, <1>4 DEF GraphFacts, BelowOK
  <1>6. \A n \in 1 .. N : nx[n] = nodes[n].next
    BY <1>3, <1>4 DEF Pointer
  <1>7. f[0] = {}
    BY <1>5, ChainStep
  <1>8. ASSUME NEW n \in 1 .. N
        PROVE  /\ nodes[n].next # n
               /\ f[n] = {n} \cup f[nodes[n].next] /\ n \notin f[nodes[n].next]
    <2>1. f[n] = {n} \cup f[nx[n]]
      BY <1>5, ChainStep
    <2>2. n \notin f[nx[n]] /\ nx[n] # n
      BY <1>5, NotBehindItself
    <2> QED BY <1>6, <2>1, <2>2
  <1>9. ASSUME NEW h \in 0 .. N
        PROVE  /\ f[h] \subseteq 1 .. N
               /\ \A n \in f[h] : nodes[n].next # 0 => nodes[n].next \in f[h]
    <2>1. /\ f[h] \subseteq 1 .. N
          /\ \A n \in f[h] : nx[n] # 0 => nx[n] \in f[h]
      BY <1>5, ChainIsClosed
    <2> QED BY <1>6, <2>1
  <1> QED BY <1>2, <1>4, <1>7, <1>8, <1>9 DEF BehindFacts, NodeIds

\* The versions of a key are closed under the pointers, and the head is one of them.
LinkedIn(k) ==
  /\ Linked(k) \subseteq 1 .. Len(nodes)
  /\ \A n \in Linked(k) : nodes[n].next # 0 => nodes[n].next \in Linked(k)
  /\ entries[k] = 0 => Linked(k) = {}
  /\ entries[k] # 0 =>
       /\ entries[k] \in 1 .. Len(heads) /\ heads[entries[k]] \in NodeIds
       /\ Linked(k) = Below[heads[entries[k]]]
       /\ heads[entries[k]] # 0 => heads[entries[k]] \in Linked(k)
       /\ heads[entries[k]] = 0 => Linked(k) = {}

LEMMA LinkingMakesLinked == Linking => \A k \in Keys : LinkedIn(k)
  <1> SUFFICES ASSUME Linking, NEW k \in Keys
               PROVE  LinkedIn(k)
    OBVIOUS
  <1>1. StoreTyped /\ BehindFacts
    BY LinkingMakesBehind DEF Linking
  <1>2. CASE entries[k] = 0
    BY <1>2 DEF Linked, LinkedIn
  <1>3. CASE entries[k] # 0
    <2>1. /\ entries \in [Keys -> ChainIds] /\ ChainIds = 0 .. Len(heads)
          /\ NodeIds = 0 .. Len(nodes) /\ heads \in [1 .. Len(heads) -> NodeIds]
          /\ Len(heads) \in Nat /\ Len(nodes) \in Nat
      BY <1>1, StoreTypedFacts DEF StoreTyped
    <2>2. entries[k] \in 1 .. Len(heads)
      BY <1>3, <2>1
    <2>3. PICK h \in NodeIds : h = heads[entries[k]]
      BY <2>1, <2>2
    <2>4. Linked(k) = Below[h]
      BY <1>3, <2>3 DEF Linked
    <2>5. h # 0 => h \in Below[h]
      BY <1>1, <2>1 DEF BehindFacts
    <2>6. h = 0 => Below[h] = {}
      BY <1>1 DEF BehindFacts
    <2>7. /\ Below[h] \subseteq 1 .. Len(nodes)
          /\ \A n \in Below[h] : nodes[n].next # 0 => nodes[n].next \in Below[h]
      BY <1>1 DEF BehindFacts
    <2> QED BY <1>3, <2>2, <2>3, <2>4, <2>5, <2>6, <2>7 DEF LinkedIn
  <1> QED BY <1>2, <1>3

\* A chain whose nodes keep their successors stays as it is.
LEMMA BehindKept ==
  ASSUME Linking, Linking', Len(nodes) <= Len(nodes'), NEW h \in NodeIds,
         \A n \in Below[h] : nodes'[n].next = nodes[n].next
  PROVE  Below'[h] = Below[h]
  <1>1. GraphFacts /\ GraphFacts' /\ BehindFacts
    BY LinkingMakesGraph, LinkingMakesBehind, PTL
  <1>2. PICK N \in Nat : N = Len(nodes)
    BY <1>1 DEF GraphFacts
  <1>3. PICK M \in Nat : M = Len(nodes')
    BY <1>1 DEF GraphFacts
  <1>4. PICK f : f = Below
    OBVIOUS
  <1>5. PICK g : g = Below'
    OBVIOUS
  <1>6. PICK nx : nx = Pointer
    OBVIOUS
  <1>7. PICK ny : ny = Pointer'
    OBVIOUS
  <1>8. Graph(nx, N) /\ NoCircle(nx, N) /\ IsBelow(f, nx, N)
    BY <1>1, <1>2, <1>4, <1>6 DEF GraphFacts, BelowOK
  <1>9. IsBelow(g, ny, M)
    BY <1>1, <1>3, <1>5, <1>7 DEF GraphFacts, BelowOK
  <1>10. h \in 0 .. N /\ N <= M
    BY <1>2, <1>3 DEF NodeIds
  <1>11. \A n \in f[h] : ny[n] = nx[n]
    <2> SUFFICES ASSUME NEW n \in f[h]
                 PROVE  ny[n] = nx[n]
      OBVIOUS
    <2>1. n \in 1 .. N /\ nodes'[n].next = nodes[n].next
      BY <1>1, <1>2, <1>4 DEF BehindFacts
    <2>2. nx[n] = nodes[n].next
      BY <1>2, <1>6, <2>1 DEF Pointer
    <2>3. n \in 1 .. M
      BY <1>10, <2>1
    <2>4. ny[n] = nodes'[n].next
      BY <1>3, <1>7, <2>3 DEF Pointer
    <2> QED BY <2>1, <2>2, <2>4
  <1> QED BY <1>4, <1>5, <1>8, <1>9, <1>10, <1>11, ChainKept

--------------------------------------------------------------------------------
(* What the operations do to such a store *)

\* Write puts node n, which is new or taken from the pool, in front of the others.
WroteTo(n, k) ==
  /\ Len(nodes') \in Nat /\ Len(nodes) <= Len(nodes') /\ n \in 1 .. Len(nodes')
  /\ n \in 1 .. Len(nodes) => n \in pool
  /\ \A m \in 1 .. Len(nodes') : m # n => m \in 1 .. Len(nodes) /\ nodes'[m] = nodes[m]
  /\ nodes'[n].key = k
  /\ nodes'[n].next = IF entries[k] = 0 THEN 0 ELSE heads[entries[k]]
  /\ pool' = pool \ {n}
  /\ Len(heads) \in Nat /\ Len(heads') \in Nat /\ Len(heads) <= Len(heads')
  /\ \A l \in Keys \ {k} : entries'[l] = entries[l]
  /\ entries'[k] = IF entries[k] = 0 THEN Len(heads) + 1 ELSE entries[k]
  /\ \A c \in 1 .. Len(heads) : c # entries[k] => heads'[c] = heads[c]
  /\ entries'[k] \in 1 .. Len(heads')
  /\ heads'[entries'[k]] = n

LEMMA WriteToEffect ==
  ASSUME StoreTyped, NEW t \in Txs, NEW k \in Keys, tx[t].inc \in Nat, Write(t, k)
  PROVE  StoreTyped' /\ \E n \in NewNodes : WroteTo(n, k)
  <1> DEFINE N == Len(nodes)
             chain == IF entries[k] = 0 THEN Len(heads) + 1 ELSE entries[k]
             next == IF entries[k] = 0 THEN 0 ELSE heads[chain]
             node == [key |-> k, tx |-> t, inc |-> tx[t].inc, status |-> "estimate",
                      next |-> next]
  <1>1. /\ N \in Nat /\ Len(heads) \in Nat
        /\ nodes \in [1 .. N -> NodeRec] /\ heads \in [1 .. Len(heads) -> NodeIds]
        /\ entries \in [Keys -> ChainIds] /\ pool \in SUBSET (NodeIds \ {0})
        /\ NodeIds = 0 .. N /\ ChainIds = 0 .. Len(heads)
    BY StoreTypedFacts DEF StoreTyped
  <1>2. PICK n \in NewNodes :
          /\ SetNode(n, node)
          /\ heads' = IF entries[k] = 0 THEN Append(heads, n) ELSE [heads EXCEPT ![chain] = n]
          /\ entries' = [entries EXCEPT ![k] = chain]
          /\ pool' = pool \ {n}
    BY DEF Write
  <1>3. n \in 1 .. N + 1 /\ (n # N + 1 => n \in pool) /\ (n \in 1 .. N => n \in pool)
    BY <1>1, <1>2 DEF NewNodes
  <1>4. PICK M \in Nat : M = N + (IF n > N THEN 1 ELSE 0)
    <2>1. N + (IF n > N THEN 1 ELSE 0) \in Nat
      BY <1>1, <1>3
    <2> QED BY <2>1
  <1>5. nodes' = [m \in 1 .. M |-> IF m = n THEN node ELSE nodes[m]]
    <2>1. SetNode(n, node)
      BY <1>2
    <2> HIDE DEF node
    <2> QED BY <1>4, <2>1 DEF SetNode
  <1>6. N <= M /\ n \in 1 .. M /\ \A m \in 1 .. M : m # n => m \in 1 .. N
    BY <1>1, <1>3, <1>4
  <1> HIDE DEF node
  <1>7. Len(nodes') = M
    <2>1. PICK S : S = {nodes'[m] : m \in 1 .. M}
      OBVIOUS
    <2>2. nodes' \in [1 .. M -> S]
      BY <1>5, <2>1
    <2> QED BY <2>2, SeqIsFunction
  <1>8. nodes'[n] = node /\ \A m \in 1 .. M : m # n => nodes'[m] = nodes[m]
    BY <1>5, <1>6
  <1>9. /\ chain \in Nat \ {0} /\ next \in NodeIds
        /\ entries[k] # 0 => chain \in 1 .. Len(heads)
    BY <1>1
  <1>10. /\ heads' \in Seq(0 .. M) /\ Len(heads') \in Nat /\ Len(heads) <= Len(heads')
         /\ chain \in 1 .. Len(heads') /\ heads'[chain] = n
         /\ \A c \in 1 .. Len(heads) : c # chain => heads'[c] = heads[c]
    <2>0. heads \in Seq(0 .. M) /\ n \in 0 .. M
      <3>1. PICK S : S = 0 .. M
        OBVIOUS
      <3>2. heads \in [1 .. Len(heads) -> S]
        BY <1>1, <1>6, <3>1
      <3>3. heads \in Seq(S)
        BY <1>1, <3>2, SeqIsFunction
      <3> QED BY <1>1, <1>6, <3>1, <3>3
    <2>1. CASE entries[k] = 0
      <3>1. heads' = Append(heads, n) /\ chain = Len(heads) + 1
        BY <1>2, <2>1
      <3> QED BY <1>1, <2>0, <3>1
    <2>2. CASE entries[k] # 0
      <3>1. heads' = [heads EXCEPT ![chain] = n] /\ chain \in 1 .. Len(heads)
        BY <1>2, <1>9, <2>2
      <3> QED BY <1>1, <2>0, <3>1
    <2> QED BY <2>1, <2>2
  <1>11. entries'[k] = chain /\ \A l \in Keys \ {k} : entries'[l] = entries[l]
    BY <1>1, <1>2
  <1>12. WroteTo(n, k)
    <2>1. nodes'[n].key = k /\ nodes'[n].next = next
      BY <1>8 DEF node
    <2>2. \A c \in 1 .. Len(heads) : c # entries[k] => heads'[c] = heads[c]
      BY <1>1, <1>10
    <2>3. \A m \in 1 .. Len(nodes') : m # n => m \in 1 .. Len(nodes) /\ nodes'[m] = nodes[m]
      BY <1>6, <1>7, <1>8
    <2> QED BY <1>1, <1>2, <1>3, <1>6, <1>7, <1>10, <1>11, <2>1, <2>2, <2>3 DEF WroteTo
  <1>13. NodeIds' = 0 .. M /\ ChainIds' = 0 .. Len(heads')
    BY <1>7 DEF NodeIds, ChainIds
  <1>14. nodes' \in Seq(NodeRec)'
    <2>1. PICK S : S = NodeRec'
      OBVIOUS
    <2>2. node \in S
      BY <1>1, <1>6, <1>9, <1>13, <2>1 DEF node, NodeRec, Statuses
    <2>3. \A m \in 1 .. N : nodes[m] \in S
      <3>1. NodeRec \subseteq S
        BY <1>1, <1>6, <1>13, <2>1 DEF NodeRec
      <3> QED BY <1>1, <3>1
    <2>4. nodes' \in [1 .. M -> S]
      BY <1>5, <1>6, <2>2, <2>3
    <2>5. nodes' \in Seq(S)
      BY SMTT(30), <2>4, SeqIsFunction
    <2> QED BY <2>1, <2>5
  <1>15. entries' \in [Keys -> ChainIds']
    <2>1. chain \in ChainIds'
      BY <1>10, <1>13
    <2>2. ChainIds \subseteq ChainIds'
      BY <1>1, <1>10, <1>13
    <2> QED BY <1>1, <1>2, <2>1, <2>2
  <1>16. totalKeys' \in Nat /\ totalVersions' \in Nat
    BY DEF Write, StoreTyped
  <1>17. pool' \in SUBSET (NodeIds' \ {0})
    BY <1>1, <1>2, <1>6, <1>13
  <1>18. StoreTyped'
    BY <1>10, <1>13, <1>14, <1>15, <1>16, <1>17 DEF StoreTyped
  <1> QED BY <1>12, <1>18

\* No chain has the node, so what it pointed to in the pool is of no matter.
LEMMA WriteToChains ==
  ASSUME Linking, ChainsWellFormed, StoreTyped', NEW k \in Keys, NEW n, WroteTo(n, k)
  PROVE  /\ Linking' /\ ChainsWellFormed'
         /\ \A l \in Keys : n \notin Linked(l)
         /\ \A l \in Keys : Linked(l)' = IF l = k THEN Linked(l) \cup {n} ELSE Linked(l)
  <1> DEFINE N == Len(nodes)
             h == IF entries[k] = 0 THEN 0 ELSE heads[entries[k]]
  <1>1. /\ StoreTyped /\ Acyclic /\ OwnChain /\ BehindFacts
        /\ \A l \in Keys : LinkedIn(l)
    BY LinkingMakesBehind, LinkingMakesLinked DEF Linking
  <1>2. /\ N \in Nat /\ NodeIds = 0 .. N /\ entries \in [Keys -> ChainIds]
        /\ ChainIds = 0 .. Len(heads) /\ pool \subseteq 1 .. N
        /\ \A m \in 1 .. N : nodes[m].next \in 0 .. N
    BY <1>1, StoreTypedFacts DEF StoreTyped
  <1>3. /\ Len(nodes') \in Nat /\ N <= Len(nodes') /\ n \in 1 .. Len(nodes')
        /\ n \in 1 .. N => n \in pool
        /\ \A m \in 1 .. Len(nodes') : m # n => m \in 1 .. N /\ nodes'[m] = nodes[m]
        /\ nodes'[n].key = k /\ nodes'[n].next = h
        /\ NodeIds' = 0 .. Len(nodes')
    BY DEF WroteTo, NodeIds
  <1>4. ASSUME NEW l \in Keys
        PROVE  n \notin Linked(l)
    BY <1>1, <1>3 DEF ChainsWellFormed, LinkedIn
  <1>5. h \in 0 .. N /\ (h # 0 => h \in Linked(k)) /\ Below[h] = Linked(k)
    <2>1. LinkedIn(k) /\ Below[0] = {}
      BY <1>1 DEF BehindFacts
    <2>2. CASE entries[k] = 0
      <3>1. h = 0 /\ Linked(k) = {}
        BY <2>1, <2>2 DEF LinkedIn
      <3>2. 0 \in 0 .. N
        BY <1>2
      <3> HIDE DEF h
      <3> QED BY <2>1, <3>1, <3>2
    <2>3. CASE entries[k] # 0
      BY <1>2, <2>1, <2>3 DEF LinkedIn
    <2> QED BY <2>2, <2>3
  <1>6. Acyclic'
    <2> SUFFICES ASSUME NEW S \in SUBSET (1 .. Len(nodes')),
                        \A m \in S : nodes'[m].next \in S
                 PROVE  S = {}
      <3>1. NodeIds' \ {0} = 1 .. Len(nodes')
        BY <1>3
      <3> QED BY <3>1 DEF Acyclic
    <2>1. \A T \in SUBSET (1 .. N) : T # {} => \E m \in T : nodes[m].next \notin T
      BY <1>1, <1>2 DEF Acyclic
    <2>2. n \notin S
      <3> SUFFICES ASSUME n \in S
                   PROVE  FALSE
        OBVIOUS
      <3>1. h \in S /\ h \in Linked(k)
        BY <1>3, <1>5
      <3>2. PICK T : T = S \cap Linked(k)
        OBVIOUS
      <3>3. T \in SUBSET (1 .. N) /\ T # {}
        BY <1>1, <3>1, <3>2 DEF LinkedIn
      <3>4. ASSUME NEW m \in T
            PROVE  nodes[m].next \in T
        <4>1. m # n /\ m \in S /\ m \in Linked(k)
          BY <1>4, <3>2
        <4>2. nodes'[m] = nodes[m] /\ nodes'[m].next \in S
          BY <1>3, <4>1
        <4>3. nodes[m].next # 0
          BY <4>2
        <4> QED BY <1>1, <3>2, <4>1, <4>2, <4>3 DEF LinkedIn
      <3> QED BY <2>1, <3>3, <3>4
    <2>3. S \in SUBSET (1 .. N) /\ \A m \in S : nodes[m].next \in S
      BY <1>3, <2>2
    <2> QED BY <2>1, <2>3
  <1>7. \A l \in Keys : entries'[l] = IF l # k THEN entries[l]
                          ELSE IF entries[k] = 0 THEN Len(heads) + 1 ELSE entries[k]
    BY DEF WroteTo
  <1>8. OwnChain'
    <2> SUFFICES ASSUME NEW a \in Keys, NEW b \in Keys, entries'[a] = entries'[b]
                 PROVE  a = b \/ entries'[a] = 0
      BY DEF OwnChain
    <2>1. entries[a] = entries[b] => a = b \/ entries[a] = 0
      BY <1>1 DEF OwnChain
    <2>2. entries[a] \in 0 .. Len(heads) /\ entries[b] \in 0 .. Len(heads) /\ Len(heads) \in Nat
      BY <1>2 DEF WroteTo
    <2> QED BY <1>7, <2>1, <2>2
  <1>9. Linking'
    BY <1>6, <1>8 DEF Linking
  <1>10. ASSUME NEW g \in NodeIds, n \notin Below[g]
         PROVE  Below'[g] = Below[g]
    <2>1. ASSUME NEW m \in Below[g]
          PROVE  nodes'[m].next = nodes[m].next
      <3>1. m \in 1 .. N
        BY <1>1 DEF BehindFacts
      <3>2. m # n /\ m \in 1 .. Len(nodes')
        BY <1>2, <1>3, <1>10, <3>1
      <3> QED BY <1>3, <3>2
    <2> QED BY <1>3, <1>9, <2>1, BehindKept
  <1>11. ASSUME NEW l \in Keys, l # k
         PROVE  Linked(l)' = Linked(l)
    <2>1. entries'[l] = entries[l]
      BY <1>7, <1>11
    <2>2. CASE entries[l] = 0
      BY <2>1, <2>2 DEF Linked
    <2>3. CASE entries[l] # 0
      <3>1. /\ entries[l] \in 1 .. Len(heads) /\ heads[entries[l]] \in NodeIds
            /\ Linked(l) = Below[heads[entries[l]]]
        BY <1>1, <2>3 DEF LinkedIn
      <3>2. entries[l] # entries[k]
        BY <1>1, <1>11, <2>3 DEF OwnChain
      <3>3. heads'[entries'[l]] = heads[entries[l]]
        BY <2>1, <3>1, <3>2 DEF WroteTo
      <3>4. Linked(l)' = Below'[heads[entries[l]]]
        BY <2>1, <2>3, <3>3 DEF Linked
      <3> QED BY <1>4, <1>10, <3>1, <3>4
    <2> QED BY <2>2, <2>3
  <1>12. Linked(k)' = Linked(k) \cup {n}
    <2>1. entries'[k] # 0 /\ heads'[entries'[k]] = n
      BY DEF WroteTo
    <2>2. Linked(k)' = Below'[n]
      BY <2>1 DEF Linked
    <2>3. PICK g : g = Below'
      OBVIOUS
    <2>4. g[n] = {n} \cup g[h]
      <3>1. BehindFacts'
        BY <1>9, LinkingMakesBehind, PTL
      <3>2. g[n] = {n} \cup g[nodes'[n].next]
        BY <1>3, <2>3, <3>1 DEF BehindFacts
      <3>3. nodes'[n].next = h
        BY <1>3
      <3> HIDE DEF h
      <3> QED BY <3>2, <3>3
    <2>5. g[h] = Linked(k)
      <3>1. h \in NodeIds /\ n \notin Below[h] /\ Below[h] = Linked(k)
        BY <1>2, <1>4, <1>5
      <3> HIDE DEF h
      <3> QED BY <1>10, <2>3, <3>1
    <2> QED BY <2>2, <2>3, <2>4, <2>5
  <1>13. ChainsWellFormed'
    <2> SUFFICES ASSUME NEW l \in Keys, NEW m \in Linked(l)'
                 PROVE  nodes'[m].key = l /\ m \notin pool'
      BY DEF ChainsWellFormed
    <2>1. CASE m = n
      BY <1>3, <1>4, <1>11, <2>1 DEF WroteTo
    <2>2. CASE m # n
      <3>1. m \in Linked(l)
        BY <1>11, <1>12, <2>2
      <3>2. m \in 1 .. N /\ nodes[m].key = l /\ m \notin pool
        BY <1>1, <3>1 DEF ChainsWellFormed, LinkedIn
      <3>3. m \in 1 .. Len(nodes')
        BY <1>2, <1>3, <3>2
      <3> QED BY <1>3, <2>2, <3>2, <3>3 DEF WroteTo
    <2> QED BY <2>1, <2>2
  <1> QED BY <1>4, <1>9, <1>11, <1>12, <1>13

\* Only what nodes say changes: the chains stay.
LEMMA SameChainsStay ==
  ASSUME Linking, Linking', UNCHANGED <<heads, entries>>, Len(nodes') = Len(nodes),
         \A n \in 1 .. Len(nodes) : nodes'[n].next = nodes[n].next
  PROVE  \A k \in Keys : Linked(k)' = Linked(k)
  <1> SUFFICES ASSUME NEW k \in Keys
               PROVE  Linked(k)' = Linked(k)
    OBVIOUS
  <1>1. BehindFacts /\ LinkedIn(k) /\ Len(nodes) \in Nat
    BY LinkingMakesBehind, LinkingMakesLinked, StoreTypedFacts DEF Linking
  <1>2. CASE entries[k] = 0
    BY <1>2 DEF Linked
  <1>3. CASE entries[k] # 0
    <2>1. PICK h \in NodeIds : h = heads[entries[k]]
      BY <1>1, <1>3 DEF LinkedIn
    <2>2. Below'[h] = Below[h]
      BY <1>1, BehindKept DEF BehindFacts
    <2> QED BY <1>3, <2>1, <2>2 DEF Linked
  <1> QED BY <1>2, <1>3

LEMMA MarkKeepsChains ==
  ASSUME Linking, ChainsWellFormed, NEW n \in 1 .. Len(nodes),
         nodes' = [nodes EXCEPT ![n].status = "committed"],
         UNCHANGED <<heads, entries, totalKeys, totalVersions, pool>>
  PROVE  /\ Linking' /\ ChainsWellFormed' /\ Len(nodes') = Len(nodes)
         /\ \A m \in 1 .. Len(nodes) : nodes'[m].next = nodes[m].next
         /\ \A k \in Keys : Linked(k)' = Linked(k)
  <1>1. StoreTyped /\ Acyclic /\ OwnChain
    BY DEF Linking
  <1>2. /\ Len(nodes) \in Nat /\ nodes \in [1 .. Len(nodes) -> NodeRec]
        /\ NodeIds = 0 .. Len(nodes)
    BY <1>1, StoreTypedFacts
  <1>3. \A m \in 1 .. Len(nodes) : m # n => nodes'[m] = nodes[m]
    BY <1>2
  <1>4. /\ nodes[n] \in NodeRec
        /\ nodes'[n] = [nodes[n] EXCEPT !.status = "committed"]
    BY <1>2
  <1>5. nodes'[n].next = nodes[n].next /\ nodes'[n].key = nodes[n].key
    BY <1>4 DEF NodeRec
  <1>6. \A m \in 1 .. Len(nodes) : nodes'[m].next = nodes[m].next /\ nodes'[m].key = nodes[m].key
    BY <1>3, <1>5
  <1>7. Len(nodes') = Len(nodes) /\ nodes' \in Seq(NodeRec)
    <2>1. PICK S : S = NodeRec
      OBVIOUS
    <2>2. nodes'[n] \in S
      BY <1>4, <2>1 DEF NodeRec, Statuses
    <2>3. nodes' \in [1 .. Len(nodes) -> S]
      BY <1>2, <2>1, <2>2
    <2> QED BY SMTT(30), <1>2, <2>1, <2>3, SeqIsFunction
  <1>8. NodeIds' = NodeIds /\ ChainIds' = ChainIds
    BY <1>7 DEF NodeIds, ChainIds
  <1>9. StoreTyped'
    BY <1>1, <1>7, <1>8 DEF StoreTyped, NodeRec
  <1>10. Acyclic'
    <2> SUFFICES ASSUME NEW S \in SUBSET (NodeIds \ {0}), S # {}
                 PROVE  \E m \in S : nodes'[m].next \notin S
      BY <1>8 DEF Acyclic
    <2>1. PICK m \in S : nodes[m].next \notin S
      BY <1>1 DEF Acyclic
    <2> QED BY <1>2, <1>6, <2>1
  <1>11. Linking'
    BY <1>1, <1>9, <1>10 DEF Linking, OwnChain
  <1>12. \A k \in Keys : Linked(k)' = Linked(k)
    BY <1>6, <1>7, <1>11, SameChainsStay
  <1>13. ChainsWellFormed'
    <2>1. \A k \in Keys : Linked(k) \subseteq 1 .. Len(nodes)
      BY LinkingMakesLinked DEF LinkedIn
    <2> QED BY <1>6, <1>12, <2>1 DEF ChainsWellFormed
  <1> QED BY <1>6, <1>7, <1>11, <1>12, <1>13

\* GC stands on a node of the chain.
LEMMA GCStandsIn ==
  ASSUME Linking, GCInv, gc.pc = "visit", gc.node # 0
  PROVE  /\ gc.key \in Keys /\ entries[gc.key] # 0 /\ gc.node \in Linked(gc.key)
         /\ gc.prev # 0 => gc.prev \in Linked(gc.key) /\ nodes[gc.prev].next = gc.node
         /\ gc.prev = 0 => heads[entries[gc.key]] = gc.node
  <1>1. /\ gc.key \in Keys /\ entries[gc.key] # 0
        /\ IF gc.prev = 0 THEN gc.node = heads[entries[gc.key]]
                          ELSE gc.prev \in Linked(gc.key) /\ gc.node = nodes[gc.prev].next
    BY DEF GCInv
  <1>2. LinkedIn(gc.key)
    BY <1>1, LinkingMakesLinked
  <1> QED BY <1>1, <1>2 DEF LinkedIn

\* GC takes the node out, with or without a pool to give it to.
LEMMA RemoveFromEffect ==
  ASSUME Linking, GCInv, GCRemove
  PROVE  /\ Removed /\ StoreTyped'
         /\ pool' = IF UsePool THEN pool \cup {gc.node} ELSE pool
  <1> DEFINE q == gc.node
             p == gc.prev
             x == nodes[q].next
             c == entries[gc.key]
             N == Len(nodes)
  <1>1. StoreTyped
    BY DEF Linking
  <1>2. /\ N \in Nat /\ Len(heads) \in Nat
        /\ nodes \in [1 .. N -> NodeRec] /\ heads \in [1 .. Len(heads) -> NodeIds]
        /\ entries \in [Keys -> ChainIds] /\ pool \in SUBSET (NodeIds \ {0})
        /\ NodeIds = 0 .. N /\ ChainIds = 0 .. Len(heads)
        /\ \A m \in 1 .. N : nodes[m].next \in NodeIds
    BY <1>1, StoreTypedFacts DEF StoreTyped
  <1>3. gc.pc = "visit" /\ q # 0
    BY DEF GCRemove
  <1>4. /\ gc.key \in Keys /\ c # 0 /\ q \in Linked(gc.key)
        /\ p # 0 => p \in Linked(gc.key) /\ nodes[p].next = q
        /\ p = 0 => heads[c] = q
    BY <1>3, GCStandsIn
  <1>5. LinkedIn(gc.key)
    BY <1>4, LinkingMakesLinked
  <1>6. /\ q \in 1 .. N /\ c \in 1 .. Len(heads) /\ x \in NodeIds
        /\ p # 0 => p \in 1 .. N
    BY <1>2, <1>4, <1>5 DEF LinkedIn
  <1>7. /\ p # 0 => nodes' = [nodes EXCEPT ![p].next = x] /\ heads' = heads
        /\ p = 0 => heads' = [heads EXCEPT ![c] = x] /\ nodes' = nodes
        /\ pool' = (IF UsePool THEN pool \cup {q} ELSE pool) /\ entries' = entries
        /\ totalKeys' = totalKeys /\ totalVersions' = totalVersions
    BY DEF GCRemove
  <1>8. /\ Len(nodes') = N /\ nodes' \in Seq(NodeRec)
        /\ \A n \in 1 .. N : /\ NodesKept(n) /\ nodes'[n].status = nodes[n].status
                             /\ nodes'[n].next = IF n = p THEN x ELSE nodes[n].next
    <2>1. CASE p = 0
      BY <1>1, <1>2, <1>7, <2>1 DEF StoreTyped, NodesKept
    <2>2. CASE p # 0
      <3>1. \A n \in 1 .. N : n # p => nodes'[n] = nodes[n]
        BY <1>2, <1>7, <2>2
      <3>2. nodes[p] \in NodeRec /\ nodes'[p] = [nodes[p] EXCEPT !.next = x]
        BY <1>2, <1>6, <1>7, <2>2
      <3>3. NodesKept(p) /\ nodes'[p].next = x /\ nodes'[p].status = nodes[p].status
        BY <3>2 DEF NodesKept, NodeRec
      <3>4. PICK S : S = NodeRec
        OBVIOUS
      <3>5. nodes'[p] \in S
        BY <1>6, <3>2, <3>4 DEF NodeRec
      <3>6. nodes' \in [1 .. N -> S]
        BY <1>2, <1>7, <2>2, <3>4, <3>5
      <3>7. nodes' \in Seq(S) /\ Len(nodes') = N
        BY <1>2, <3>6, SeqIsFunction
      <3> QED BY <3>1, <3>3, <3>4, <3>7 DEF NodesKept
    <2> QED BY <2>1, <2>2
  <1>9. /\ Len(heads') = Len(heads) /\ heads' \in Seq(NodeIds)
        /\ \A d \in 1 .. Len(heads) :
             heads'[d] = IF p = 0 /\ d = c THEN x ELSE heads[d]
    <2>1. CASE p # 0
      BY <1>1, <1>7, <2>1 DEF StoreTyped
    <2>2. CASE p = 0
      <3>1. PICK S : S = NodeIds
        OBVIOUS
      <3>2. heads' \in [1 .. Len(heads) -> S]
        BY <1>2, <1>6, <1>7, <2>2, <3>1
      <3>3. heads' \in Seq(S) /\ Len(heads') = Len(heads)
        BY <1>2, <3>2, SeqIsFunction
      <3> QED BY <1>2, <1>7, <2>2, <3>1, <3>3
    <2> QED BY <2>1, <2>2
  <1>10. Removed
    BY <1>7, <1>8, <1>9 DEF Removed
  <1>11. StoreTyped'
    <2>1. NodeIds' = NodeIds /\ ChainIds' = ChainIds
      BY <1>8, <1>9 DEF NodeIds, ChainIds
    <2>2. pool' \in SUBSET (NodeIds \ {0})
      BY <1>2, <1>6, <1>7
    <2> QED BY <1>1, <1>7, <1>8, <1>9, <2>1, <2>2 DEF StoreTyped, NodeRec
  <1> QED BY <1>7, <1>10, <1>11

LEMMA RemoveFromChains ==
  ASSUME Linking, ChainsWellFormed, StoreTyped', GCInv, gc.pc = "visit", gc.node # 0,
         Removed, pool' \subseteq pool \cup {gc.node}
  PROVE  /\ Linking' /\ ChainsWellFormed'
         /\ \A k \in Keys : Linked(k)' = Linked(k) \ {gc.node}
  <1> DEFINE q == gc.node
             p == gc.prev
             x == nodes[q].next
             N == Len(nodes)
  <1>1. /\ StoreTyped /\ Acyclic /\ OwnChain /\ BehindFacts /\ GraphFacts
        /\ \A k \in Keys : LinkedIn(k)
    BY LinkingMakesBehind, LinkingMakesLinked, LinkingMakesGraph DEF Linking
  <1>2. /\ N \in Nat /\ NodeIds = 0 .. N /\ entries \in [Keys -> ChainIds]
        /\ ChainIds = 0 .. Len(heads)
        /\ \A m \in 1 .. N : nodes[m].next \in 0 .. N
    BY <1>1, StoreTypedFacts DEF StoreTyped
  <1>3. /\ gc.key \in Keys /\ entries[gc.key] # 0 /\ q \in Linked(gc.key)
        /\ p # 0 => p \in Linked(gc.key) /\ nodes[p].next = q
        /\ p = 0 => heads[entries[gc.key]] = q
    BY GCStandsIn
  <1>4. q \in 1 .. N /\ (p # 0 => p \in 1 .. N) /\ x \in 0 .. N
    BY <1>1, <1>2, <1>3 DEF LinkedIn
  <1>5. /\ Len(nodes') = N /\ Len(heads') = Len(heads) /\ entries' = entries
        /\ NodeIds' = NodeIds
        /\ \A n \in 1 .. N : /\ nodes'[n].key = nodes[n].key
                             /\ nodes'[n].next = IF n = p THEN x ELSE nodes[n].next
        /\ \A c \in 1 .. Len(heads) :
             heads'[c] = IF p = 0 /\ c = entries[gc.key] THEN x ELSE heads[c]
    BY DEF Removed, NodesKept, NodeIds
  <1>6. Acyclic'
    <2> SUFFICES ASSUME NEW S \in SUBSET (1 .. N), \A m \in S : nodes'[m].next \in S
                 PROVE  S = {}
      <3>1. NodeIds' \ {0} = 1 .. N
        BY <1>2, <1>5
      <3> QED BY <3>1 DEF Acyclic
    <2>1. \A T \in SUBSET (1 .. N) : T # {} => \E m \in T : nodes[m].next \notin T
      BY <1>1, <1>2 DEF Acyclic
    <2>2. CASE p \in S
      <3>a. p \in 1 .. N /\ p # 0
        <4>1. \A a \in S : a \in 1 .. N /\ a # 0
          BY <1>2
        <4>2. p \in S
          BY <2>2
        <4> HIDE DEF p, N
        <4> QED BY <4>1, <4>2
      <3>b. nodes'[p].next \in S
        BY <2>2
      <3>1. x \in S /\ nodes[p].next = q
        BY <1>3, <1>5, <3>a, <3>b
      <3>2. PICK T : T = S \cup {q}
        OBVIOUS
      <3>3. T \in SUBSET (1 .. N) /\ T # {}
        BY <1>4, <3>2
      <3>4. \A m \in T : nodes[m].next \in T
        BY <1>5, <3>1, <3>2
      <3> QED BY <2>1, <3>3, <3>4
    <2>3. CASE p \notin S
      <3>1. \A m \in S : nodes[m].next \in S
        BY <1>5, <2>3
      <3> QED BY <2>1, <3>1
    <2> QED BY <2>2, <2>3
  <1>7. Linking'
    BY <1>1, <1>5, <1>6 DEF Linking, OwnChain
  <1>8. ASSUME NEW h \in NodeIds, p \notin Below[h]
        PROVE  Below'[h] = Below[h]
    <2>1. \A n \in Below[h] : nodes'[n].next = nodes[n].next
      BY <1>1, <1>5, <1>8 DEF BehindFacts
    <2> QED BY <1>2, <1>5, <1>7, <2>1, BehindKept
  <1>9. ASSUME NEW k \in Keys, k # gc.key
        PROVE  q \notin Linked(k) /\ p \notin Linked(k)
    <2>1. nodes[q].key = gc.key /\ (p # 0 => nodes[p].key = gc.key)
      BY <1>3 DEF ChainsWellFormed
    <2>2. Linked(k) \subseteq 1 .. N
      BY <1>1 DEF LinkedIn
    <2> QED BY <1>9, <2>1, <2>2 DEF ChainsWellFormed
  <1>10. ASSUME NEW k \in Keys, k # gc.key
         PROVE  Linked(k)' = Linked(k) \ {q}
    <2>1. CASE entries[k] = 0
      BY <1>5, <2>1 DEF Linked
    <2>2. CASE entries[k] # 0
      <3>1. /\ entries[k] \in 1 .. Len(heads) /\ heads[entries[k]] \in NodeIds
            /\ Linked(k) = Below[heads[entries[k]]]
        BY <1>1, <2>2 DEF LinkedIn
      <3>2. entries[k] # entries[gc.key]
        BY <1>1, <1>3, <1>10, <2>2 DEF OwnChain
      <3>3. Linked(k)' = Below'[heads[entries[k]]]
        BY <1>5, <2>2, <3>1, <3>2 DEF Linked
      <3> QED BY <1>8, <1>9, <1>10, <3>1, <3>3
    <2> QED BY <2>1, <2>2
  <1>11. ASSUME NEW k \in Keys, k = gc.key
         PROVE  Linked(k)' = Linked(k) \ {q}
    <2>1. /\ entries[k] \in 1 .. Len(heads) /\ heads[entries[k]] \in NodeIds
          /\ Linked(k) = Below[heads[entries[k]]] /\ entries[k] # 0
      BY <1>1, <1>3, <1>11 DEF LinkedIn
    <2>2. CASE p = 0
      <3>1. Linked(k) = Below[q] /\ Below[q] = {q} \cup Below[x] /\ q \notin Below[x]
        BY <1>1, <1>3, <1>4, <1>11, <2>1, <2>2 DEF BehindFacts
      <3>2. Linked(k)' = Below'[x]
        BY <1>5, <1>11, <2>1, <2>2 DEF Linked
      <3>3. x \in NodeIds /\ p \notin Below[x]
        BY <1>1, <1>2, <1>4, <2>2 DEF BehindFacts
      <3> HIDE DEF x
      <3> QED BY <1>8, <3>1, <3>2, <3>3
    <2>3. CASE p # 0
      <3>1. PICK f : f = Below
        OBVIOUS
      <3>2. PICK g : g = Below'
        OBVIOUS
      <3>3. PICK nx : nx = Pointer
        OBVIOUS
      <3>4. PICK ny : ny = Pointer'
        OBVIOUS
      <3>5. PICK M \in Nat : M = N
        BY <1>2
      <3>6. PICK h \in 0 .. M : h = heads[entries[k]]
        BY <1>2, <2>1, <3>5
      <3>7. Graph(nx, M) /\ NoCircle(nx, M) /\ IsBelow(f, nx, M)
        BY <1>1, <3>1, <3>3, <3>5 DEF GraphFacts, BelowOK
      <3>8. Graph(ny, M) /\ NoCircle(ny, M) /\ IsBelow(g, ny, M)
        <4>1. GraphFacts'
          BY <1>7, LinkingMakesGraph, PTL
        <4> QED BY <1>5, <3>2, <3>4, <3>5, <4>1 DEF GraphFacts, BelowOK
      <3>9. PICK a \in f[h] : a = p
        BY <1>3, <1>11, <2>1, <2>3, <3>1, <3>6
      <3>10. \A n \in 1 .. M : nx[n] = nodes[n].next
                              /\ ny[n] = IF n = a THEN x ELSE nodes[n].next
        <4> SUFFICES ASSUME NEW n \in 1 .. M
                     PROVE  nx[n] = nodes[n].next /\ ny[n] = IF n = a THEN x ELSE nodes[n].next
          OBVIOUS
        <4>1. nx[n] = nodes[n].next
          BY <3>3, <3>5 DEF Pointer
        <4>2. ny[n] = nodes'[n].next
          BY <1>5, <3>4, <3>5 DEF Pointer
        <4> QED BY <1>5, <3>5, <3>9, <4>1, <4>2
      <3>11. a \in 1 .. M /\ q \in 1 .. M
        BY <1>4, <2>3, <3>5, <3>9
      <3>12. nx[a] = q /\ nx[a] # 0 /\ ny[a] = nx[nx[a]]
        <4>1. nx[a] = q
          BY <1>3, <2>3, <3>9, <3>10, <3>11
        <4> QED BY <3>10, <3>11, <4>1
      <3>13. SkipsSuccessor(ny, nx, a, M)
        BY <3>10, <3>12 DEF SkipsSuccessor
      <3>14. g[h] = f[h] \ {nx[a]}
        BY <3>7, <3>8, <3>13, ChainLoses
      <3>15. Linked(k)' = g[h] /\ Linked(k) = f[h]
        BY <1>5, <2>1, <2>3, <3>1, <3>2, <3>6 DEF Linked
      <3> QED BY <3>12, <3>14, <3>15
    <2> QED BY <2>2, <2>3
  <1>12. ChainsWellFormed'
    <2> SUFFICES ASSUME NEW k \in Keys, NEW n \in Linked(k)'
                 PROVE  nodes'[n].key = k /\ n \notin pool'
      BY DEF ChainsWellFormed
    <2>1. n \in Linked(k) /\ n # q
      BY <1>10, <1>11
    <2>2. n \in 1 .. N
      BY <1>1, <2>1 DEF LinkedIn
    <2> QED BY <1>5, <2>1, <2>2 DEF ChainsWellFormed
  <1> QED BY <1>7, <1>10, <1>11, <1>12

LEMMA KeyDoneKeepsChains ==
  ASSUME Linking, ChainsWellFormed, GCInv, GCKeyDone, totalKeys' \in Nat
  PROVE  /\ Linking' /\ ChainsWellFormed'
         /\ gc.key \in Keys /\ entries[gc.key] # 0
         /\ \A k \in Keys : entries'[k] = IF k = gc.key /\ heads[entries[k]] = 0
                                          THEN 0 ELSE entries[k]
         /\ \A k \in Keys : Linked(k)' = Linked(k)
  <1>1. StoreTyped /\ Acyclic /\ OwnChain /\ \A k \in Keys : LinkedIn(k)
    BY LinkingMakesLinked DEF Linking
  <1>2. entries \in [Keys -> ChainIds] /\ 0 \in ChainIds
    BY <1>1, StoreTypedFacts DEF StoreTyped
  <1>3. gc.key \in Keys /\ entries[gc.key] # 0
    BY DEF GCInv, GCKeyDone
  <1>4. UNCHANGED <<nodes, heads, totalVersions, pool>>
    BY DEF GCKeyDone
  <1>5. /\ entries' \in [Keys -> ChainIds]
        /\ \A k \in Keys : entries'[k] = IF k = gc.key /\ heads[entries[k]] = 0
                                         THEN 0 ELSE entries[k]
    <2>1. CASE heads[entries[gc.key]] = 0
      <3>1. entries' = [entries EXCEPT ![gc.key] = 0]
        BY <2>1 DEF GCKeyDone
      <3> QED BY <1>2, <2>1, <3>1
    <2>2. CASE heads[entries[gc.key]] # 0
      <3>1. entries' = entries
        BY <2>2 DEF GCKeyDone
      <3> QED BY <1>2, <2>2, <3>1
    <2> QED BY <2>1, <2>2
  <1>6. StoreTyped'
    <2>1. NodeIds' = NodeIds /\ ChainIds' = ChainIds /\ NodeRec' = NodeRec
      BY <1>4 DEF NodeIds, ChainIds, NodeRec
    <2> QED BY <1>1, <1>4, <1>5, <2>1 DEF StoreTyped
  <1>7. Acyclic'
    BY <1>1, <1>4 DEF Acyclic, NodeIds
  <1>8. OwnChain'
    BY <1>1, <1>5 DEF OwnChain
  <1>9. ASSUME NEW k \in Keys
        PROVE  Linked(k)' = Linked(k)
    <2>1. Below' = Below
      BY <1>4 DEF Below, NodeIds
    <2>2. CASE k = gc.key /\ heads[entries[k]] = 0
      <3>1. entries'[k] = 0
        BY <1>5, <2>2
      <3>2. Linked(k)' = {}
        BY <3>1 DEF Linked
      <3>3. Linked(k) = {}
        BY <1>1, <1>3, <2>2 DEF LinkedIn
      <3> QED BY <3>2, <3>3
    <2>3. CASE ~ (k = gc.key /\ heads[entries[k]] = 0)
      <3>1. entries'[k] = entries[k]
        BY <1>5, <2>3
      <3>2. heads'[entries'[k]] = heads[entries[k]]
        BY <1>4, <3>1
      <3>3. Linked(k)' = IF entries'[k] = 0 THEN {} ELSE Below'[heads'[entries'[k]]]
        BY DEF Linked
      <3> QED BY <2>1, <3>1, <3>2, <3>3 DEF Linked
    <2> QED BY <2>2, <2>3
  <1>10. ChainsWellFormed'
    BY <1>4, <1>9 DEF ChainsWellFormed
  <1> QED BY <1>3, <1>5, <1>6, <1>7, <1>8, <1>9, <1>10 DEF Linking

--------------------------------------------------------------------------------
(* The invariant with a MemoryPool, step by step *)

LEMMA ChainParts ==
  ChainInv <=> Linking /\ ChainsWellFormed /\ ActorTypes /\ CountInv /\ GCInv /\ HoldsChain
  <1>1. TypeOK <=> StoreTyped /\ ActorTypes
    BY Zenon DEF TypeOK, StoreTyped, ActorTypes, TxType, ReaderType, GCType,
                 NodeRec, TxRec, ReaderRec, GCRec
  <1> QED BY <1>1, Zenon DEF ChainInv, Linking

\* Everything that a proof about a step may start from.
LEMMA BeforeStep ==
  ASSUME ChainInv
  PROVE  /\ Linking /\ StoreTyped /\ ChainsWellFormed /\ CountInv /\ GCInv /\ HoldsChain
         /\ \A k \in Keys : LinkedIn(k)
         /\ Len(nodes) \in Nat /\ NodeIds = 0 .. Len(nodes) /\ ChainIds = 0 .. Len(heads)
         /\ 0 \in NodeIds /\ 0 \in ChainIds
         /\ entries \in [Keys -> ChainIds]
         /\ \A c \in 1 .. Len(heads) : heads[c] \in NodeIds
         /\ nodes \in [1 .. Len(nodes) -> NodeRec]
         /\ \A n \in 1 .. Len(nodes) : nodes[n].next \in NodeIds
         /\ tx \in [Txs -> TxRec] /\ reader \in [Readers -> ReaderRec] /\ gc \in GCRec
  <1>1. Linking /\ ChainsWellFormed /\ ActorTypes /\ CountInv /\ GCInv /\ HoldsChain
    BY ChainParts
  <1>2. StoreTyped /\ entries \in [Keys -> ChainIds]
    BY <1>1 DEF Linking, StoreTyped
  <1>3. \A k \in Keys : LinkedIn(k)
    BY <1>1, LinkingMakesLinked
  <1>4. /\ Len(nodes) \in Nat /\ Len(heads) \in Nat
        /\ NodeIds = 0 .. Len(nodes) /\ ChainIds = 0 .. Len(heads)
        /\ heads \in [1 .. Len(heads) -> NodeIds]
        /\ nodes \in [1 .. Len(nodes) -> NodeRec]
        /\ \A n \in 1 .. Len(nodes) : nodes[n].next \in NodeIds
    BY <1>2, StoreTypedFacts
  <1>5. tx \in [Txs -> TxRec] /\ reader \in [Readers -> ReaderRec] /\ gc \in GCRec
    BY <1>1 DEF ActorTypes, TxType, ReaderType, GCType
  <1>6. 0 \in NodeIds /\ 0 \in ChainIds /\ \A c \in 1 .. Len(heads) : heads[c] \in NodeIds
    BY <1>4
  <1> QED BY <1>1, <1>2, <1>3, <1>4, <1>5, <1>6

\* A step that leaves the store alone.
LEMMA StoreAlone ==
  ASSUME ChainInv, UNCHANGED store, tx' \in [Txs -> TxRec], reader' \in [Readers -> ReaderRec],
         gc' \in GCRec, gc'.freed = gc.freed, gc' = gc \/ GCInv', HoldsChain'
  PROVE  ChainInv'
  <1>1. /\ Linking /\ StoreTyped /\ ChainsWellFormed /\ CountInv /\ GCInv
    BY BeforeStep
  <1>2. /\ nodes' = nodes /\ heads' = heads /\ entries' = entries
        /\ totalKeys' = totalKeys /\ totalVersions' = totalVersions /\ pool' = pool
    BY DEF store
  <1>3. \A k \in Keys : Linked(k)' = Linked(k)
    BY <1>2 DEF Linked, Below, NodeIds
  <1>4. StoreTyped'
    BY <1>1, <1>2 DEF StoreTyped, NodeRec, NodeIds, ChainIds
  <1>5. Linking'
    BY <1>1, <1>2, <1>4 DEF Linking, Acyclic, OwnChain, NodeIds
  <1>6. ChainsWellFormed'
    BY <1>1, <1>2, <1>3 DEF ChainsWellFormed
  <1>7. CountInv'
    BY <1>1, <1>2, <1>3, CountStays
  <1>8. GCInv'
    BY <1>1, <1>3, GCStays
  <1>9. ActorTypes'
    BY TypesStay DEF ActorTypes, TxType, ReaderType, GCType
  <1> QED BY <1>5, <1>6, <1>7, <1>8, <1>9, ChainParts, PTL

\* One in which transaction t moves to record T, or reader r to R.
LEMMA TxMovesOn ==
  ASSUME ChainInv, NEW t \in Txs, NEW T \in TxRec, T.pc = "head" => T.chain # 0,
         UNCHANGED <<store, reader, gc>>, tx' = [tx EXCEPT ![t] = T]
  PROVE  ChainInv'
  <1>1. /\ tx \in [Txs -> TxRec] /\ reader \in [Readers -> ReaderRec] /\ gc \in GCRec
        /\ HoldsChain
    BY BeforeStep
  <1>2. tx' \in [Txs -> TxRec]
    BY <1>1
  <1>3. HoldsChain'
    <2>1. ASSUME NEW u \in Txs, tx'[u].pc = "head"
          PROVE  tx'[u].chain # 0
      BY <1>1, <2>1 DEF HoldsChain
    <2> QED BY <1>1, <2>1 DEF HoldsChain
  <1> QED BY <1>1, <1>2, <1>3, StoreAlone

LEMMA ReaderMovesOn ==
  ASSUME ChainInv, NEW r \in Readers, NEW R \in ReaderRec, R.pc = "head" => R.chain # 0,
         R.pc # "idle" => R.key \in Keys,
         UNCHANGED <<store, tx, gc>>, reader' = [reader EXCEPT ![r] = R]
  PROVE  ChainInv'
  <1>1. /\ tx \in [Txs -> TxRec] /\ reader \in [Readers -> ReaderRec] /\ gc \in GCRec
        /\ HoldsChain
    BY BeforeStep
  <1>2. reader' \in [Readers -> ReaderRec]
    BY <1>1
  <1>3. HoldsChain'
    <2>1. ASSUME NEW s \in Readers
          PROVE  /\ reader'[s].pc # "idle" => reader'[s].key \in Keys
                 /\ reader'[s].pc = "head" => reader'[s].chain # 0
      <3>1. CASE s = r
        BY <1>1, <3>1
      <3>2. CASE s # r
        BY <1>1, <3>2 DEF HoldsChain
      <3> QED BY <3>1, <3>2
    <2> QED BY <1>1, <2>1 DEF HoldsChain
  <1> QED BY <1>1, <1>2, <1>3, StoreAlone

LEMMA TxStepsAlone ==
  ASSUME ChainInv, NEW t \in Txs,
         \/ Reexecute(t) \/ Commit(t) \/ (\E k \in Keys : CommitLookup(t, k))
         \/ CommitHead(t) \/ MarkNext(t) \/ MarkNothing(t) \/ CommitReturn(t)
  PROVE  ChainInv'
  <1>1. /\ tx \in [Txs -> TxRec] /\ HoldsChain
        /\ entries \in [Keys -> ChainIds] /\ NodeIds = 0 .. Len(nodes)
        /\ ChainIds = 0 .. Len(heads) /\ 0 \in NodeIds /\ 0 \in ChainIds
        /\ \A c \in 1 .. Len(heads) : heads[c] \in NodeIds
        /\ \A n \in 1 .. Len(nodes) : nodes[n].next \in NodeIds
    BY BeforeStep
  <1>2. PICK Q \in TxRec : Q = tx[t]
    BY <1>1
  <1>3. Q.pc = "head" => Q.chain # 0
    BY <1>1, <1>2 DEF HoldsChain
  <1>4. CASE Reexecute(t)
    <2>1. PICK T : T = [Q EXCEPT !.inc = Q.inc + 1, !.writes = {}]
      OBVIOUS
    <2>a. Q.inc + 1 \in Nat
      BY DEF TxRec
    <2>2. T \in TxRec /\ T.pc = Q.pc
      BY <2>1, <2>a DEF TxRec
    <2>3. Q.pc = "execute" /\ tx' = [tx EXCEPT ![t] = T] /\ UNCHANGED <<store, reader, gc>>
      BY <1>1, <1>2, <1>4, <2>1 DEF Reexecute
    <2> QED BY <2>2, <2>3, TxMovesOn
  <1>5. CASE Commit(t)
    <2>1. PICK T : T = [Q EXCEPT !.pc = "commit", !.left = Q.writes]
      OBVIOUS
    <2>2. T \in TxRec /\ T.pc = "commit"
      BY <2>1 DEF TxRec
    <2>3. tx' = [tx EXCEPT ![t] = T] /\ UNCHANGED <<store, reader, gc>>
      BY <1>1, <1>2, <1>5, <2>1 DEF Commit
    <2> QED BY <2>2, <2>3, TxMovesOn
  <1>6. ASSUME NEW k \in Keys, CommitLookup(t, k)
        PROVE  ChainInv'
    <2>1. CASE entries[k] = 0
      <3>1. PICK T : T = [Q EXCEPT !.left = Q.left \ {k}]
        OBVIOUS
      <3>2. T \in TxRec /\ T.pc = Q.pc
        BY <3>1 DEF TxRec
      <3>3. Q.pc = "commit" /\ tx' = [tx EXCEPT ![t] = T] /\ UNCHANGED <<store, reader, gc>>
        BY <1>1, <1>2, <1>6, <2>1, <3>1 DEF CommitLookup
      <3> QED BY <3>2, <3>3, TxMovesOn
    <2>2. CASE entries[k] # 0
      <3>1. PICK T : T = [Q EXCEPT !.pc = "head", !.key = k, !.chain = entries[k]]
        OBVIOUS
      <3>2. T \in TxRec /\ T.chain = entries[k]
        BY <1>1, <3>1 DEF TxRec
      <3>3. tx' = [tx EXCEPT ![t] = T] /\ UNCHANGED <<store, reader, gc>>
        BY <1>1, <1>2, <1>6, <2>2, <3>1 DEF CommitLookup
      <3> QED BY <2>2, <3>2, <3>3, TxMovesOn
    <2> QED BY <2>1, <2>2
  <1>7. CASE CommitHead(t)
    <2>1. PICK h : h = heads[Q.chain]
      OBVIOUS
    <2>2. PICK T : T = [Q EXCEPT !.pc = "mark", !.node = h]
      OBVIOUS
    <2>3. Q.pc = "head" /\ tx' = [tx EXCEPT ![t] = T] /\ UNCHANGED <<store, reader, gc>>
      BY <1>1, <1>2, <1>7, <2>1, <2>2 DEF CommitHead
    <2>4. h \in NodeIds
      BY <1>1, <1>3, <2>1, <2>3 DEF TxRec
    <2>5. T \in TxRec /\ T.pc = "mark"
      BY <2>2, <2>4 DEF TxRec
    <2> QED BY <2>3, <2>5, TxMovesOn
  <1>8. CASE MarkNext(t)
    <2>1. PICK h : h = nodes[Q.node].next
      OBVIOUS
    <2>2. PICK T : T = [Q EXCEPT !.node = h]
      OBVIOUS
    <2>3. /\ Q.pc = "mark" /\ Q.node # 0 /\ tx' = [tx EXCEPT ![t] = T]
          /\ UNCHANGED <<store, reader, gc>>
      BY <1>1, <1>2, <1>8, <2>1, <2>2 DEF MarkNext
    <2>4. h \in NodeIds
      BY <1>1, <2>1, <2>3 DEF TxRec
    <2>5. T \in TxRec /\ T.pc = Q.pc
      BY <2>2, <2>4 DEF TxRec
    <2> QED BY <2>3, <2>5, TxMovesOn
  <1>9. CASE MarkNothing(t)
    <2>1. PICK L : L = Q.left \ {Q.key}
      OBVIOUS
    <2>2. PICK T : T = [Q EXCEPT !.pc = "commit", !.left = L, !.key = NoKey,
                                 !.chain = 0, !.node = 0]
      OBVIOUS
    <2>3. tx' = [tx EXCEPT ![t] = T] /\ UNCHANGED <<store, reader, gc>>
      BY <1>1, <1>2, <1>9, <2>1, <2>2 DEF MarkNothing, Marked
    <2>4. L \in SUBSET Keys
      BY <2>1 DEF TxRec
    <2>5. T \in TxRec /\ T.pc = "commit"
      BY <1>1, <2>2, <2>4 DEF TxRec
    <2> QED BY <2>3, <2>5, TxMovesOn
  <1>10. CASE CommitReturn(t)
    <2>1. PICK T : T = [Q EXCEPT !.pc = "committed"]
      OBVIOUS
    <2>2. T \in TxRec /\ T.pc = "committed"
      BY <2>1 DEF TxRec
    <2>3. tx' = [tx EXCEPT ![t] = T] /\ UNCHANGED <<store, reader, gc>>
      BY <1>1, <1>2, <1>10, <2>1 DEF CommitReturn
    <2> QED BY <2>2, <2>3, TxMovesOn
  <1> QED BY <1>4, <1>5, <1>6, <1>7, <1>8, <1>9, <1>10

\* A Read ends with a result of the right type.
LEMMA ReturnsOn ==
  ASSUME ChainInv, NEW r \in Readers, NEW v \in ResultType, Return(r, v),
         reader[r].pc # "idle", UNCHANGED <<store, tx, gc>>
  PROVE  ChainInv'
  <1>1. reader \in [Readers -> ReaderRec] /\ HoldsChain
    BY BeforeStep
  <1>2. PICK Q \in ReaderRec : Q = reader[r]
    BY <1>1
  <1>3. Q.key \in Keys /\ Q.phase \in {1, 2}
    BY <1>1, <1>2 DEF HoldsChain, ReaderRec
  <1>4. CASE Q.phase = 1
    <2>1. PICK R : R = [Q EXCEPT !.pc = "read", !.first = v]
      OBVIOUS
    <2>2. reader' = [reader EXCEPT ![r] = R]
      BY <1>1, <1>2, <1>4, <2>1 DEF Return
    <2>3. R \in ReaderRec /\ R.pc = "read" /\ R.key = Q.key
      BY <2>1 DEF ReaderRec
    <2> QED BY <1>3, <2>2, <2>3, ReaderMovesOn
  <1>5. CASE Q.phase = 2
    <2>1. PICK b : b = IsReadValid(Q.first, v)
      OBVIOUS
    <2>2. b \in BOOLEAN
      BY <2>1, Zenon DEF IsReadValid
    <2>3. PICK R : R = [Q EXCEPT !.pc = "validated", !.second = v, !.valid = b]
      OBVIOUS
    <2>4. reader' = [reader EXCEPT ![r] = R]
      <3>1. Q.phase # 1
        BY <1>5
      <3>2. reader' = [reader EXCEPT ![r].pc = "validated", ![r].second = v,
                                     ![r].valid = IsReadValid(reader[r].first, v)]
        BY <1>2, <3>1, Zenon DEF Return
      <3>3. reader' = [reader EXCEPT ![r].pc = "validated", ![r].second = v, ![r].valid = b]
        BY <1>2, <2>1, <3>2, Zenon
      <3> QED BY <1>1, <1>2, <2>3, <3>3
    <2>5. R \in ReaderRec /\ R.pc = "validated" /\ R.key = Q.key
      BY <2>2, <2>3 DEF ReaderRec
    <2> QED BY <1>3, <2>4, <2>5, ReaderMovesOn
  <1> QED BY <1>3, <1>4, <1>5

LEMMA ReaderStepsAlone ==
  ASSUME ChainInv, NEW r \in Readers,
         \/ (\E k \in Keys, a \in ReadAt : Read(r, k, a)) \/ Validate(r) \/ Finish(r)
         \/ ReadStep(r)
  PROVE  ChainInv'
  <1>1. /\ reader \in [Readers -> ReaderRec] /\ HoldsChain
        /\ entries \in [Keys -> ChainIds] /\ NodeIds = 0 .. Len(nodes)
        /\ ChainIds = 0 .. Len(heads) /\ 0 \in NodeIds /\ 0 \in ChainIds
        /\ \A c \in 1 .. Len(heads) : heads[c] \in NodeIds
        /\ nodes \in [1 .. Len(nodes) -> NodeRec]
        /\ \A n \in 1 .. Len(nodes) : nodes[n].next \in NodeIds
    BY BeforeStep
  <1>2. PICK Q \in ReaderRec : Q = reader[r]
    BY <1>1
  <1>3. /\ Q.pc = "head" => Q.chain # 0
        /\ Q.pc # "idle" => Q.key \in Keys
    BY <1>1, <1>2 DEF HoldsChain
  <1>4. NotFound \in ResultType
    BY DEF NotFound, ResultType
  <1>5. IdleReader \in ReaderRec /\ IdleReader.pc = "idle"
    BY <1>1, <1>4 DEF IdleReader, ReaderRec
  <1>6. ASSUME NEW k \in Keys, NEW a \in ReadAt, Read(r, k, a)
        PROVE  ChainInv'
    <2>1. PICK R : R = [IdleReader EXCEPT !.pc = "lookup", !.key = k, !.at = a]
      OBVIOUS
    <2>2. R \in ReaderRec /\ R.pc = "lookup" /\ R.key = k
      BY <1>5, <2>1 DEF ReaderRec
    <2>3. reader' = [reader EXCEPT ![r] = R] /\ UNCHANGED <<store, tx, gc>>
      BY <1>6, <2>1 DEF Read
    <2> QED BY <2>2, <2>3, ReaderMovesOn
  <1>7. CASE Validate(r)
    <2>1. PICK R : R = [Q EXCEPT !.pc = "lookup", !.phase = 2, !.chain = 0, !.start = 0,
                                 !.node = 0]
      OBVIOUS
    <2>2. R \in ReaderRec /\ R.pc = "lookup" /\ R.key = Q.key
      BY <1>1, <2>1 DEF ReaderRec
    <2>3. Q.pc = "read" /\ reader' = [reader EXCEPT ![r] = R] /\ UNCHANGED <<store, tx, gc>>
      BY <1>1, <1>2, <1>7, <2>1 DEF Validate
    <2> QED BY <1>3, <2>2, <2>3, ReaderMovesOn
  <1>8. CASE Finish(r)
    <2>1. PICK R \in ReaderRec : R = IdleReader
      BY <1>5
    <2>2. reader' = [reader EXCEPT ![r] = R] /\ UNCHANGED <<store, tx, gc>>
      BY <1>8, <2>1 DEF Finish
    <2> QED BY <1>5, <2>1, <2>2, ReaderMovesOn
  <1>9. CASE ReadLookup(r)
    <2>1. Q.pc = "lookup" /\ UNCHANGED <<store, tx, gc>>
      BY <1>2, <1>9 DEF ReadLookup
    <2>2. CASE entries[Q.key] = 0
      <3>1. Return(r, NotFound)
        BY <1>2, <1>9, <2>2 DEF ReadLookup
      <3> QED BY <1>2, <1>4, <2>1, <3>1, ReturnsOn
    <2>3. CASE entries[Q.key] # 0
      <3>1. PICK R : R = [Q EXCEPT !.pc = "head", !.chain = entries[Q.key]]
        OBVIOUS
      <3>2. R \in ReaderRec /\ R.chain = entries[Q.key] /\ R.key = Q.key
        BY <1>1, <1>3, <2>1, <3>1 DEF ReaderRec
      <3>3. reader' = [reader EXCEPT ![r] = R]
        BY <1>1, <1>2, <1>9, <2>3, <3>1 DEF ReadLookup
      <3> QED BY <1>3, <2>1, <2>3, <3>2, <3>3, ReaderMovesOn
    <2> QED BY <2>2, <2>3
  <1>10. CASE ReadHead(r)
    <2>1. PICK h : h = heads[Q.chain]
      OBVIOUS
    <2>2. PICK R : R = [Q EXCEPT !.pc = "visit", !.start = h, !.node = h]
      OBVIOUS
    <2>3. Q.pc = "head" /\ reader' = [reader EXCEPT ![r] = R] /\ UNCHANGED <<store, tx, gc>>
      BY <1>1, <1>2, <1>10, <2>1, <2>2 DEF ReadHead
    <2>4. h \in NodeIds
      BY <1>1, <1>3, <2>1, <2>3 DEF ReaderRec
    <2>5. R \in ReaderRec /\ R.pc = "visit" /\ R.key = Q.key
      BY <2>2, <2>4 DEF ReaderRec
    <2> QED BY <1>3, <2>3, <2>5, ReaderMovesOn
  <1>11. CASE FindVersion(r)
    <2>1. PICK n : n = Q.node
      OBVIOUS
    <2>2. /\ Q.pc = "visit" /\ n # 0 /\ Return(r, Result(n)) /\ UNCHANGED <<store, tx, gc>>
      BY <1>2, <1>11, <2>1 DEF FindVersion
    <2>3. n \in 1 .. Len(nodes)
      BY <1>1, <2>1, <2>2 DEF ReaderRec
    <2>4. Result(n) \in ResultType
      <3>1. nodes[n] \in NodeRec
        BY <1>1, <2>3
      <3>2. nodes[n].key \in Keys /\ nodes[n].tx \in Nat /\ nodes[n].inc \in Nat
        BY <3>1, TxsAssumption DEF NodeRec
      <3> QED BY <3>2 DEF Result, ResultType
    <2> QED BY <1>2, <2>2, <2>4, ReturnsOn
  <1>12. CASE FindNext(r)
    <2>1. PICK h : h = nodes[Q.node].next
      OBVIOUS
    <2>2. PICK R : R = [Q EXCEPT !.node = h]
      OBVIOUS
    <2>3. /\ Q.pc = "visit" /\ Q.node # 0 /\ reader' = [reader EXCEPT ![r] = R]
          /\ UNCHANGED <<store, tx, gc>>
      BY <1>1, <1>2, <1>12, <2>1, <2>2 DEF FindNext
    <2>4. h \in NodeIds
      BY <1>1, <2>1, <2>3 DEF ReaderRec
    <2>5. R \in ReaderRec /\ R.pc = Q.pc /\ R.key = Q.key
      BY <2>2, <2>4 DEF ReaderRec
    <2> QED BY <1>3, <2>3, <2>5, ReaderMovesOn
  <1>13. CASE FindNothing(r)
    <2>1. Q.pc = "visit" /\ Return(r, NotFound) /\ UNCHANGED <<store, tx, gc>>
      BY <1>2, <1>13 DEF FindNothing
    <2> QED BY <1>2, <1>4, <2>1, ReturnsOn
  <1> QED BY <1>6, <1>7, <1>8, <1>9, <1>10, <1>11, <1>12, <1>13 DEF ReadStep

\* Where GC moves and the store stays.
LEMMA GCMovesOn ==
  ASSUME ChainInv, UNCHANGED <<store, tx, reader>>, gc' \in GCRec, gc'.freed = gc.freed, GCInv'
  PROVE  ChainInv'
  <1>1. tx \in [Txs -> TxRec] /\ reader \in [Readers -> ReaderRec] /\ HoldsChain
    BY BeforeStep
  <1>2. HoldsChain'
    BY <1>1 DEF HoldsChain
  <1> QED BY <1>1, <1>2, StoreAlone

LEMMA GCStepsAlone ==
  ASSUME ChainInv,
         \/ (\E b \in GCBefore : GC(b)) \/ GCLock \/ (\E k \in Keys : GCKey(k))
         \/ GCKeep \/ GCUnlock
  PROVE  ChainInv'
  <1>1. /\ gc \in GCRec /\ GCInv /\ Linking /\ NodeIds = 0 .. Len(nodes)
        /\ 0 \in NodeIds /\ entries \in [Keys -> ChainIds] /\ ChainIds = 0 .. Len(heads)
        /\ \A c \in 1 .. Len(heads) : heads[c] \in NodeIds
        /\ \A n \in 1 .. Len(nodes) : nodes[n].next \in NodeIds
        /\ \A k \in Keys : LinkedIn(k)
    BY BeforeStep
  <1>2. ASSUME NEW b \in GCBefore, GC(b)
        PROVE  ChainInv'
    <2>1. /\ gc.pc = "idle" /\ gc' = [IdleGC EXCEPT !.pc = "bucket", !.before = b]
          /\ UNCHANGED <<store, tx, reader>>
      BY <1>2 DEF GC
    <2>2. gc' \in GCRec
      <3>1. 0 \in 0 .. NumBuckets /\ 0 \in Nat
        BY BucketAssumption
      <3> QED BY <1>1, <2>1, <3>1 DEF IdleGC, GCRec
    <2>3. gc'.freed = 0 /\ gc.freed = 0 /\ gc'.pc = "bucket"
      BY <1>1, <2>1 DEF GCInv, IdleGC
    <2>4. GCInv'
      BY <2>3 DEF GCInv
    <2> QED BY <2>1, <2>2, <2>3, <2>4, GCMovesOn
  <1>3. CASE GCLock
    <2>1. PICK K : K = {k \in Keys : Bucket[k] = gc.bucket /\ entries[k] # 0}
      OBVIOUS
    <2>2. /\ gc.bucket < NumBuckets /\ gc' = [gc EXCEPT !.pc = "keys", !.keys = K]
          /\ UNCHANGED <<store, tx, reader>>
      BY <1>3, <2>1 DEF GCLock
    <2>3. gc' \in GCRec
      BY <1>1, <2>1, <2>2 DEF GCRec
    <2>4. gc'.freed = gc.freed /\ gc'.pc = "keys" /\ gc'.keys = K /\ gc'.bucket = gc.bucket
      BY <1>1, <2>2 DEF GCRec
    <2>5. GCInv'
      BY <2>1, <2>2, <2>4 DEF GCInv, store
    <2> QED BY <2>2, <2>3, <2>4, <2>5, GCMovesOn
  <1>4. ASSUME NEW k \in Keys, GCKey(k)
        PROVE  ChainInv'
    <2>1. PICK h : h = heads[entries[k]]
      OBVIOUS
    <2>2. PICK K : K = gc.keys \ {k}
      OBVIOUS
    <2>3. /\ gc.pc = "keys" /\ k \in gc.keys
          /\ gc' = [gc EXCEPT !.pc = "visit", !.keys = K, !.key = k, !.prev = 0, !.node = h]
          /\ UNCHANGED <<store, tx, reader>>
      BY <1>4, <2>1, <2>2 DEF GCKey
    <2>4. /\ gc.bucket < NumBuckets
          /\ \A l \in gc.keys : Bucket[l] = gc.bucket /\ entries[l] # 0
      BY <1>1, <2>3 DEF GCInv
    <2>5. h \in NodeIds
      BY <1>1, <2>1, <2>3, <2>4
    <2>6. gc' \in GCRec
      BY <1>1, <2>2, <2>3, <2>5 DEF GCRec
    <2>7. /\ gc'.freed = gc.freed /\ gc'.pc = "visit" /\ gc'.keys = K /\ gc'.bucket = gc.bucket
          /\ gc'.key = k /\ gc'.prev = 0 /\ gc'.node = h
      BY <1>1, <2>3 DEF GCRec
    <2>8. GCInv'
      BY <2>1, <2>2, <2>3, <2>4, <2>7 DEF GCInv, store
    <2> QED BY <2>3, <2>6, <2>7, <2>8, GCMovesOn
  <1>5. CASE GCKeep
    <2>1. PICK h : h = nodes[gc.node].next
      OBVIOUS
    <2>2. /\ gc.pc = "visit" /\ gc.node # 0
          /\ gc' = [gc EXCEPT !.prev = gc.node, !.node = h]
          /\ UNCHANGED <<store, tx, reader>>
      BY <1>5, <2>1 DEF GCKeep
    <2>3. gc.key \in Keys /\ gc.node \in Linked(gc.key)
      BY <1>1, <2>2, GCStandsIn
    <2>4. gc.node \in 1 .. Len(nodes)
      BY <1>1, <2>3 DEF LinkedIn
    <2>5. gc' \in GCRec
      BY <1>1, <2>1, <2>2, <2>4 DEF GCRec
    <2>6. /\ gc'.freed = gc.freed /\ gc'.pc = "visit" /\ gc'.keys = gc.keys
          /\ gc'.bucket = gc.bucket /\ gc'.key = gc.key /\ gc'.prev = gc.node /\ gc'.node = h
      BY <1>1, <2>2 DEF GCRec
    <2>7. nodes' = nodes /\ heads' = heads /\ entries' = entries
      BY <2>2 DEF store
    <2>8. Linked(gc.key)' = Linked(gc.key)
      BY <2>6, <2>7 DEF Linked, Below, NodeIds
    <2>9. GCInv'
      BY <1>1, <2>1, <2>2, <2>3, <2>6, <2>7, <2>8 DEF GCInv
    <2> QED BY <2>2, <2>5, <2>6, <2>9, GCMovesOn
  <1>6. CASE GCUnlock
    <2>1. /\ gc.pc = "keys" /\ gc' = [gc EXCEPT !.pc = "bucket", !.bucket = gc.bucket + 1]
          /\ UNCHANGED <<store, tx, reader>>
      BY <1>6 DEF GCUnlock
    <2>2. gc.bucket + 1 \in 0 .. NumBuckets
      <3>1. gc.bucket < NumBuckets /\ gc.bucket \in 0 .. NumBuckets
        BY <1>1, <2>1 DEF GCInv, GCRec
      <3> QED BY <3>1, BucketAssumption
    <2>3. gc' \in GCRec
      BY <1>1, <2>1, <2>2 DEF GCRec
    <2>4. gc'.freed = gc.freed /\ gc'.pc = "bucket"
      BY <1>1, <2>1 DEF GCRec
    <2>5. GCInv'
      BY <2>4 DEF GCInv
    <2> QED BY <2>1, <2>3, <2>4, <2>5, GCMovesOn
  <1> QED BY <1>2, <1>3, <1>4, <1>5, <1>6

\* Where the store grows, or stays as large, every record keeps its type.
LEMMA RecordsGrow ==
  ASSUME Len(nodes) \in Nat, Len(nodes') \in Nat, Len(nodes) <= Len(nodes'),
         Len(heads) \in Nat, Len(heads') \in Nat, Len(heads) <= Len(heads')
  PROVE  TxRec \subseteq TxRec' /\ ReaderRec \subseteq ReaderRec' /\ GCRec \subseteq GCRec'
  <1>1. NodeIds \subseteq NodeIds' /\ ChainIds \subseteq ChainIds'
    BY DEF NodeIds, ChainIds
  <1>2. TxRec \subseteq TxRec'
    BY <1>1 DEF TxRec
  <1>3. ReaderRec \subseteq ReaderRec'
    BY <1>1 DEF ReaderRec
  <1>4. GCRec \subseteq GCRec'
    BY <1>1 DEF GCRec
  <1> QED BY <1>2, <1>3, <1>4

LEMMA LinkedFinite ==
  ASSUME ChainInv
  PROVE  /\ IsFiniteSet(UNION {Linked(k) : k \in Keys})
         /\ UNION {Linked(k) : k \in Keys} \subseteq 1 .. Len(nodes)
  <1>1. Len(nodes) \in Nat /\ \A k \in Keys : LinkedIn(k)
    BY BeforeStep
  <1>2. UNION {Linked(k) : k \in Keys} \subseteq 1 .. Len(nodes)
    BY <1>1 DEF LinkedIn
  <1>3. IsFiniteSet(1 .. Len(nodes))
    BY <1>1, FS_Interval
  <1> QED BY <1>2, <1>3, FS_Subset

LEMMA WriteOn ==
  ASSUME ChainInv, NEW t \in Txs, NEW k \in Keys, Write(t, k)
  PROVE  ChainInv'
  <1> DEFINE N == Len(nodes)
  <1>1. /\ Linking /\ StoreTyped /\ ChainsWellFormed /\ CountInv /\ GCInv /\ HoldsChain
        /\ \A l \in Keys : LinkedIn(l)
        /\ N \in Nat /\ ChainIds = 0 .. Len(heads) /\ entries \in [Keys -> ChainIds]
        /\ tx \in [Txs -> TxRec] /\ reader \in [Readers -> ReaderRec] /\ gc \in GCRec
    BY BeforeStep
  <1>2. PICK Q \in TxRec : Q = tx[t]
    BY <1>1
  <1>3. Q.inc \in Nat
    BY DEF TxRec
  <1>4. StoreTyped' /\ \E m \in NewNodes : WroteTo(m, k)
    BY <1>1, <1>2, <1>3, WriteToEffect
  <1>5. PICK n : WroteTo(n, k)
    BY <1>4
  <1>6. /\ Linking' /\ ChainsWellFormed'
        /\ \A l \in Keys : n \notin Linked(l)
        /\ \A l \in Keys : Linked(l)' = IF l = k THEN Linked(l) \cup {n} ELSE Linked(l)
    BY <1>1, <1>4, <1>5, WriteToChains
  <1>7. Q.pc = "execute" /\ reader' = reader /\ gc' = gc
    BY <1>2 DEF Write
  <1>8. PICK T : T = [Q EXCEPT !.writes = Q.writes \cup {k}]
    OBVIOUS
  <1>9. tx' = [tx EXCEPT ![t] = T]
    BY <1>1, <1>2, <1>8 DEF Write
  <1>10. T \in TxRec /\ T.pc = "execute"
    BY <1>7, <1>8 DEF TxRec
  <1>11. ActorTypes'
    <2>1. TxRec \subseteq TxRec' /\ ReaderRec \subseteq ReaderRec' /\ GCRec \subseteq GCRec'
      BY <1>1, <1>5, RecordsGrow DEF WroteTo
    <2>2. tx' \in [Txs -> TxRec]
      BY <1>1, <1>9, <1>10
    <2> QED BY <1>1, <1>7, <2>1, <2>2 DEF ActorTypes, TxType, ReaderType, GCType
  <1>12. HoldsChain'
    <2>1. ASSUME NEW u \in Txs, tx'[u].pc = "head"
          PROVE  tx'[u].chain # 0
      BY <1>1, <1>9, <1>10, <2>1 DEF HoldsChain
    <2> QED BY <1>1, <1>7, <2>1 DEF HoldsChain
  <1>13. CountInv'
    <2>1. PICK K : K = {l \in Keys : entries[l] # 0}
      OBVIOUS
    <2>2. {l \in Keys : entries'[l] # 0} = K \cup {k}
      <3>1. entries'[k] # 0 /\ \A l \in Keys : l # k => entries'[l] = entries[l]
        BY <1>5 DEF WroteTo
      <3> QED BY <2>1, <3>1
    <2>3. IsFiniteSet(K) /\ totalKeys = Cardinality(K)
      BY <1>1, <2>1 DEF CountInv, AccountsBalance
    <2>4. IsFiniteSet(K \cup {k}) /\ totalKeys' = Cardinality(K \cup {k})
      <3>1. totalKeys' = totalKeys + (IF entries[k] = 0 THEN 1 ELSE 0)
        BY DEF Write
      <3>2. totalKeys \in Nat
        BY <1>1 DEF StoreTyped
      <3>3. k \in K <=> entries[k] # 0
        BY <2>1
      <3> QED BY <2>3, <3>1, <3>2, <3>3, FS_AddElement
    <2>5. PICK U : U = UNION {Linked(l) : l \in Keys}
      OBVIOUS
    <2>6. IsFiniteSet(U) /\ n \notin U
      BY <1>6, <2>5, LinkedFinite
    <2>7. UNION {Linked(l)' : l \in Keys} = U \cup {n}
      BY <1>6, <2>5
    <2>8. Cardinality(U \cup {n}) = Cardinality(U) + 1
      BY <2>6, FS_AddElement
    <2>9. totalVersions - gc.freed = Cardinality(U)
      BY <1>1, <2>5 DEF CountInv, AccountsBalance
    <2>10. totalVersions' = totalVersions + 1
      BY DEF Write
    <2>11. totalVersions' - gc'.freed = Cardinality(U \cup {n})
      <3>1. totalVersions \in Nat /\ gc.freed \in Nat
        BY <1>1 DEF StoreTyped, GCRec
      <3> QED BY <1>7, <2>8, <2>9, <2>10, <3>1
    <2> QED BY <2>2, <2>4, <2>7, <2>11 DEF CountInv, AccountsBalance
  <1>14. GCInv'
    <2>1. \A l \in Keys : entries[l] # 0 => entries'[l] = entries[l]
      BY <1>5 DEF WroteTo
    <2>2. ASSUME gc.pc \in {"keys", "visit"}
          PROVE  \A l \in gc.keys : Bucket[l] = gc.bucket /\ entries'[l] # 0
      <3>1. \A l \in gc.keys : l \in Keys /\ Bucket[l] = gc.bucket /\ entries[l] # 0
        BY <1>1, <2>2 DEF GCInv, GCRec
      <3> QED BY <2>1, <3>1
    <2>3. ASSUME gc.pc = "visit"
          PROVE  /\ entries'[gc.key] # 0
                 /\ IF gc.prev = 0 THEN gc.node = heads'[entries'[gc.key]]
                                   ELSE gc.prev \in Linked(gc.key)' /\ gc.node = nodes'[gc.prev].next
      <3>1. PICK g : g = gc.key
        OBVIOUS
      <3>2. /\ g \in Keys /\ Bucket[g] = gc.bucket /\ entries[g] # 0
            /\ IF gc.prev = 0 THEN gc.node = heads[entries[g]]
                              ELSE gc.prev \in Linked(g) /\ gc.node = nodes[gc.prev].next
        BY <1>1, <2>3, <3>1 DEF GCInv
      <3>3. g # k
        BY <2>3, <3>2 DEF Write, Unlocked
      <3>4. entries'[g] = entries[g] /\ Linked(g)' = Linked(g)
        BY <1>6, <2>1, <3>2, <3>3
      <3>5. heads'[entries[g]] = heads[entries[g]]
        <4>1. entries[g] # entries[k] /\ entries[g] \in 1 .. Len(heads)
          BY <1>1, <3>2, <3>3 DEF Linking, OwnChain, LinkedIn
        <4> QED BY <1>5, <4>1 DEF WroteTo
      <3>6. gc.prev # 0 => nodes'[gc.prev] = nodes[gc.prev]
        <4>1. ASSUME gc.prev # 0
              PROVE  gc.prev \in 1 .. N /\ gc.prev # n
          BY <1>1, <1>6, <3>2, <4>1 DEF LinkedIn
        <4>2. /\ \A m \in 1 .. Len(nodes') : m # n => nodes'[m] = nodes[m]
              /\ N <= Len(nodes') /\ Len(nodes') \in Nat
          BY <1>5 DEF WroteTo
        <4> QED BY <1>1, <4>1, <4>2
      <3>7. Linked(gc.key)' = Linked(g)'
        BY <1>7, <3>1 DEF Linked
      <3> QED BY <3>1, <3>2, <3>4, <3>5, <3>6, <3>7
    <2> QED BY <1>1, <1>7, <2>2, <2>3 DEF GCInv
  <1> QED BY <1>6, <1>11, <1>12, <1>13, <1>14, ChainParts, PTL

LEMMA MarkOn ==
  ASSUME ChainInv, NEW t \in Txs, MarkVersionAsCommitted(t)
  PROVE  ChainInv'
  <1>1. /\ Linking /\ ChainsWellFormed /\ CountInv /\ GCInv /\ HoldsChain
        /\ \A k \in Keys : LinkedIn(k)
        /\ NodeIds = 0 .. Len(nodes) /\ Len(nodes) \in Nat /\ 0 \in NodeIds /\ 0 \in ChainIds
        /\ tx \in [Txs -> TxRec] /\ reader \in [Readers -> ReaderRec] /\ gc \in GCRec
    BY BeforeStep
  <1>2. PICK Q \in TxRec : Q = tx[t]
    BY <1>1
  <1>3. PICK n : n = Q.node
    OBVIOUS
  <1>4. /\ n # 0 /\ nodes' = [nodes EXCEPT ![n].status = "committed"]
        /\ UNCHANGED <<heads, entries, totalKeys, totalVersions, pool, reader, gc>>
    BY <1>2, <1>3 DEF MarkVersionAsCommitted
  <1>5. n \in 1 .. Len(nodes)
    BY <1>1, <1>3, <1>4 DEF TxRec
  <1>6. /\ Linking' /\ ChainsWellFormed' /\ Len(nodes') = Len(nodes)
        /\ \A m \in 1 .. Len(nodes) : nodes'[m].next = nodes[m].next
        /\ \A k \in Keys : Linked(k)' = Linked(k)
    BY <1>1, <1>4, <1>5, MarkKeepsChains
  <1>7. CountInv'
    BY <1>1, <1>4, <1>6, CountStays
  <1>8. GCInv'
    <2>1. ASSUME gc.pc = "visit", gc.prev # 0
          PROVE  /\ Linked(gc.key)' = Linked(gc.key)
                 /\ gc.prev \in Linked(gc.key) => nodes'[gc.prev].next = nodes[gc.prev].next
      <3>1. PICK g \in Keys : g = gc.key
        BY <1>1, <2>1 DEF GCInv
      <3>2. Linked(g)' = Linked(g) /\ Linked(g) \subseteq 1 .. Len(nodes)
        BY <1>1, <1>6 DEF LinkedIn
      <3>3. Linked(gc.key)' = Linked(g)'
        BY <1>4, <3>1 DEF Linked
      <3> QED BY <1>6, <3>1, <3>2, <3>3
    <2> QED BY <1>1, <1>4, <2>1 DEF GCInv
  <1>9. PICK L : L = Q.left \ {Q.key}
    OBVIOUS
  <1>10. PICK T : T = [Q EXCEPT !.pc = "commit", !.left = L, !.key = NoKey, !.chain = 0, !.node = 0]
    OBVIOUS
  <1>11. tx' = [tx EXCEPT ![t] = T]
    BY <1>1, <1>2, <1>9, <1>10 DEF MarkVersionAsCommitted, Marked
  <1>12. T \in TxRec /\ T.pc = "commit"
    <2>1. L \in SUBSET Keys
      BY <1>9 DEF TxRec
    <2> QED BY <1>1, <1>10, <2>1 DEF TxRec
  <1>13. ActorTypes'
    <2>1. TxRec' = TxRec /\ ReaderRec' = ReaderRec /\ GCRec' = GCRec
      BY <1>4, <1>6 DEF TxRec, ReaderRec, GCRec, NodeIds, ChainIds
    <2>2. tx' \in [Txs -> TxRec]
      BY <1>1, <1>11, <1>12
    <2> QED BY <1>1, <1>4, <2>1, <2>2 DEF ActorTypes, TxType, ReaderType, GCType
  <1>14. HoldsChain'
    <2>1. ASSUME NEW u \in Txs, tx'[u].pc = "head"
          PROVE  tx'[u].chain # 0
      BY <1>1, <1>11, <1>12, <2>1 DEF HoldsChain
    <2> QED BY <1>1, <1>4, <2>1 DEF HoldsChain
  <1> QED BY <1>6, <1>7, <1>8, <1>13, <1>14, ChainParts, PTL

\* Where transactions and readers stay, and the store keeps its size.
LEMMA ActorsStay ==
  ASSUME ChainInv, UNCHANGED <<tx, reader>>, gc' \in GCRec,
         Len(nodes') = Len(nodes), Len(heads') = Len(heads)
  PROVE  ActorTypes' /\ HoldsChain'
  <1>1. tx \in [Txs -> TxRec] /\ reader \in [Readers -> ReaderRec] /\ HoldsChain
    BY BeforeStep
  <1>2. TxRec' = TxRec /\ ReaderRec' = ReaderRec /\ GCRec' = GCRec
    BY DEF TxRec, ReaderRec, GCRec, NodeIds, ChainIds
  <1>3. HoldsChain'
    BY <1>1 DEF HoldsChain
  <1> QED BY <1>1, <1>2, <1>3 DEF ActorTypes, TxType, ReaderType, GCType

LEMMA GCRemoveOn ==
  ASSUME ChainInv, GCRemove
  PROVE  ChainInv'
  <1> DEFINE N == Len(nodes)
  <1>1. /\ Linking /\ StoreTyped /\ ChainsWellFormed /\ CountInv /\ GCInv /\ gc \in GCRec
        /\ \A k \in Keys : LinkedIn(k)
        /\ N \in Nat /\ NodeIds = 0 .. N
        /\ \A n \in 1 .. N : nodes[n].next \in NodeIds
    BY BeforeStep
  <1>2. PICK q : q = gc.node
    OBVIOUS
  <1>3. PICK x : x = nodes[q].next
    OBVIOUS
  <1>4. /\ gc.pc = "visit" /\ q # 0
        /\ gc' = [gc EXCEPT !.node = x, !.freed = gc.freed + 1]
        /\ UNCHANGED <<entries, totalKeys, totalVersions, tx, reader>>
    BY <1>2, <1>3 DEF GCRemove
  <1>5. PICK g \in Keys : g = gc.key
    BY <1>1, <1>4 DEF GCInv
  <1>6. /\ entries[g] # 0 /\ q \in Linked(g)
        /\ gc.prev # 0 => gc.prev \in Linked(g) /\ nodes[gc.prev].next = q
    BY <1>1, <1>2, <1>4, <1>5, GCStandsIn
  <1>7. /\ Removed /\ StoreTyped'
        /\ pool' = IF UsePool THEN pool \cup {gc.node} ELSE pool
    BY <1>1, RemoveFromEffect
  <1>8. /\ Linking' /\ ChainsWellFormed'
        /\ \A k \in Keys : Linked(k)' = Linked(k) \ {gc.node}
    <2>1. pool' \subseteq pool \cup {gc.node}
      BY <1>7
    <2> QED BY <1>1, <1>2, <1>4, <1>7, <2>1, RemoveFromChains
  <1>9. q \in 1 .. N /\ x \in NodeIds
    BY <1>1, <1>3, <1>6 DEF LinkedIn
  <1>10. gc' \in GCRec /\ gc'.pc = "visit" /\ gc'.node = x /\ gc'.freed = gc.freed + 1
           /\ gc'.key = gc.key /\ gc'.keys = gc.keys /\ gc'.prev = gc.prev /\ gc'.bucket = gc.bucket
    <2>1. gc.freed + 1 \in Nat
      BY <1>1 DEF GCRec
    <2> QED BY <1>1, <1>4, <1>9, <2>1 DEF GCRec
  <1>11. CountInv'
    <2>1. {l \in Keys : entries'[l] # 0} = {l \in Keys : entries[l] # 0}
      BY <1>4
    <2>2. PICK U : U = UNION {Linked(l) : l \in Keys}
      OBVIOUS
    <2>3. IsFiniteSet(U) /\ q \in U
      BY <1>6, <2>2, LinkedFinite
    <2>4. UNION {Linked(l)' : l \in Keys} = U \ {q}
      BY <1>2, <1>8, <2>2
    <2>5. Cardinality(U \ {q}) = Cardinality(U) - 1
      BY <2>3, FS_RemoveElement
    <2>6. totalVersions - gc.freed = Cardinality(U)
      BY <1>1, <2>2 DEF CountInv, AccountsBalance
    <2>7. totalVersions' - gc'.freed = Cardinality(U \ {q})
      <3>1. totalVersions \in Nat /\ gc.freed \in Nat
        BY <1>1 DEF StoreTyped, GCRec
      <3> QED BY <1>4, <1>10, <2>5, <2>6, <3>1
    <2> QED BY <1>1, <1>4, <2>1, <2>4, <2>7 DEF CountInv, AccountsBalance
  <1>12. GCInv'
    <2>1. /\ gc.bucket < NumBuckets
          /\ \A l \in gc.keys : Bucket[l] = gc.bucket /\ entries[l] # 0
          /\ gc.key \in Keys \ gc.keys /\ Bucket[gc.key] = gc.bucket
      BY <1>1, <1>4 DEF GCInv
    <2>2. Linked(gc.key)' = Linked(g) \ {q}
      <3>1. Linked(gc.key)' = Linked(g)'
        BY <1>5, <1>10 DEF Linked
      <3> QED BY <1>2, <1>8, <3>1
    <2>3. IF gc.prev = 0 THEN gc'.node = heads'[entries'[gc.key]]
                         ELSE gc.prev \in Linked(gc.key)' /\ gc'.node = nodes'[gc.prev].next
      <3>1. CASE gc.prev = 0
        <4>1. entries[g] \in 1 .. Len(heads)
          BY <1>1, <1>6 DEF LinkedIn
        <4>2. heads'[entries[g]] = x
          BY <1>2, <1>3, <1>5, <1>7, <3>1, <4>1 DEF Removed
        <4> QED BY <1>4, <1>5, <1>10, <3>1, <4>2
      <3>2. CASE gc.prev # 0
        <4>1. gc.prev \in 1 .. N /\ gc.prev \in Linked(g)
          BY <1>1, <1>6, <3>2 DEF LinkedIn
        <4>2. gc.prev # q
          <5>1. nodes[gc.prev].next # gc.prev
            BY <1>1, <4>1, LinkingMakesBehind DEF BehindFacts
          <5> QED BY <1>6, <3>2, <5>1
        <4>3. nodes'[gc.prev].next = x
          BY <1>2, <1>3, <1>7, <4>1 DEF Removed
        <4> QED BY <1>10, <2>2, <3>2, <4>1, <4>2, <4>3
      <3> QED BY <3>1, <3>2
    <2> QED BY <1>4, <1>5, <1>6, <1>10, <2>1, <2>3 DEF GCInv
  <1>13. ActorTypes' /\ HoldsChain'
    BY <1>4, <1>7, <1>10, ActorsStay DEF Removed
  <1> QED BY <1>8, <1>11, <1>12, <1>13, ChainParts, PTL

LEMMA GCKeyDoneOn ==
  ASSUME ChainInv, GCKeyDone
  PROVE  ChainInv'
  <1>1. /\ Linking /\ StoreTyped /\ ChainsWellFormed /\ CountInv /\ GCInv /\ gc \in GCRec
        /\ 0 \in NodeIds
    BY BeforeStep
  <1>2. /\ gc.pc = "visit" /\ gc' = [gc EXCEPT !.pc = "keys", !.key = NoKey, !.prev = 0]
        /\ UNCHANGED <<nodes, heads, totalVersions, pool, tx, reader>>
    BY DEF GCKeyDone
  <1>3. PICK g \in Keys : g = gc.key /\ entries[g] # 0
    BY <1>1, <1>2 DEF GCInv
  <1>4. PICK K : K = {l \in Keys : entries[l] # 0}
    OBVIOUS
  <1>5. IsFiniteSet(K) /\ totalKeys = Cardinality(K) /\ g \in K
    BY <1>1, <1>3, <1>4 DEF CountInv, AccountsBalance
  <1>6. totalKeys' = IF heads[entries[g]] = 0 THEN Cardinality(K \ {g}) ELSE Cardinality(K)
    <2>1. IF heads[entries[gc.key]] = 0 THEN totalKeys' = totalKeys - 1 ELSE totalKeys' = totalKeys
      BY DEF GCKeyDone
    <2>2. Cardinality(K \ {g}) = Cardinality(K) - 1
      BY <1>5, FS_RemoveElement
    <2> QED BY <1>3, <1>5, <2>1, <2>2
  <1>7. totalKeys' \in Nat /\ IsFiniteSet(K \ {g})
    <2>1. IsFiniteSet(K \ {g})
      BY <1>5, FS_Subset
    <2> QED BY <1>5, <1>6, <2>1, FS_CardinalityType
  <1>8. /\ Linking' /\ ChainsWellFormed'
        /\ \A k \in Keys : entries'[k] = IF k = gc.key /\ heads[entries[k]] = 0
                                         THEN 0 ELSE entries[k]
        /\ \A k \in Keys : Linked(k)' = Linked(k)
    BY <1>1, <1>7, KeyDoneKeepsChains
  <1>9. CountInv'
    <2>1. PICK L : L = {l \in Keys : entries'[l] # 0}
      OBVIOUS
    <2>2. L = IF heads[entries[g]] = 0 THEN K \ {g} ELSE K
      BY <1>3, <1>4, <1>8, <2>1
    <2>3. IsFiniteSet(L) /\ totalKeys' = Cardinality(L)
      BY <1>5, <1>6, <1>7, <2>2
    <2>4. UNION {Linked(k)' : k \in Keys} = UNION {Linked(k) : k \in Keys}
      BY <1>8
    <2>5. gc'.freed = gc.freed
      BY <1>1, <1>2 DEF GCRec
    <2> QED BY <1>1, <1>2, <2>1, <2>3, <2>4, <2>5 DEF CountInv, AccountsBalance
  <1>10. gc' \in GCRec /\ gc'.pc = "keys" /\ gc'.keys = gc.keys /\ gc'.bucket = gc.bucket
    BY <1>1, <1>2 DEF GCRec
  <1>11. GCInv'
    <2>1. /\ gc.bucket < NumBuckets /\ g \notin gc.keys
          /\ \A l \in gc.keys : l \in Keys /\ Bucket[l] = gc.bucket /\ entries[l] # 0
      BY <1>1, <1>2, <1>3 DEF GCInv, GCRec
    <2>2. \A l \in gc.keys : entries'[l] # 0
      BY <1>3, <1>8, <2>1
    <2> QED BY <1>10, <2>1, <2>2 DEF GCInv
  <1>12. ActorTypes' /\ HoldsChain'
    BY <1>2, <1>10, ActorsStay
  <1> QED BY <1>8, <1>9, <1>11, <1>12, ChainParts, PTL

LEMMA GCReturnOn ==
  ASSUME ChainInv, GCReturn
  PROVE  ChainInv'
  <1>1. /\ Linking /\ StoreTyped /\ ChainsWellFormed /\ CountInv /\ GCInv /\ gc \in GCRec
        /\ 0 \in NodeIds
    BY BeforeStep
  <1>2. /\ totalVersions' = totalVersions - gc.freed /\ gc' = IdleGC
        /\ UNCHANGED <<nodes, heads, entries, totalKeys, pool, tx, reader>>
    BY DEF GCReturn
  <1>3. \A k \in Keys : Linked(k)' = Linked(k)
    BY <1>2 DEF Linked, Below, NodeIds
  <1>4. gc' \in GCRec /\ gc'.pc = "idle" /\ gc'.freed = 0
    <2>1. 0 \in 0 .. NumBuckets /\ 0 \in Nat
      BY BucketAssumption
    <2> QED BY <1>1, <1>2, <2>1 DEF IdleGC, GCRec
  <1>5. PICK U : U = UNION {Linked(k) : k \in Keys}
    OBVIOUS
  <1>6. totalVersions' = Cardinality(U) /\ totalVersions' \in Nat
    <2>1. IsFiniteSet(U)
      BY <1>5, LinkedFinite
    <2>2. totalVersions - gc.freed = Cardinality(U)
      BY <1>1, <1>5 DEF CountInv, AccountsBalance
    <2> QED BY <1>2, <2>1, <2>2, FS_CardinalityType
  <1>7. CountInv'
    <2>1. {k \in Keys : entries'[k] # 0} = {k \in Keys : entries[k] # 0}
      BY <1>2
    <2>2. UNION {Linked(k)' : k \in Keys} = U
      BY <1>3, <1>5
    <2>3. totalVersions' - gc'.freed = Cardinality(U)
      BY <1>4, <1>6
    <2> QED BY <1>1, <1>2, <2>1, <2>2, <2>3 DEF CountInv, AccountsBalance
  <1>8. Linking'
    <2>1. NodeIds' = NodeIds /\ ChainIds' = ChainIds /\ NodeRec' = NodeRec
      BY <1>2 DEF NodeIds, ChainIds, NodeRec
    <2>2. StoreTyped'
      BY <1>1, <1>2, <1>6, <2>1 DEF StoreTyped
    <2> QED BY <1>1, <1>2, <2>1, <2>2 DEF Linking, Acyclic, OwnChain
  <1>9. ChainsWellFormed'
    BY <1>1, <1>2, <1>3 DEF ChainsWellFormed
  <1>10. GCInv'
    BY <1>4 DEF GCInv
  <1>11. ActorTypes' /\ HoldsChain'
    BY <1>2, <1>4, ActorsStay
  <1> QED BY <1>7, <1>8, <1>9, <1>10, <1>11, ChainParts, PTL

LEMMA ChainsBegin ==
  ASSUME Init
  PROVE  ChainInv
  <1>1. IInv
    BY InitHolds
  <1>2. /\ nodes = <<>> /\ entries = [k \in Keys |-> 0] /\ tx = [t \in Txs |-> IdleTx]
        /\ reader = [r \in Readers |-> IdleReader]
    BY DEF Init
  <1>3. TypeOK /\ CountInv /\ GCInv
    BY <1>1 DEF IInv
  <1>4. Acyclic
    <2>1. NodeIds \ {0} = {}
      BY <1>2 DEF NodeIds
    <2> QED BY <2>1 DEF Acyclic
  <1>5. OwnChain /\ ChainsWellFormed
    BY <1>2 DEF OwnChain, ChainsWellFormed, Linked
  <1>6. HoldsChain
    BY <1>2 DEF HoldsChain, IdleTx, IdleReader
  <1> QED BY <1>3, <1>4, <1>5, <1>6 DEF ChainInv

LEMMA StepsKeepChainInv ==
  ASSUME ChainInv, [Next]_vars
  PROVE  ChainInv'
  <1>1. CASE UNCHANGED vars
    <2>1. tx \in [Txs -> TxRec] /\ reader \in [Readers -> ReaderRec] /\ gc \in GCRec /\ HoldsChain
      BY BeforeStep
    <2>2. UNCHANGED <<store, tx, reader, gc>>
      BY <1>1 DEF vars, store
    <2>3. HoldsChain'
      BY <2>1, <2>2 DEF HoldsChain
    <2> QED BY <2>1, <2>2, <2>3, StoreAlone
  <1>2. ASSUME NEW t \in Txs, NEW k \in Keys, Write(t, k)
        PROVE  ChainInv'
    BY <1>2, WriteOn
  <1>3. ASSUME NEW t \in Txs, Reexecute(t) \/ Commit(t) \/ CommitStep(t)
        PROVE  ChainInv'
    <2>1. CASE MarkVersionAsCommitted(t)
      BY <2>1, MarkOn
    <2>2. CASE ~ MarkVersionAsCommitted(t)
      BY <1>3, <2>2, TxStepsAlone DEF CommitStep
    <2> QED BY <2>1, <2>2
  <1>4. ASSUME NEW r \in Readers,
               \/ (\E k \in Keys, a \in ReadAt : Read(r, k, a)) \/ Validate(r) \/ Finish(r)
               \/ ReadStep(r)
        PROVE  ChainInv'
    BY <1>4, ReaderStepsAlone
  <1>5. ASSUME NEW b \in GCBefore, GC(b)
        PROVE  ChainInv'
    BY <1>5, GCStepsAlone
  <1>6. ASSUME GCStep
        PROVE  ChainInv'
    BY <1>6, GCStepsAlone, GCRemoveOn, GCKeyDoneOn, GCReturnOn DEF GCStep
  <1> QED BY <1>1, <1>2, <1>3, <1>4, <1>5, <1>6 DEF Next

\* With a MemoryPool or without one the pointers never run in circles, a chain belongs to
\* one key and GC stands where it thinks it does: the inductive invariant of the chains,
\* which says nothing of the order of the nodes (lockfree.go's Write, GC and Commit).
THEOREM ChainConsistency == Spec => []ChainInv
  <1>1. Init => ChainInv
    BY ChainsBegin
  <1>2. ChainInv /\ [Next]_vars => ChainInv'
    BY StepsKeepChainInv
  <1> QED BY <1>1, <1>2, PTL DEF Spec

\* A chain has versions of its own key only, and no node that GC gave to the pool and
\* that the next Write may take for another key.
THEOREM ChainsStayWhole == Spec => []ChainsWellFormed
  <1>1. ChainInv => ChainsWellFormed
    BY DEF ChainInv
  <1> QED BY <1>1, ChainConsistency, PTL

\* The variables have their types: every pointer leads to a node that exists, and the
\* statistics do not become negative.
THEOREM TypeCorrectness == Spec => []TypeOK
  <1>1. ChainInv => TypeOK
    BY DEF ChainInv
  <1> QED BY <1>1, ChainConsistency, PTL

\* The statistics count the keys and the versions of the store, but for the versions a
\* running GC has unlinked and not yet subtracted.
THEOREM TheAccountsBalance == Spec => []AccountsBalance
  <1>1. ChainInv => AccountsBalance
    BY DEF ChainInv, CountInv
  <1> QED BY <1>1, ChainConsistency, PTL

================================================================================
