------------------------- MODULE ChaseLevQueueProofs -------------------------
(***************************************************************************)
(* Proofs about ChaseLevQueue, for every set of tasks and thieves and every *)
(* buffer size: used from its local end, the queue hands each accepted task *)
(* to exactly one caller.                                                   *)
(***************************************************************************)
EXTENDS ChaseLevQueue, TLAPS

--------------------------------------------------------------------------------
(* The circular buffer *)

LEMMA MultipleAtLeast ==
  ASSUME NEW n \in Nat \ {0}, NEW q \in Int, n * q > 0
  PROVE  n * q >= n
  <1>1. CASE q <= 0
    <2>1. n * q <= 0
      BY <1>1, SMT
    <2> QED
      BY <2>1, SMT
  <1>2. CASE q >= 1
    <2>1. PICK r \in Nat : q = r + 1
      <3>1. q - 1 \in Nat
        BY <1>2
      <3> QED
        BY <3>1
    <2>2. n * r >= 0
      BY SMT
    <2>3. n * (r + 1) = n * r + n
      BY SMT
    <2> QED
      BY <2>1, <2>2, <2>3
  <1> QED
    BY <1>1, <1>2

\* Two indices less than n apart differ modulo n.
LEMMA ModInjective ==
  ASSUME NEW i \in Int, NEW j \in Int, NEW n \in Nat \ {0}, i < j, j - i < n
  PROVE  i % n # j % n
  <1> SUFFICES ASSUME i % n = j % n
               PROVE  FALSE
    OBVIOUS
  <1>1. /\ i = n * (i \div n) + (i % n)
        /\ j = n * (j \div n) + (j % n)
        /\ i \div n \in Int
        /\ j \div n \in Int
        /\ i % n \in Int
    BY SMT
  <1> DEFINE q == (j \div n) - (i \div n)
  <1>2. q \in Int
    BY <1>1
  <1>3. j - i = n * q
    BY <1>1, SMT
  <1> HIDE DEF q
  <1>4. n * q > 0
    BY <1>2, <1>3, SMT
  <1>5. n * q >= n
    BY <1>2, <1>4, MultipleAtLeast
  <1> QED
    BY <1>2, <1>3, <1>5, SMT

LEMMA SlotType ==
  ASSUME NEW i \in Int
  PROVE  Slot(i) \in 0 .. Size - 1
  BY SizeAssumption DEF Slot

LEMMA SlotInjective ==
  ASSUME NEW i \in Int, NEW j \in Int, i < j, j - i < Size
  PROVE  Slot(i) # Slot(j)
  BY SizeAssumption, ModInjective DEF Slot

LEMMA SlotValue ==
  ASSUME TypeOK, NEW i \in Int
  PROVE  buffer[Slot(i)] \in Values
  BY SlotType DEF TypeOK

\* While a push may store, the slot it stores to holds no live task.
LEMMA FreeSlot ==
  ASSUME IInv, push.pc \in {"store", "storing", "publish"}, NEW i \in Live
  PROVE  i \in Int /\ Slot(i) # Slot(bottom)
  <1>1. /\ i \in Int /\ bottom \in Int /\ top \in Int
        /\ i >= top /\ i < bottom /\ bottom - top < Size
    BY DEF IInv, TypeOK, OwnerInv, Live, LiveEnd
  <1> QED
    BY <1>1, SlotInjective, SizeAssumption

--------------------------------------------------------------------------------
(* Type correctness *)

LEMMA TypeStep ==
  ASSUME IInv, [Next]_vars
  PROVE  TypeOK'
  <1> USE SlotType, SizeAssumption, NoTaskAssumption, TornAssumption
  <1> USE DEF TypeOK, IInv, Values
  <1>1. ASSUME NEW t \in Tasks, PushLoadBottom(t) PROVE TypeOK'
    BY <1>1 DEF PushLoadBottom, PushState
  <1>2. CASE PushFull
    BY <1>2 DEF PushFull, PushState, OwnerInv
  <1>3. CASE PushLoadTop
    BY <1>3 DEF PushLoadTop, PushState
  <1>4. CASE PushStoreFirstWord
    BY <1>4 DEF PushStoreFirstWord, PushState
  <1>5. CASE PushStoreSecondWord
    BY <1>5 DEF PushStoreSecondWord, PushState
  <1>6. CASE PushPublish
    BY SMTT(30), <1>6 DEF PushPublish, PushState
  <1>7. CASE PopDecrement
    <2>1. bottom' \in Nat \cup {-1}
      BY <1>7 DEF PopDecrement, PopInv
    <2>2. pop' \in PopState
      BY <1>7, <2>1 DEF PopDecrement, PopState
    <2> QED
      BY <1>7, <2>1, <2>2 DEF PopDecrement
  <1>8. CASE PopLoadTop
    BY <1>8 DEF PopLoadTop, PopState
  <1>9. CASE PopRestore
    BY <1>9 DEF PopRestore, PopState
  <1>10. CASE PopReadOwned
    <2>1. buffer[Slot(pop.bottom)] \in Values
      <3>1. pop.bottom \in Int
        BY DEF PopState
      <3> QED
        BY <3>1, SlotValue
    <2>2. pop' \in PopState
      BY <1>10 DEF PopReadOwned, PopState
    <2>3. taken' \in [Values -> Nat]
      BY <1>10, <2>1 DEF PopReadOwned, Take
    <2> QED
      BY <1>10, <2>2, <2>3 DEF PopReadOwned
  <1>11. CASE PopReadLast
    <2>1. buffer[Slot(pop.bottom)] \in Values
      <3>1. pop.bottom \in Int
        BY DEF PopState
      <3> QED
        BY <3>1, SlotValue
    <2>2. pop' \in PopState
      BY <1>11, <2>1 DEF PopReadLast, PopState
    <2> QED
      BY <1>11, <2>2 DEF PopReadLast
  <1>12. CASE PopCASWon
    <2>1. pop' \in PopState /\ top' \in Nat
      BY <1>12 DEF PopCASWon, PopState
    <2>2. taken' \in [Values -> Nat]
      BY <1>12 DEF PopCASWon, PopState, Take
    <2> QED
      BY <1>12, <2>1, <2>2 DEF PopCASWon
  <1>13. CASE PopCASLost
    BY <1>13 DEF PopCASLost, PopState
  <1>14. CASE PopReset
    <2>1. pop' \in PopState /\ bottom' \in Nat
      BY SMTT(30), <1>14 DEF PopReset, PopState
    <2> QED
      BY <1>14, <2>1 DEF PopReset
  <1>15. ASSUME NEW th \in Thieves, StealLoadTop(th) PROVE TypeOK'
    BY ZenonT(30), <1>15 DEF StealLoadTop, StealState
  <1>16. ASSUME NEW th \in Thieves, StealLoadBottom(th) PROVE TypeOK'
    BY ZenonT(30), <1>16 DEF StealLoadBottom, StealState
  <1>17. ASSUME NEW th \in Thieves, StealRead(th) PROVE TypeOK'
    <2>1. buffer[Slot(steal[th].top)] \in Values
      BY SMTT(30) DEF StealState
    <2>2. steal' \in [Thieves -> StealState]
      BY ZenonT(30), <1>17, <2>1 DEF StealRead, StealState
    <2> QED
      BY SMTT(30), <1>17, <2>2 DEF StealRead
  <1>18. ASSUME NEW th \in Thieves, StealCASWon(th) PROVE TypeOK'
    BY <1>18 DEF StealCASWon, StealState, Take
  <1>19. ASSUME NEW th \in Thieves, StealCASLost(th) PROVE TypeOK'
    BY ZenonT(30), <1>19 DEF StealCASLost, StealState
  <1>20. CASE UNCHANGED vars
    BY <1>20 DEF vars
  <1> QED
    BY <1>1, <1>2, <1>3, <1>4, <1>5, <1>6, <1>7, <1>8, <1>9, <1>10, <1>11,
       <1>12, <1>13, <1>14, <1>15, <1>16, <1>17, <1>18, <1>19, <1>20
       DEF Next, PushStep, PopStep, StealStep
--------------------------------------------------------------------------------
(* The inductive invariant *)

LEMMA InitIInv == Init => IInv
  <1> SUFFICES ASSUME Init
               PROVE  IInv
    OBVIOUS
  <1> USE SizeAssumption, NoTaskAssumption, TornAssumption DEF Init
  <1>1. TypeOK
    BY DEF TypeOK, Values, PushState, PopState, StealState
  <1>2. OwnerInv /\ PopInv /\ StealInv
    BY DEF OwnerInv, PopInv, StealInv, LiveEnd, OwnsBottom
  <1>3. LiveInv /\ HistoryInv /\ OnlyTasksTaken
    BY DEF LiveInv, HistoryInv, OnlyTasksTaken, Live, LiveEnd, Values
  <1> QED
    BY <1>1, <1>2, <1>3 DEF IInv

LEMMA PushPreserves ==
  ASSUME IInv, ~ RemotePush, PushStep, TypeOK'
  PROVE  IInv'
  <1> USE DEF IInv
  <1>1. ASSUME NEW t \in Tasks, PushLoadBottom(t)
        PROVE  IInv'
    <2>1. OwnerInv'
      BY <1>1 DEF PushLoadBottom, OwnerInv, LiveEnd, TypeOK, PushState
    <2>2. PopInv' /\ StealInv'
      BY <1>1 DEF PushLoadBottom, PopInv, StealInv, OwnsBottom, QueueEnd
    <2>3. LiveInv' /\ HistoryInv' /\ OnlyTasksTaken'
      BY <1>1 DEF PushLoadBottom, LiveInv, HistoryInv, OnlyTasksTaken, Live, LiveEnd
    <2> QED
      BY <2>1, <2>2, <2>3
  <1>2. CASE PushFull
    <2>1. OwnerInv'
      BY <1>2 DEF PushFull, OwnerInv, LiveEnd, TypeOK, PushState
    <2>2. PopInv' /\ StealInv' /\ OnlyTasksTaken'
      BY <1>2 DEF PushFull, PopInv, StealInv, OwnsBottom, QueueEnd, OnlyTasksTaken
    <2>3. LiveInv' /\ HistoryInv'
      <3>1. push.task \in todo /\ todo' \cup rejected' = todo \cup rejected
        BY <1>2 DEF PushFull, OwnerInv
      <3> QED
        BY <1>2, <3>1 DEF PushFull, LiveInv, HistoryInv, Live, LiveEnd
    <2> QED
      BY <2>1, <2>2, <2>3
  <1>3. CASE PushLoadTop
    <2>1. OwnerInv'
      BY <1>3 DEF PushLoadTop, OwnerInv, LiveEnd, TypeOK, PushState
    <2>2. PopInv' /\ StealInv'
      BY <1>3 DEF PushLoadTop, PopInv, StealInv, OwnsBottom, QueueEnd
    <2>3. LiveInv' /\ HistoryInv' /\ OnlyTasksTaken'
      BY <1>3 DEF PushLoadTop, LiveInv, HistoryInv, OnlyTasksTaken, Live, LiveEnd
    <2> QED
      BY <2>1, <2>2, <2>3
  <1>4. ASSUME NEW v, buffer' = [buffer EXCEPT ![Slot(push.bottom)] = v],
               push.pc \in {"store", "storing"},
               UNCHANGED <<top, bottom, pop, steal, todo, rejected, taken>>
        PROVE  /\ PopInv' /\ StealInv' /\ LiveInv' /\ HistoryInv' /\ OnlyTasksTaken'
               /\ bottom = push.bottom /\ pop.pc = "idle"
    <2>1. bottom = push.bottom /\ pop.pc = "idle"
      BY <1>4 DEF OwnerInv
    <2>2. Live' = Live /\ \A i \in Live : buffer'[Slot(i)] = buffer[Slot(i)]
      <3>1. Live' = Live
        BY <1>4 DEF Live, LiveEnd
      <3>2. ASSUME NEW i \in Live
            PROVE  buffer'[Slot(i)] = buffer[Slot(i)]
        BY <1>4, <2>1, FreeSlot, SlotType DEF TypeOK
      <3> QED
        BY <3>1, <3>2
    <2>3. PopInv'
      BY <1>4, <2>1 DEF PopInv, OwnsBottom
    <2>4. StealInv'
      <3>1. top < QueueEnd => top \in Live
        BY <2>1 DEF QueueEnd, Live, LiveEnd, TypeOK
      <3>2. QueueEnd' = QueueEnd
        BY <1>4 DEF QueueEnd, OwnsBottom
      <3> QED
        BY <1>4, <2>2, <3>1, <3>2 DEF StealInv
    <2>5. LiveInv' /\ HistoryInv' /\ OnlyTasksTaken'
      BY <1>4, <2>2 DEF LiveInv, HistoryInv, OnlyTasksTaken
    <2> QED
      BY <2>1, <2>3, <2>4, <2>5
  <1>5. CASE PushStoreFirstWord
    <2>1. OwnerInv'
      BY <1>5 DEF PushStoreFirstWord, OwnerInv, LiveEnd, TypeOK, PushState
    <2> QED
      BY <1>4, <1>5, <2>1 DEF PushStoreFirstWord
  <1>6. CASE PushStoreSecondWord
    <2>1. OwnerInv'
      <3>1. push.bottom \in Int
        BY DEF TypeOK, PushState
      <3>2. buffer'[Slot(push.bottom)] = push.task
        BY <1>6, <3>1, SlotType DEF PushStoreSecondWord, TypeOK
      <3> QED
        BY <1>6, <3>2 DEF PushStoreSecondWord, OwnerInv, LiveEnd, TypeOK, PushState
    <2> QED
      BY <1>4, <1>6, <2>1 DEF PushStoreSecondWord
  <1>7. CASE PushPublish
    <2>1. /\ push.bottom = bottom /\ pop.pc = "idle" /\ push.task \in todo
          /\ buffer[Slot(bottom)] = push.task /\ bottom - top < Size
          /\ top <= bottom /\ bottom \in Int /\ top \in Int
      BY <1>7 DEF PushPublish, OwnerInv, PopInv, TypeOK
    <2>2. /\ Live = top .. bottom - 1
          /\ Live' = Live \cup {bottom}
          /\ bottom \notin Live
      BY <1>7, <2>1 DEF PushPublish, Live, LiveEnd
    <2>3. OwnerInv'
      <3>1. push'.pc = "idle" /\ bottom' = bottom + 1 /\ top' = top /\ pop' = pop
        BY <1>7, <2>1 DEF PushPublish, TypeOK, PushState
      <3> QED
        BY <2>1, <3>1, SizeAssumption DEF OwnerInv, LiveEnd
    <2>4. PopInv' /\ StealInv'
      BY <1>7, <2>1 DEF PushPublish, PopInv, StealInv, OwnsBottom, QueueEnd, TypeOK
    <2>5. LiveInv'
      <3>1. \A i \in Live : buffer[Slot(i)] # push.task
        BY <2>1 DEF LiveInv
      <3>2. push.task \in Tasks \ (todo' \cup rejected) /\ taken[push.task] = 0
        BY <1>7, <2>1 DEF PushPublish, HistoryInv, TypeOK
      <3> QED
        BY <1>7, <2>1, <2>2, <3>1, <3>2 DEF PushPublish, LiveInv
    <2>6. HistoryInv' /\ OnlyTasksTaken'
      BY <1>7, <2>1, <2>2 DEF PushPublish, HistoryInv, OnlyTasksTaken
    <2> QED
      BY <2>3, <2>4, <2>5, <2>6
  <1> QED
    BY <1>1, <1>2, <1>3, <1>5, <1>6, <1>7 DEF PushStep

LEMMA PopPreserves ==
  ASSUME IInv, ~ RemotePush, PopStep, TypeOK'
  PROVE  IInv'
  <1> USE DEF IInv
  <1>1. CASE PopDecrement
    <2>1. /\ push.pc = "idle" /\ pop.pc = "idle" /\ top <= bottom
          /\ top \in Int /\ bottom \in Int
      BY <1>1 DEF PopDecrement, PopInv, TypeOK
    <2>2. /\ bottom' = bottom - 1
          /\ pop'.pc = "loadTop" /\ pop'.bottom = bottom - 1
          /\ UNCHANGED <<buffer, top, push, steal, todo, rejected, taken>>
      BY <1>1 DEF PopDecrement, TypeOK, PopState
    <2>3. LiveEnd' = LiveEnd /\ QueueEnd' = QueueEnd
      BY <2>1, <2>2 DEF LiveEnd, QueueEnd, OwnsBottom
    <2>4. OwnerInv'
      BY <2>1, <2>2, <2>3 DEF OwnerInv
    <2>5. PopInv'
      BY <2>1, <2>2 DEF PopInv, OwnsBottom
    <2>6. StealInv' /\ LiveInv' /\ HistoryInv' /\ OnlyTasksTaken'
      BY <2>2, <2>3 DEF StealInv, LiveInv, HistoryInv, OnlyTasksTaken, Live
    <2> QED
      BY <2>4, <2>5, <2>6
  <1>2. CASE PopLoadTop
    <2>1. /\ push.pc = "idle" /\ pop.bottom = bottom /\ pop.pc = "loadTop"
          /\ top <= bottom + 1 /\ top \in Int /\ bottom \in Int
      BY <1>2 DEF PopLoadTop, OwnerInv, PopInv, TypeOK
    <2>2. /\ pop'.pc = IF bottom < top THEN "restore" ELSE "read"
          /\ pop'.bottom = bottom /\ pop'.top = top
          /\ UNCHANGED <<buffer, top, bottom, push, steal, todo, rejected, taken>>
      BY <1>2, <2>1 DEF PopLoadTop, TypeOK, PopState
    <2>3. Live' = Live
      BY <2>1, <2>2 DEF Live, LiveEnd
    <2>4. OwnerInv'
      BY <2>1, <2>2, SizeAssumption DEF OwnerInv, LiveEnd
    <2>5. PopInv'
      BY <2>1, <2>2 DEF PopInv, OwnsBottom
    <2>6. top < QueueEnd => top' < QueueEnd'
      BY <2>1, <2>2 DEF QueueEnd, OwnsBottom
    <2>7. StealInv' /\ LiveInv' /\ HistoryInv' /\ OnlyTasksTaken'
      BY <2>2, <2>3, <2>6 DEF StealInv, LiveInv, HistoryInv, OnlyTasksTaken
    <2> QED
      BY <2>4, <2>5, <2>7
  <1>3. CASE PopRestore
    <2>1. /\ push.pc = "idle" /\ top = bottom + 1
          /\ top \in Int /\ bottom \in Int /\ pop.pc = "restore"
      BY <1>3 DEF PopRestore, OwnerInv, PopInv, TypeOK
    <2>2. /\ bottom' = top /\ pop'.pc = "idle"
          /\ UNCHANGED <<buffer, top, push, steal, todo, rejected, taken>>
      BY <1>3 DEF PopRestore, PopInv, TypeOK, PopState
    <2>3. Live = {} /\ Live' = {}
      BY <2>1, <2>2 DEF Live, LiveEnd
    <2>4. OwnerInv' /\ PopInv'
      BY <2>1, <2>2, SizeAssumption DEF OwnerInv, PopInv, LiveEnd, OwnsBottom
    <2>5. StealInv'
      BY <2>1, <2>2 DEF StealInv, QueueEnd, OwnsBottom
    <2>6. LiveInv' /\ HistoryInv' /\ OnlyTasksTaken'
      BY <2>2, <2>3 DEF LiveInv, HistoryInv, OnlyTasksTaken
    <2> QED
      BY <2>4, <2>5, <2>6
  <1>4. CASE PopReadOwned
    <2> DEFINE t == buffer[Slot(bottom)]
    <2>1. /\ push.pc = "idle" /\ pop.pc = "read" /\ pop.bottom = bottom
          /\ pop.bottom > pop.top /\ top <= bottom
          /\ top \in Int /\ bottom \in Int
      BY <1>4 DEF PopReadOwned, OwnerInv, PopInv, OwnsBottom, TypeOK
    <2>2. /\ pop'.pc = "idle" /\ taken' = [taken EXCEPT ![t] = @ + 1]
          /\ UNCHANGED <<buffer, top, bottom, push, steal, todo, rejected>>
      BY <1>4, <2>1 DEF PopReadOwned, Take, TypeOK, PopState
    <2>3. bottom \in Live /\ Live' = Live \ {bottom} /\ QueueEnd' = QueueEnd
      BY <2>1, <2>2 DEF Live, LiveEnd, QueueEnd, OwnsBottom
    <2>4. /\ t \in Tasks \ (todo \cup rejected) /\ taken[t] = 0
          /\ \A i \in Live' : buffer[Slot(i)] # t
      BY <2>3 DEF LiveInv
    <2>5. OwnerInv' /\ PopInv'
      BY <2>1, <2>2, SizeAssumption DEF OwnerInv, PopInv, LiveEnd, OwnsBottom
    <2>6. StealInv'
      BY <2>2, <2>3 DEF StealInv
    <2> HIDE DEF t
    <2>7. taken'[t] = 1 /\ \A v \in Values \ {t} : taken'[v] = taken[v]
      BY <2>2, <2>4 DEF TypeOK, Values
    <2>8. LiveInv'
      BY <2>2, <2>3, <2>4, <2>7 DEF LiveInv, Values
    <2>9. HistoryInv'
      <3>1. \A i \in Live : buffer[Slot(i)] # t => i \in Live'
        BY <2>3 DEF t
      <3> QED
        BY <2>2, <2>4, <2>7, <3>1 DEF HistoryInv, TypeOK, Values
    <2>10. OnlyTasksTaken'
      BY <2>4, <2>7, NoTaskAssumption, TornAssumption DEF OnlyTasksTaken, Values
    <2> QED
      BY <2>5, <2>6, <2>8, <2>9, <2>10
  <1>5. CASE PopReadLast
    <2>1. /\ push.pc = "idle" /\ pop.pc = "read" /\ pop.bottom = bottom
          /\ pop.top = bottom /\ top \in {bottom, bottom + 1}
          /\ top \in Int /\ bottom \in Int
      BY <1>5 DEF PopReadLast, OwnerInv, PopInv, TypeOK
    <2>2. /\ pop'.pc = "cas" /\ pop'.task = buffer[Slot(bottom)]
          /\ pop'.top = bottom /\ pop'.bottom = bottom
          /\ UNCHANGED <<buffer, top, bottom, push, steal, todo, rejected, taken>>
      BY <1>5, <2>1 DEF PopReadLast, TypeOK, PopState
    <2>3. LiveEnd' = LiveEnd /\ QueueEnd' = QueueEnd
      BY <2>1, <2>2 DEF LiveEnd, QueueEnd, OwnsBottom
    <2>4. OwnerInv' /\ PopInv'
      BY <2>1, <2>2, <2>3 DEF OwnerInv, PopInv, OwnsBottom
    <2>5. StealInv' /\ LiveInv' /\ HistoryInv' /\ OnlyTasksTaken'
      BY <2>2, <2>3 DEF StealInv, LiveInv, HistoryInv, OnlyTasksTaken, Live
    <2> QED
      BY <2>4, <2>5
  <1>6. CASE PopCASWon
    <2> DEFINE t == buffer[Slot(bottom)]
    <2>1. /\ push.pc = "idle" /\ pop.pc = "cas" /\ pop.bottom = bottom
          /\ pop.top = bottom /\ top = bottom /\ pop.task = t
          /\ top \in Int /\ bottom \in Int
      BY <1>6 DEF PopCASWon, OwnerInv, PopInv, TypeOK
    <2>2. /\ pop'.pc = "reset" /\ pop'.bottom = bottom /\ pop'.top = bottom
          /\ top' = bottom + 1 /\ taken' = [taken EXCEPT ![t] = @ + 1]
          /\ UNCHANGED <<buffer, bottom, push, steal, todo, rejected>>
      BY <1>6, <2>1 DEF PopCASWon, Take, TypeOK, PopState
    <2>3. Live = {bottom} /\ Live' = {}
      BY <2>1, <2>2 DEF Live, LiveEnd
    <2>4. t \in Tasks \ (todo \cup rejected) /\ taken[t] = 0
      BY <2>3 DEF LiveInv
    <2>5. OwnerInv' /\ PopInv'
      BY <2>1, <2>2, SizeAssumption DEF OwnerInv, PopInv, LiveEnd, OwnsBottom
    <2>6. StealInv'
      BY <2>1, <2>2 DEF StealInv, TypeOK, StealState
    <2>7. \A i \in Live : buffer[Slot(i)] = t
      BY <2>3
    <2> HIDE DEF t
    <2>8. taken'[t] = 1 /\ \A v \in Values \ {t} : taken'[v] = taken[v]
      BY <2>2, <2>4 DEF TypeOK, Values
    <2>9. LiveInv'
      BY <2>3 DEF LiveInv
    <2>10. HistoryInv'
      BY <2>2, <2>4, <2>7, <2>8 DEF HistoryInv, TypeOK, Values
    <2>11. OnlyTasksTaken'
      BY <2>4, <2>8, NoTaskAssumption, TornAssumption DEF OnlyTasksTaken, Values
    <2> QED
      BY <2>5, <2>6, <2>9, <2>10, <2>11
  <1>7. CASE PopCASLost
    <2>1. /\ push.pc = "idle" /\ pop.pc = "cas" /\ pop.bottom = bottom
          /\ pop.top = bottom /\ top = bottom + 1
          /\ top \in Int /\ bottom \in Int
      BY <1>7 DEF PopCASLost, OwnerInv, PopInv, TypeOK
    <2>2. /\ pop'.pc = "reset" /\ pop'.bottom = bottom /\ pop'.top = bottom
          /\ UNCHANGED <<buffer, top, bottom, push, steal, todo, rejected, taken>>
      BY <1>7, <2>1 DEF PopCASLost, TypeOK, PopState
    <2>3. Live = {} /\ Live' = {}
      BY <2>1, <2>2 DEF Live, LiveEnd
    <2>4. OwnerInv' /\ PopInv'
      BY <2>1, <2>2, SizeAssumption DEF OwnerInv, PopInv, LiveEnd, OwnsBottom
    <2>5. StealInv'
      BY <2>1, <2>2 DEF StealInv, QueueEnd, OwnsBottom
    <2>6. LiveInv' /\ HistoryInv' /\ OnlyTasksTaken'
      BY <2>2, <2>3 DEF LiveInv, HistoryInv, OnlyTasksTaken
    <2> QED
      BY <2>4, <2>5, <2>6
  <1>8. CASE PopReset
    <2>1. /\ push.pc = "idle" /\ pop.pc = "reset"
          /\ top = bottom + 1 /\ top \in Int /\ bottom \in Int
      BY <1>8 DEF PopReset, OwnerInv, PopInv, TypeOK
    <2>2. /\ pop'.pc = "idle" /\ bottom' = top
          /\ UNCHANGED <<buffer, top, push, steal, todo, rejected, taken>>
      BY <1>8 DEF PopReset, PopInv, TypeOK, PopState
    <2>3. Live = {} /\ Live' = {}
      BY <2>1, <2>2 DEF Live, LiveEnd
    <2>4. OwnerInv' /\ PopInv'
      BY <2>1, <2>2, SizeAssumption DEF OwnerInv, PopInv, LiveEnd, OwnsBottom
    <2>5. StealInv'
      BY <2>1, <2>2 DEF StealInv, QueueEnd, OwnsBottom
    <2>6. LiveInv' /\ HistoryInv' /\ OnlyTasksTaken'
      BY <2>2, <2>3 DEF LiveInv, HistoryInv, OnlyTasksTaken
    <2> QED
      BY <2>4, <2>5, <2>6
  <1> QED
    BY <1>1, <1>2, <1>3, <1>4, <1>5, <1>6, <1>7, <1>8 DEF PopStep

LEMMA StealPreserves ==
  ASSUME IInv, NEW th \in Thieves, StealStep(th), TypeOK'
  PROVE  IInv'
  <1> USE DEF IInv
  \* Until its CAS a thief changes nothing but its own record.
  <1>1. ASSUME UNCHANGED <<buffer, top, bottom, push, pop, todo, rejected, taken>>
        PROVE  /\ OwnerInv' /\ PopInv' /\ LiveInv' /\ HistoryInv' /\ OnlyTasksTaken'
               /\ QueueEnd' = QueueEnd
    <2>1. LiveEnd' = LiveEnd /\ QueueEnd' = QueueEnd /\ OwnsBottom' = OwnsBottom
      BY <1>1 DEF LiveEnd, QueueEnd, OwnsBottom
    <2> QED
      BY <1>1, <2>1 DEF OwnerInv, PopInv, LiveInv, HistoryInv, OnlyTasksTaken, Live
  <1>2. CASE StealLoadTop(th)
    <2>1. StealInv'
      BY <1>1, <1>2 DEF StealLoadTop, StealInv, TypeOK, StealState
    <2> QED
      BY <1>1, <1>2, <2>1 DEF StealLoadTop
  <1>3. CASE StealLoadBottom(th)
    <2>1. bottom <= QueueEnd /\ QueueEnd \in Int
      BY DEF QueueEnd, TypeOK
    <2>2. StealInv'
      BY <1>1, <1>3, <2>1 DEF StealLoadBottom, StealInv, TypeOK, StealState
    <2> QED
      BY <1>1, <1>3, <2>2 DEF StealLoadBottom
  <1>4. CASE StealRead(th)
    <2>1. StealInv'
      BY <1>1, <1>4 DEF StealRead, StealInv, TypeOK, StealState
    <2> QED
      BY <1>1, <1>4, <2>1 DEF StealRead
  <1>5. CASE StealCASWon(th)
    <2> DEFINE t == buffer[Slot(top)]
    <2>1. /\ top = steal[th].top /\ steal[th].task = t /\ top < QueueEnd
          /\ top \in Int /\ bottom \in Int
      BY <1>5 DEF StealCASWon, StealInv, TypeOK
    <2>2. /\ top' = top + 1 /\ taken' = [taken EXCEPT ![t] = @ + 1]
          /\ steal' = [steal EXCEPT ![th].pc = "idle"]
          /\ UNCHANGED <<buffer, bottom, push, pop, todo, rejected>>
      BY <1>5, <2>1 DEF StealCASWon, Take
    <2>3. top \in Live /\ Live' = Live \ {top}
      BY <2>1, <2>2 DEF Live, LiveEnd, QueueEnd
    <2>4. /\ t \in Tasks \ (todo \cup rejected) /\ taken[t] = 0
          /\ \A i \in Live' : buffer[Slot(i)] # t
      BY <2>3 DEF LiveInv
    <2>5. OwnerInv'
      BY <2>1, <2>2, SizeAssumption DEF OwnerInv, LiveEnd
    <2>6. PopInv'
      BY <2>1, <2>2 DEF PopInv, OwnsBottom, QueueEnd
    <2>7. StealInv'
      BY <2>1, <2>2 DEF StealInv, TypeOK, StealState
    <2> HIDE DEF t
    <2>8. taken'[t] = 1 /\ \A v \in Values \ {t} : taken'[v] = taken[v]
      BY <2>2, <2>4 DEF TypeOK, Values
    <2>9. LiveInv'
      BY <2>2, <2>3, <2>4, <2>8 DEF LiveInv, Values
    <2>10. HistoryInv'
      <3>1. \A i \in Live : buffer[Slot(i)] # t => i \in Live'
        BY <2>3 DEF t
      <3> QED
        BY <2>2, <2>4, <2>8, <3>1 DEF HistoryInv, TypeOK, Values
    <2>11. OnlyTasksTaken'
      BY <2>4, <2>8, NoTaskAssumption, TornAssumption DEF OnlyTasksTaken, Values
    <2> QED
      BY <2>5, <2>6, <2>7, <2>9, <2>10, <2>11
  <1>6. CASE StealCASLost(th)
    <2>1. StealInv'
      BY <1>1, <1>6 DEF StealCASLost, StealInv, TypeOK, StealState
    <2> QED
      BY <1>1, <1>6, <2>1 DEF StealCASLost
  <1> QED
    BY <1>2, <1>3, <1>4, <1>5, <1>6 DEF StealStep

LEMMA NextIInv ==
  ASSUME IInv, ~ RemotePush, [Next]_vars
  PROVE  IInv'
  <1>1. TypeOK'
    BY TypeStep
  <1>2. CASE UNCHANGED vars
    <2> USE <1>2 DEF vars
    <2>1. LiveEnd' = LiveEnd /\ QueueEnd' = QueueEnd /\ OwnsBottom' = OwnsBottom
      BY DEF LiveEnd, QueueEnd, OwnsBottom
    <2>2. OwnerInv' /\ PopInv' /\ StealInv'
      BY <2>1 DEF IInv, OwnerInv, PopInv, StealInv
    <2>3. LiveInv' /\ HistoryInv' /\ OnlyTasksTaken'
      BY <2>1 DEF IInv, LiveInv, HistoryInv, OnlyTasksTaken, Live
    <2> QED
      BY <1>1, <2>2, <2>3 DEF IInv
  <1> QED
    BY <1>1, <1>2, PushPreserves, PopPreserves, StealPreserves DEF Next

--------------------------------------------------------------------------------
(* Theorems *)

\* Used from its local end, the queue is in a consistent state after every step
\* of the owner, the pusher and the thieves.
THEOREM Consistency ==
  ASSUME ~ RemotePush
  PROVE  Spec => []IInv
  <1>1. Init => IInv
    BY InitIInv
  <1>2. IInv /\ [Next]_vars => IInv'
    BY NextIInv
  <1> QED
    BY <1>1, <1>2, PTL DEF Spec

\* The variables keep their types; in particular bottom never falls below -1.
THEOREM TypeCorrectness ==
  ASSUME ~ RemotePush
  PROVE  Spec => []TypeOK
  <1>1. IInv => TypeOK
    BY DEF IInv
  <1> QED
    BY <1>1, Consistency, PTL

\* PopBottom and PopTop return no task twice, however many thieves compete for it.
THEOREM NoTaskTakenTwice ==
  ASSUME ~ RemotePush
  PROVE  Spec => []TakenAtMostOnce
  <1>1. IInv => TakenAtMostOnce
    BY DEF IInv, HistoryInv, TakenAtMostOnce
  <1> QED
    BY <1>1, Consistency, PTL

\* A pop never returns nil or a half-written value as a task, although the slots
\* are plain memory that the pusher reuses.
THEOREM NoTornTask ==
  ASSUME ~ RemotePush
  PROVE  Spec => []OnlyTasksTaken
  <1>1. IInv => OnlyTasksTaken
    BY DEF IInv
  <1> QED
    BY <1>1, Consistency, PTL

\* A task PushBottom accepted stays in the buffer until a pop returns it.
THEOREM AcceptedTaskKept ==
  ASSUME ~ RemotePush
  PROVE  Spec => []NoTaskLost
  <1>1. IInv => NoTaskLost
    <2> SUFFICES ASSUME IInv, pop.pc = "idle",
                        NEW t \in Tasks \ (todo \cup rejected), taken[t] = 0
                 PROVE  \E i \in top .. bottom - 1 : buffer[Slot(i)] = t
      BY DEF NoTaskLost
    <2> QED
      BY DEF IInv, HistoryInv, Live, LiveEnd
  <1> QED
    BY <1>1, Consistency, PTL
--------------------------------------------------------------------------------
(* The queue implements TaskDeque *)

\* The slots of the indices from .. to - 1, as a sequence.
Slots(b, from, to) == [i \in 1 .. to - from |-> b[Slot(from + i - 1)]]

Content == Slots(buffer, top, QueueEnd)

LEMMA NoSlots ==
  ASSUME NEW b, NEW from \in Int, NEW to \in Int, to <= from
  PROVE  Slots(b, from, to) = <<>>
  <1>1. 1 .. to - from = {}
    OBVIOUS
  <1> QED BY <1>1 DEF Slots

LEMMA SlotsType ==
  ASSUME NEW b, NEW from \in Int, NEW to \in Int, from <= to,
         \A i \in Int : b[Slot(i)] \in Values
  PROVE  /\ Slots(b, from, to) \in Seq(Values)
         /\ Len(Slots(b, from, to)) = to - from
         /\ \A i \in 1 .. to - from : Slots(b, from, to)[i] = b[Slot(from + i - 1)]
  <1>1. to - from \in Nat
    OBVIOUS
  <1>2. \A i \in 1 .. to - from : from + i - 1 \in Int /\ b[Slot(from + i - 1)] \in Values
    OBVIOUS
  <1> QED BY <1>1, <1>2 DEF Slots

\* One index more at the bottom is a task appended.
LEMMA SlotsAppend ==
  ASSUME NEW b, NEW from \in Int, NEW to \in Int, from <= to,
         \A i \in Int : b[Slot(i)] \in Values
  PROVE  Slots(b, from, to + 1) = Append(Slots(b, from, to), b[Slot(to)])
  <1> DEFINE s == Slots(b, from, to)
             r == Slots(b, from, to + 1)
  <1>1. /\ s \in Seq(Values) /\ Len(s) = to - from
        /\ \A i \in 1 .. to - from : s[i] = b[Slot(from + i - 1)]
    BY SlotsType
  <1>2. /\ r \in Seq(Values) /\ Len(r) = to + 1 - from
        /\ \A i \in 1 .. to + 1 - from : r[i] = b[Slot(from + i - 1)]
    BY SlotsType
  <1> HIDE DEF s, r
  <1>3. from + (to + 1 - from) - 1 = to /\ b[Slot(to)] \in Values
    OBVIOUS
  <1>4. r[to + 1 - from] = b[Slot(to)]
    <2>1. to + 1 - from \in 1 .. to + 1 - from
      OBVIOUS
    <2> QED BY <1>2, <1>3, <2>1
  <1>5. \A i \in 1 .. Len(s) : r[i] = s[i]
    BY <1>1, <1>2
  <1>6. Len(r) = Len(s) + 1 /\ Len(s) \in Nat
    BY <1>1, <1>2
  <1>7. r[Len(s) + 1] = b[Slot(to)]
    BY <1>1, <1>4
  <1>8. r = Append(s, b[Slot(to)])
    BY <1>1, <1>2, <1>3, <1>5, <1>6, <1>7
  <1> QED BY <1>8 DEF s, r

\* One index more at the top is a task before the others.
LEMMA SlotsTail ==
  ASSUME NEW b, NEW from \in Int, NEW to \in Int, from < to,
         \A i \in Int : b[Slot(i)] \in Values
  PROVE  /\ Slots(b, from, to) # <<>>
         /\ Head(Slots(b, from, to)) = b[Slot(from)]
         /\ Slots(b, from + 1, to) = Tail(Slots(b, from, to))
  <1> DEFINE s == Slots(b, from, to)
             r == Slots(b, from + 1, to)
  <1>1. /\ s \in Seq(Values) /\ Len(s) = to - from
        /\ \A i \in 1 .. to - from : s[i] = b[Slot(from + i - 1)]
    BY SlotsType
  <1>2. /\ r \in Seq(Values) /\ Len(r) = to - (from + 1)
        /\ \A i \in 1 .. to - (from + 1) : r[i] = b[Slot((from + 1) + i - 1)]
    BY SlotsType
  <1> HIDE DEF s, r
  <1>3. s # <<>> /\ Head(s) = b[Slot(from)]
    BY <1>1
  <1>4. \A i \in 1 .. Len(r) : r[i] = s[i + 1]
    <2> SUFFICES ASSUME NEW i \in 1 .. Len(r)
                 PROVE  r[i] = s[i + 1]
      OBVIOUS
    <2>1. i + 1 \in 1 .. to - from /\ (from + 1) + i - 1 = from + (i + 1) - 1
      BY <1>2
    <2> QED BY <1>1, <1>2, <2>1
  <1>5. r = Tail(s)
    BY <1>1, <1>2, <1>3, <1>4
  <1> QED BY <1>3, <1>5 DEF s, r

\* What is written to other slots is not seen.
LEMMA SlotsUnchanged ==
  ASSUME NEW b, NEW c, NEW from \in Int, NEW to \in Int,
         \A i \in from .. to - 1 : c[Slot(i)] = b[Slot(i)]
  PROVE  Slots(c, from, to) = Slots(b, from, to)
  <1>1. \A i \in 1 .. to - from : from + i - 1 \in from .. to - 1
    OBVIOUS
  <1> QED BY <1>1 DEF Slots

LEMMA BufferType ==
  ASSUME TypeOK
  PROVE  /\ \A i \in Int : buffer[Slot(i)] \in Values
         /\ top \in Int /\ bottom \in Int /\ QueueEnd \in Int
  BY SlotValue DEF TypeOK, QueueEnd

LEMMA Unobserved ==
  ASSUME UNCHANGED <<Content, todo, rejected, TakenOrOwned>>
  PROVE  UNCHANGED Deque!vars
  BY DEF Deque!vars, Content, Slots

LEMMA PushImplements ==
  ASSUME IInv, ~ RemotePush, PushStep
  PROVE  [Deque!Next]_(Deque!vars)
  <1>1. /\ \A i \in Int : buffer[Slot(i)] \in Values
        /\ top \in Int /\ bottom \in Int /\ QueueEnd \in Int
    BY BufferType DEF IInv
  <1>2. ASSUME push.pc # "idle"
        PROVE  /\ pop.pc = "idle" /\ push.bottom = bottom /\ push.task \in todo
               /\ push.task \in Tasks
               /\ top <= bottom /\ bottom - top <= Size /\ QueueEnd = bottom
    BY <1>2 DEF IInv, OwnerInv, PopInv, LiveEnd, QueueEnd, TypeOK
  <1>3. UNCHANGED <<top, pop, taken>>
    BY DEF PushStep, PushLoadBottom, PushFull, PushLoadTop, PushStoreFirstWord,
           PushStoreSecondWord, PushPublish
  <1>4. ASSUME push.pc # "idle"
        PROVE  UNCHANGED TakenOrOwned
    BY <1>2, <1>3, <1>4 DEF TakenOrOwned, OwnsBottom
  <1>5. CASE (\E t \in Tasks : PushLoadBottom(t)) \/ PushLoadTop
    <2>1. UNCHANGED <<buffer, top, bottom, pop, todo, rejected, taken>>
      BY <1>5 DEF PushLoadBottom, PushLoadTop
    <2>2. UNCHANGED <<Content, TakenOrOwned>>
      BY <2>1 DEF Content, Slots, QueueEnd, OwnsBottom, TakenOrOwned
    <2> QED BY <2>1, <2>2, Unobserved
  <1>6. CASE PushStoreFirstWord \/ PushStoreSecondWord
    <2>1. /\ push.pc \in {"store", "storing", "publish"}
          /\ UNCHANGED <<bottom, todo, rejected>>
      BY <1>6 DEF PushStoreFirstWord, PushStoreSecondWord
    <2>2. \A i \in top .. bottom - 1 : buffer'[Slot(i)] = buffer[Slot(i)]
      <3> SUFFICES ASSUME NEW i \in top .. bottom - 1
                   PROVE  buffer'[Slot(i)] = buffer[Slot(i)]
        OBVIOUS
      <3>1. i \in Live
        BY <1>2, <2>1 DEF Live, LiveEnd
      <3>2. Slot(i) # Slot(bottom)
        BY <2>1, <3>1, FreeSlot
      <3>3. push.bottom = bottom
        BY <1>2, <2>1
      <3>4. PICK v : buffer' = [buffer EXCEPT ![Slot(bottom)] = v]
        BY <1>6, <3>3 DEF PushStoreFirstWord, PushStoreSecondWord
      <3> QED BY <3>2, <3>4
    <2>3. QueueEnd = bottom /\ QueueEnd' = bottom
      BY <1>2, <1>3, <2>1 DEF QueueEnd
    <2>4. UNCHANGED Content
      BY <1>1, <1>3, <2>2, <2>3, SlotsUnchanged DEF Content
    <2> QED BY <1>4, <2>1, <2>4, Unobserved
  <1>7. CASE PushFull
    <2>1. /\ push.pc = "loadTop" /\ push.bottom - top >= Size
          /\ UNCHANGED <<buffer, bottom>>
          /\ todo' = todo \ {push.task} /\ rejected' = rejected \cup {push.task}
      BY <1>7 DEF PushFull
    <2>2. Len(Content) = Size
      <3>1. top <= bottom /\ QueueEnd = bottom
        BY <1>2, <2>1
      <3>2. Len(Slots(buffer, top, QueueEnd)) = QueueEnd - top
        BY <1>1, <3>1, SlotsType
      <3>3. Len(Content) = bottom - top
        BY <3>1, <3>2 DEF Content
      <3> QED BY <1>1, <1>2, <2>1, <3>3, SizeAssumption
    <2>3. UNCHANGED <<Content, TakenOrOwned>>
      BY <1>3, <1>4, <2>1 DEF Content, Slots, QueueEnd, OwnsBottom
    <2>4. push.task \in todo /\ push.task \in Tasks
      BY <1>2, <2>1
    <2>5. Deque!RejectPush(push.task)
      BY <2>1, <2>2, <2>3, <2>4 DEF Deque!RejectPush, Content, Slots
    <2> QED BY <2>4, <2>5 DEF Deque!Next, Deque!RejectPush
  <1>8. CASE PushPublish
    <2>1. /\ push.pc = "publish" /\ bottom' = push.bottom + 1
          /\ UNCHANGED <<buffer, rejected>>
          /\ todo' = todo \ {push.task}
      BY <1>8 DEF PushPublish
    <2>2. PICK t \in Tasks : t = push.task
      BY <1>2, <2>1
    <2>3. bottom - top < Size /\ buffer[Slot(bottom)] = t
      BY <2>1, <2>2 DEF IInv, OwnerInv
    <2>4. QueueEnd = bottom /\ QueueEnd' = bottom + 1
      BY <1>2, <1>3, <2>1 DEF QueueEnd
    <2>5. Len(Content) < Size
      <3>1. top <= bottom /\ QueueEnd = bottom
        BY <1>2, <2>1
      <3>2. Len(Slots(buffer, top, QueueEnd)) = QueueEnd - top
        BY <1>1, <3>1, SlotsType
      <3>3. Len(Content) = bottom - top
        BY <3>1, <3>2 DEF Content
      <3> QED BY <2>3, <3>3
    <2>6. Content' = Append(Content, t)
      <3>1. Slots(buffer, top, bottom + 1) = Append(Slots(buffer, top, bottom), t)
        BY <1>1, <1>2, <2>1, <2>3, SlotsAppend
      <3> QED BY <1>3, <2>1, <2>4, <3>1 DEF Content
    <2>7. t \in todo /\ UNCHANGED TakenOrOwned
      BY <1>2, <1>4, <2>1, <2>2
    <2>8. Deque!PushBottom(t)
      BY <2>1, <2>2, <2>5, <2>6, <2>7 DEF Deque!PushBottom, Content, Slots
    <2> QED BY <2>8 DEF Deque!Next
  <1> QED BY <1>5, <1>6, <1>7, <1>8 DEF PushStep

\* Between the steps at which a pop takes effect the content stays the same: an
\* index the owner has given up belongs to the queue, or the queue is empty.
LEMMA PopImplements ==
  ASSUME IInv, ~ RemotePush, PopStep
  PROVE  [Deque!Next]_(Deque!vars)
  <1>1. /\ \A i \in Int : buffer[Slot(i)] \in Values
        /\ top \in Int /\ bottom \in Int /\ QueueEnd \in Int
        /\ pop \in PopState /\ taken \in [Values -> Nat]
    BY BufferType DEF IInv, TypeOK
  <1>2. UNCHANGED <<buffer, todo, rejected>>
    BY DEF PopStep, PopDecrement, PopLoadTop, PopRestore, PopReadOwned, PopReadLast, PopCASWon,
           PopCASLost, PopReset
  <1>3. ASSUME UNCHANGED taken, ~ OwnsBottom, ~ OwnsBottom'
        PROVE  UNCHANGED TakenOrOwned
    BY <1>3 DEF TakenOrOwned
  \* The queue is empty before and after.
  <1>4. ASSUME QueueEnd <= top, QueueEnd' <= top', top' \in Int, QueueEnd' \in Int
        PROVE  UNCHANGED Content
    <2>1. Slots(buffer, top, QueueEnd) = <<>>
      BY <1>1, <1>4, NoSlots
    <2>2. Slots(buffer', top', QueueEnd') = <<>>
      BY <1>4, NoSlots
    <2> QED BY <2>1, <2>2 DEF Content
  <1>5. CASE PopDecrement
    <2>1. /\ pop.pc = "idle" /\ bottom' = bottom - 1 /\ pop'.pc = "loadTop"
          /\ UNCHANGED <<top, taken>>
      BY <1>1, <1>5 DEF PopDecrement, PopState
    <2>2. QueueEnd' = QueueEnd /\ ~ OwnsBottom /\ ~ OwnsBottom'
      BY <1>1, <2>1 DEF QueueEnd, OwnsBottom
    <2>3. UNCHANGED Content
      BY <1>2, <2>1, <2>2 DEF Content
    <2> QED BY <1>2, <1>3, <2>1, <2>2, <2>3, Unobserved
  <1>6. CASE PopLoadTop
    <2>1. /\ pop.pc = "loadTop" /\ pop.bottom = bottom /\ top <= bottom + 1
          /\ pop'.pc = (IF bottom < top THEN "restore" ELSE "read")
          /\ pop'.bottom = bottom /\ pop'.top = top
          /\ UNCHANGED <<top, bottom, taken>>
      BY <1>1, <1>6 DEF PopLoadTop, PopState, IInv, OwnerInv, PopInv
    <2>2. QueueEnd = bottom + 1 /\ ~ OwnsBottom
      BY <2>1 DEF QueueEnd, OwnsBottom
    <2>3. CASE bottom < top
      <3>1. QueueEnd' = bottom /\ ~ OwnsBottom'
        BY <2>1, <2>3 DEF QueueEnd, OwnsBottom
      <3>2. UNCHANGED Content
        BY <1>1, <1>4, <2>1, <2>2, <2>3, <3>1
      <3> QED BY <1>2, <1>3, <2>1, <2>2, <3>1, <3>2, Unobserved
    <2>4. CASE bottom = top
      <3>1. QueueEnd' = bottom + 1 /\ ~ OwnsBottom'
        BY <1>1, <2>1, <2>4 DEF QueueEnd, OwnsBottom
      <3>2. UNCHANGED Content
        BY <1>2, <2>1, <2>2, <3>1 DEF Content
      <3> QED BY <1>2, <1>3, <2>1, <2>2, <3>1, <3>2, Unobserved
    <2>5. CASE bottom > top
      <3>1. QueueEnd' = bottom /\ OwnsBottom'
        BY <1>1, <2>1, <2>5 DEF QueueEnd, OwnsBottom
      <3>2. Content' = Slots(buffer, top, bottom)
        BY <1>2, <2>1, <3>1 DEF Content
      <3>3. Content = Append(Content', buffer[Slot(bottom)])
        <4>1. Slots(buffer, top, bottom + 1) =
                Append(Slots(buffer, top, bottom), buffer[Slot(bottom)])
          BY <1>1, <2>5, SlotsAppend
        <4> QED BY <2>2, <3>2, <4>1 DEF Content
      <3>4. Content' \in Seq(Values) /\ buffer[Slot(bottom)] \in Values
        BY <1>1, <2>5, <3>2, SlotsType
      <3>5. /\ Content # <<>> /\ Content[Len(Content)] = buffer[Slot(bottom)]
            /\ Content' = SubSeq(Content, 1, Len(Content) - 1)
        BY <3>3, <3>4
      <3>6. TakenOrOwned' = [TakenOrOwned EXCEPT ![buffer[Slot(bottom)]] = @ + 1]
        <4>1. TakenOrOwned = [t \in Tasks |-> taken[t]]
          BY <2>2 DEF TakenOrOwned
        <4>2. TakenOrOwned' = [t \in Tasks |-> IF buffer[Slot(bottom)] = t THEN taken[t] + 1
                                                                         ELSE taken[t]]
          BY <1>2, <2>1, <3>1 DEF TakenOrOwned
        <4> QED BY <4>1, <4>2
      <3>7. Deque!PopBottom
        BY <1>2, <3>5, <3>6 DEF Deque!PopBottom, Deque!Take, Content, Slots
      <3> QED BY <3>7 DEF Deque!Next
    <2> QED BY <1>1, <2>3, <2>4, <2>5
  <1>7. CASE PopRestore
    <2>1. /\ pop.pc = "restore" /\ top = bottom + 1 /\ bottom' = top /\ pop'.pc = "idle"
          /\ UNCHANGED <<top, taken>>
      BY <1>1, <1>7 DEF PopRestore, PopState, IInv, PopInv
    <2>2. QueueEnd = bottom /\ QueueEnd' = top /\ ~ OwnsBottom /\ ~ OwnsBottom'
      BY <2>1 DEF QueueEnd, OwnsBottom
    <2>3. UNCHANGED Content
      BY <1>1, <1>4, <2>1, <2>2
    <2> QED BY <1>2, <1>3, <2>1, <2>2, <2>3, Unobserved
  <1>8. CASE PopReadOwned
    <2>1. /\ OwnsBottom /\ pop'.pc = "idle" /\ UNCHANGED <<top, bottom>>
          /\ taken' = [taken EXCEPT ![buffer[Slot(pop.bottom)]] = @ + 1]
      BY <1>1, <1>8 DEF PopReadOwned, PopState, OwnsBottom, Take
    <2>2. QueueEnd = bottom /\ QueueEnd' = bottom /\ ~ OwnsBottom'
      BY <2>1 DEF QueueEnd, OwnsBottom
    <2>3. UNCHANGED Content
      BY <1>2, <2>1, <2>2 DEF Content
    <2>4. UNCHANGED TakenOrOwned
      <3>1. \A t \in Tasks : taken'[t] = IF buffer[Slot(pop.bottom)] = t
                                         THEN taken[t] + 1 ELSE taken[t]
        BY <1>1, <2>1 DEF Values
      <3>2. TakenOrOwned' = [t \in Tasks |-> taken'[t]]
        BY <2>2 DEF TakenOrOwned
      <3>3. TakenOrOwned = [t \in Tasks |-> IF buffer[Slot(pop.bottom)] = t
                                            THEN taken[t] + 1 ELSE taken[t]]
        BY <2>1 DEF TakenOrOwned
      <3> QED BY <3>1, <3>2, <3>3
    <2> QED BY <1>2, <2>3, <2>4, Unobserved
  <1>9. CASE PopReadLast
    <2>1. /\ pop.pc = "read" /\ pop.bottom = pop.top /\ pop'.pc = "cas"
          /\ UNCHANGED <<top, bottom, taken>>
      BY <1>1, <1>9 DEF PopReadLast, PopState
    <2>2. QueueEnd' = QueueEnd /\ ~ OwnsBottom /\ ~ OwnsBottom'
      BY <1>1, <2>1 DEF QueueEnd, OwnsBottom, PopState
    <2>3. UNCHANGED Content
      BY <1>2, <2>1, <2>2 DEF Content
    <2> QED BY <1>2, <1>3, <2>1, <2>2, <2>3, Unobserved
  <1>10. CASE PopCASWon
    <2>1. /\ pop.pc = "cas" /\ top = bottom /\ pop.task = buffer[Slot(top)]
          /\ top' = top + 1 /\ pop'.pc = "reset" /\ UNCHANGED bottom
          /\ taken' = [taken EXCEPT ![buffer[Slot(top)]] = @ + 1]
      BY <1>1, <1>10 DEF PopCASWon, PopState, IInv, PopInv, Take
    <2>2. QueueEnd = bottom + 1 /\ QueueEnd' = bottom /\ ~ OwnsBottom /\ ~ OwnsBottom'
      BY <2>1 DEF QueueEnd, OwnsBottom
    <2>3. /\ Content # <<>> /\ Head(Content) = buffer[Slot(top)]
          /\ Slots(buffer, top + 1, bottom + 1) = Tail(Content)
      BY <1>1, <2>1, <2>2, SlotsTail DEF Content
    <2>4. Content' = Tail(Content)
      <3>1. Slots(buffer, top + 1, bottom + 1) = <<>> /\ Slots(buffer, top + 1, bottom) = <<>>
        BY <1>1, <2>1, NoSlots
      <3> QED BY <1>2, <2>1, <2>2, <2>3, <3>1 DEF Content
    <2>5. TakenOrOwned' = [TakenOrOwned EXCEPT ![buffer[Slot(top)]] = @ + 1]
      BY <1>1, <2>1, <2>2 DEF TakenOrOwned, Values
    <2>6. Deque!PopTop
      BY <1>2, <2>3, <2>4, <2>5 DEF Deque!PopTop, Deque!Take, Content, Slots
    <2> QED BY <2>6 DEF Deque!Next
  <1>11. CASE PopCASLost
    <2>1. /\ pop.pc = "cas" /\ top = bottom + 1 /\ pop'.pc = "reset"
          /\ UNCHANGED <<top, bottom, taken>>
      BY <1>1, <1>11 DEF PopCASLost, PopState, IInv, PopInv
    <2>2. QueueEnd = bottom + 1 /\ QueueEnd' = bottom /\ ~ OwnsBottom /\ ~ OwnsBottom'
      BY <2>1 DEF QueueEnd, OwnsBottom
    <2>3. UNCHANGED Content
      BY <1>1, <1>4, <2>1, <2>2
    <2> QED BY <1>2, <1>3, <2>1, <2>2, <2>3, Unobserved
  <1>12. CASE PopReset
    <2>1. /\ pop.pc = "reset" /\ top = bottom + 1 /\ bottom' = top /\ pop'.pc = "idle"
          /\ UNCHANGED <<top, taken>>
      BY <1>1, <1>12 DEF PopReset, PopState, IInv, PopInv
    <2>2. QueueEnd = bottom /\ QueueEnd' = top /\ ~ OwnsBottom /\ ~ OwnsBottom'
      BY <2>1 DEF QueueEnd, OwnsBottom
    <2>3. UNCHANGED Content
      BY <1>1, <1>4, <2>1, <2>2
    <2> QED BY <1>2, <1>3, <2>1, <2>2, <2>3, Unobserved
  <1> QED BY <1>5, <1>6, <1>7, <1>8, <1>9, <1>10, <1>11, <1>12 DEF PopStep

LEMMA StealImplements ==
  ASSUME IInv, NEW th \in Thieves, StealStep(th)
  PROVE  [Deque!Next]_(Deque!vars)
  <1>1. /\ \A i \in Int : buffer[Slot(i)] \in Values
        /\ top \in Int /\ bottom \in Int /\ QueueEnd \in Int
        /\ taken \in [Values -> Nat]
    BY BufferType DEF IInv, TypeOK
  <1>2. /\ UNCHANGED <<buffer, bottom, pop, todo, rejected>>
        /\ QueueEnd' = QueueEnd /\ OwnsBottom' = OwnsBottom
    BY DEF StealStep, StealLoadTop, StealLoadBottom, StealRead, StealCASWon, StealCASLost,
           QueueEnd, OwnsBottom
  <1>3. CASE UNCHANGED <<top, taken>>
    <2>1. UNCHANGED <<Content, TakenOrOwned>>
      BY <1>2, <1>3 DEF Content, TakenOrOwned
    <2> QED BY <1>2, <2>1, Unobserved
  <1>4. CASE StealCASWon(th)
    <2>1. /\ top < QueueEnd /\ top' = top + 1
          /\ taken' = [taken EXCEPT ![buffer[Slot(top)]] = @ + 1]
      BY <1>4 DEF StealCASWon, IInv, StealInv, Take
    <2>2. /\ Content # <<>> /\ Head(Content) = buffer[Slot(top)]
          /\ Content' = Tail(Content)
      BY <1>1, <1>2, <2>1, SlotsTail DEF Content
    <2>3. TakenOrOwned' = [TakenOrOwned EXCEPT ![buffer[Slot(top)]] = @ + 1]
      <3> DEFINE owned(t) == OwnsBottom /\ buffer[Slot(pop.bottom)] = t
      <3>1. TakenOrOwned = [t \in Tasks |-> IF owned(t) THEN taken[t] + 1 ELSE taken[t]]
        BY DEF TakenOrOwned
      <3>2. TakenOrOwned' = [t \in Tasks |-> IF owned(t) THEN taken'[t] + 1 ELSE taken'[t]]
        BY <1>2 DEF TakenOrOwned
      <3> HIDE DEF owned
      <3>3. \A t \in Tasks : /\ taken[t] \in Nat
                            /\ taken'[t] = IF t = buffer[Slot(top)] THEN taken[t] + 1
                                                                   ELSE taken[t]
        BY <1>1, <2>1 DEF Values
      <3>4. [TakenOrOwned EXCEPT ![buffer[Slot(top)]] = @ + 1] =
              [t \in Tasks |-> IF t = buffer[Slot(top)] THEN TakenOrOwned[t] + 1
                                                        ELSE TakenOrOwned[t]]
        BY <3>1
      <3> QED BY <3>1, <3>2, <3>3, <3>4
    <2>4. Deque!PopTop
      BY <1>2, <2>2, <2>3 DEF Deque!PopTop, Deque!Take, Content, Slots
    <2> QED BY <2>4 DEF Deque!Next
  <1> QED BY <1>3, <1>4 DEF StealStep, StealLoadTop, StealLoadBottom, StealRead, StealCASLost

\* Used from its local end, the queue is an atomic deque: every step of a push or a
\* pop is one operation of the deque or changes nothing of it.
THEOREM Refinement ==
  ASSUME ~ RemotePush
  PROVE  Spec => RefinesTaskDeque
  <1>1. Init => Deque!Init
    <2> SUFFICES ASSUME Init
                 PROVE  Deque!Init
      OBVIOUS
    <2>1. QueueEnd = 0 /\ top = 0 /\ ~ OwnsBottom
      BY DEF Init, QueueEnd, OwnsBottom
    <2>2. Content = <<>>
      BY <2>1, NoSlots DEF Content
    <2>3. TakenOrOwned = [t \in Tasks |-> 0]
      BY <2>1 DEF Init, TakenOrOwned, Values
    <2> QED BY <2>2, <2>3 DEF Init, Deque!Init, Content, Slots
  <1>2. IInv /\ [Next]_vars => [Deque!Next]_(Deque!vars)
    <2> SUFFICES ASSUME IInv, [Next]_vars
                 PROVE  [Deque!Next]_(Deque!vars)
      OBVIOUS
    <2>1. CASE UNCHANGED vars
      <3>1. UNCHANGED <<Content, todo, rejected, TakenOrOwned>>
        BY <2>1 DEF vars, Content, Slots, QueueEnd, OwnsBottom, TakenOrOwned
      <3> QED BY <3>1, Unobserved
    <2> QED BY <2>1, PushImplements, PopImplements, StealImplements DEF Next
  <1> QED BY <1>1, <1>2, Consistency, PTL DEF Spec, RefinesTaskDeque, Deque!Spec

================================================================================
