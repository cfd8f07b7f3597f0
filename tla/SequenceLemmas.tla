----------------------------- MODULE SequenceLemmas -----------------------------
(***************************************************************************)
(* Facts about sequences, selections and powers of two that the proofs of  *)
(* several components need.  Most say what an operation does to the set of *)
(* the elements and to the absence of repetitions.                         *)
(***************************************************************************)
EXTENDS SequencesExt, Selection, FiniteSetTheorems, TLAPS

(* Induction over the natural numbers, for a set instead of a predicate: the least    *)
(* element outside S would have a predecessor in S.                                   *)
LEMMA NatSetInduction ==
  ASSUME NEW S, 0 \in S, \A n \in Nat : n \in S => n + 1 \in S
  PROVE  Nat \subseteq S
  <1> SUFFICES ASSUME NEW k \in Nat, k \notin S
               PROVE  FALSE
    OBVIOUS
  <1> DEFINE R == StrictSubsetOrdering(Nat)
             T == {U \in FiniteSubsetsOf(Nat) : \E n \in Nat \ S : U = 0 .. n - 1}
  <1>1. \A n \in Nat : 0 .. n - 1 \in FiniteSubsetsOf(Nat)
    BY FS_Interval DEF FiniteSubsetsOf
  <1>2. IsWellFoundedOn(R, FiniteSubsetsOf(Nat))
    BY FS_StrictSubsetOrderingWellFounded
  <1>3. T # {} /\ T \subseteq FiniteSubsetsOf(Nat)
    BY <1>1
  <1>4. PICK U \in T : \A V \in T : <<V, U>> \notin R
    <2> HIDE DEF T, R
    <2> QED BY <1>2, <1>3, WFMin
  <1>5. PICK n \in Nat \ S : U = 0 .. n - 1
    BY <1>4
  <1>6. n - 1 \in Nat /\ n - 1 \notin S
    <2>1. n # 0
      OBVIOUS
    <2>2. n - 1 \in Nat /\ (n - 1) + 1 = n
      BY <2>1
    <2> QED
      BY <2>2
  <1>7. 0 .. n - 2 \in T
    <2>1. 0 .. n - 2 = 0 .. (n - 1) - 1
      OBVIOUS
    <2> QED
      BY <1>1, <1>6, <2>1
  <1>8. <<0 .. n - 2, U>> \in R
    <2>1. 0 .. n - 2 \subseteq 0 .. n - 1 /\ n - 1 \notin 0 .. n - 2 /\ n - 1 \in 0 .. n - 1
      BY <1>6
    <2> QED BY <1>5, <1>6, <2>1 DEF StrictSubsetOrdering
  <1> QED
    BY <1>4, <1>7, <1>8

(* A nonempty set of natural numbers has a least element. *)
LEMMA MinOfNats ==
  ASSUME NEW S \in SUBSET Nat, S # {}
  PROVE  Min(S) \in S /\ \A n \in S : Min(S) <= n
  <1> DEFINE N == {n \in Nat : (\E k \in S : k <= n) => \E m \in S : \A k \in S : m <= k}
  <1>1. 0 \in N
    <2> SUFFICES ASSUME NEW k \in S, k <= 0
                 PROVE  \E m \in S : \A j \in S : m <= j
      OBVIOUS
    <2>1. k = 0
      OBVIOUS
    <2> QED BY <2>1
  <1>2. \A n \in Nat : n \in N => n + 1 \in N
    <2> SUFFICES ASSUME NEW n \in Nat, n \in N, NEW k \in S, k <= n + 1
                 PROVE  \E m \in S : \A j \in S : m <= j
      OBVIOUS
    <2>1. CASE \E j \in S : j <= n
      BY <2>1
    <2>2. CASE \A j \in S : n + 1 <= j
      BY <2>2
    <2> QED BY <2>1, <2>2
  <1>3. Nat \subseteq N
    <2> HIDE DEF N
    <2> QED BY <1>1, <1>2, NatSetInduction
  <1>4. \E m \in S : \A n \in S : m <= n
    <2>1. PICK k \in S : k \in Nat
      OBVIOUS
    <2>2. k \in N
      BY <1>3, <2>1
    <2> QED BY <2>1, <2>2
  <1> QED BY <1>4 DEF Min

LEMMA MinOfTwo ==
  ASSUME NEW a \in Nat, NEW b \in Nat
  PROVE  Min({a, b}) = IF a <= b THEN a ELSE b
  <1>1. Min({a, b}) \in {a, b} /\ \A n \in {a, b} : Min({a, b}) <= n
    BY MinOfNats
  <1> QED BY <1>1

LEMMA MinOfOne ==
  ASSUME NEW a \in Nat
  PROVE  Min({a}) = a
  <1>1. Min({a}) \in {a}
    BY MinOfNats
  <1> QED BY <1>1

--------------------------------------------------------------------------------
(* Elements and repetitions *)

LEMMA EmptyFacts ==
  ToSet(<<>>) = {} /\ IsInjective(<<>>)
  BY DEF ToSet, IsInjective

LEMMA AppendFacts ==
  ASSUME NEW T, NEW s \in Seq(T), NEW e \in T
  PROVE  /\ Append(s, e) \in Seq(T)
         /\ ToSet(Append(s, e)) = ToSet(s) \cup {e}
         /\ IsInjective(s) /\ e \notin ToSet(s) => IsInjective(Append(s, e))
  <1>1. ToSet(Append(s, e)) \subseteq ToSet(s) \cup {e}
    BY DEF ToSet
  <1>2. ToSet(s) \subseteq ToSet(Append(s, e))
    BY DEF ToSet
  <1>3. e \in ToSet(Append(s, e))
    <2>1. Len(s) + 1 \in DOMAIN Append(s, e) /\ Append(s, e)[Len(s) + 1] = e
      OBVIOUS
    <2> QED BY <2>1 DEF ToSet
  <1>4. IsInjective(s) /\ e \notin ToSet(s) => IsInjective(Append(s, e))
    BY DEF ToSet, IsInjective
  <1> QED BY <1>1, <1>2, <1>3, <1>4

LEMMA ConcatFacts ==
  ASSUME NEW T, NEW s \in Seq(T), NEW r \in Seq(T)
  PROVE  /\ s \o r \in Seq(T)
         /\ ToSet(s \o r) = ToSet(s) \cup ToSet(r)
         /\ IsInjective(s) /\ IsInjective(r) /\ ToSet(s) \cap ToSet(r) = {}
              => IsInjective(s \o r)
  <1>1. ToSet(s \o r) \subseteq ToSet(s) \cup ToSet(r)
    BY DEF ToSet
  <1>2. ToSet(s) \subseteq ToSet(s \o r)
    BY DEF ToSet
  <1>3. ToSet(r) \subseteq ToSet(s \o r)
    <2>1. \A i \in 1 .. Len(r) :
            Len(s) + i \in 1 .. Len(s \o r) /\ (s \o r)[Len(s) + i] = r[i]
      OBVIOUS
    <2> QED BY <2>1 DEF ToSet
  <1>4. IsInjective(s) /\ IsInjective(r) /\ ToSet(s) \cap ToSet(r) = {}
          => IsInjective(s \o r)
    <2> SUFFICES ASSUME IsInjective(s), IsInjective(r), ToSet(s) \cap ToSet(r) = {},
                        NEW i \in 1 .. Len(s \o r), NEW j \in 1 .. Len(s \o r),
                        i < j, (s \o r)[i] = (s \o r)[j]
                 PROVE  FALSE
      BY DEF IsInjective
    <2>1. CASE j <= Len(s)
      <3>1. i \in DOMAIN s /\ j \in DOMAIN s /\ s[i] = s[j]
        BY <2>1
      <3> QED BY <3>1 DEF IsInjective
    <2>2. CASE i <= Len(s) /\ j > Len(s)
      <3>1. i \in DOMAIN s /\ j - Len(s) \in DOMAIN r /\ s[i] = r[j - Len(s)]
        BY <2>2
      <3> QED BY <3>1 DEF ToSet
    <2>3. CASE i > Len(s)
      <3>1. i - Len(s) \in DOMAIN r /\ j - Len(s) \in DOMAIN r
            /\ r[i - Len(s)] = r[j - Len(s)] /\ i - Len(s) # j - Len(s)
        BY <2>3
      <3> QED BY <3>1 DEF IsInjective
    <2> QED BY <2>1, <2>2, <2>3
  <1> QED BY <1>1, <1>2, <1>3, <1>4

(* The first k elements: no more and no repetition. *)
LEMMA PrefixFacts ==
  ASSUME NEW T, NEW s \in Seq(T), NEW k \in 0 .. Len(s)
  PROVE  /\ SubSeq(s, 1, k) \in Seq(T)
         /\ Len(SubSeq(s, 1, k)) = k
         /\ \A j \in 1 .. k : SubSeq(s, 1, k)[j] = s[j]
         /\ ToSet(SubSeq(s, 1, k)) \subseteq ToSet(s)
         /\ IsInjective(s) => IsInjective(SubSeq(s, 1, k))
         /\ k = Len(s) => SubSeq(s, 1, k) = s
  <1> DEFINE p == SubSeq(s, 1, k)
  <1>1. /\ p \in Seq(T) /\ Len(p) = k /\ DOMAIN p = 1 .. k
        /\ \A j \in 1 .. k : p[j] = s[j]
    OBVIOUS
  <1>2. DOMAIN s = 1 .. Len(s) /\ 1 .. k \subseteq 1 .. Len(s)
    OBVIOUS
  <1> HIDE DEF p
  <1>3. ToSet(p) \subseteq ToSet(s)
    BY <1>1, <1>2 DEF ToSet
  <1>4. IsInjective(s) => IsInjective(p)
    BY <1>1, <1>2 DEF IsInjective
  <1>5. k = Len(s) => p = s
    BY <1>1, <1>2
  <1> QED BY <1>1, <1>3, <1>4, <1>5 DEF p

LEMMA TailFacts ==
  ASSUME NEW T, NEW s \in Seq(T), s # <<>>
  PROVE  /\ Head(s) \in T /\ Tail(s) \in Seq(T) /\ Len(Tail(s)) = Len(s) - 1
         /\ ToSet(s) = ToSet(Tail(s)) \cup {Head(s)}
         /\ IsInjective(s) => IsInjective(Tail(s)) /\ Head(s) \notin ToSet(Tail(s))
  <1>1. Head(s) \in T /\ Tail(s) \in Seq(T) /\ Len(Tail(s)) = Len(s) - 1
    OBVIOUS
  <1>2. ToSet(s) \subseteq ToSet(Tail(s)) \cup {Head(s)}
    <2> SUFFICES ASSUME NEW i \in 1 .. Len(s)
                 PROVE  s[i] \in ToSet(Tail(s)) \cup {Head(s)}
      BY DEF ToSet
    <2>1. CASE i = 1
      BY <2>1
    <2>2. CASE i # 1
      <3>1. i - 1 \in DOMAIN Tail(s) /\ Tail(s)[i - 1] = s[i]
        BY <2>2
      <3> QED BY <3>1 DEF ToSet
    <2> QED BY <2>1, <2>2
  <1>3. ToSet(Tail(s)) \cup {Head(s)} \subseteq ToSet(s)
    BY DEF ToSet
  <1>4. IsInjective(s) => IsInjective(Tail(s)) /\ Head(s) \notin ToSet(Tail(s))
    BY DEF ToSet, IsInjective
  <1> QED BY <1>1, <1>2, <1>3, <1>4

(* Removing the i-th element. *)
LEMMA RemoveAtFacts ==
  ASSUME NEW T, NEW s \in Seq(T), NEW i \in 1 .. Len(s)
  PROVE  /\ RemoveAt(s, i) \in Seq(T) /\ Len(RemoveAt(s, i)) = Len(s) - 1
         /\ s[i] \in ToSet(s)
         /\ ToSet(s) = ToSet(RemoveAt(s, i)) \cup {s[i]}
         /\ IsInjective(s) => IsInjective(RemoveAt(s, i)) /\ s[i] \notin ToSet(RemoveAt(s, i))
  <1> DEFINE r == RemoveAt(s, i)
  <1>1. /\ r \in Seq(T) /\ Len(r) = Len(s) - 1
        /\ \A j \in 1 .. Len(r) : r[j] = IF j < i THEN s[j] ELSE s[j + 1]
    <2>1. /\ SubSeq(s, 1, i - 1) \in Seq(T) /\ Len(SubSeq(s, 1, i - 1)) = i - 1
          /\ \A j \in 1 .. i - 1 : SubSeq(s, 1, i - 1)[j] = s[j]
      OBVIOUS
    <2>2. /\ SubSeq(s, i + 1, Len(s)) \in Seq(T)
          /\ Len(SubSeq(s, i + 1, Len(s))) = Len(s) - i
          /\ \A j \in 1 .. Len(s) - i : SubSeq(s, i + 1, Len(s))[j] = s[j + i]
      OBVIOUS
    <2> DEFINE a == SubSeq(s, 1, i - 1)
               b == SubSeq(s, i + 1, Len(s))
    <2> HIDE DEF a, b
    <2>3. /\ a \o b \in Seq(T) /\ Len(a \o b) = Len(a) + Len(b)
          /\ \A j \in 1 .. Len(a) + Len(b) :
               (a \o b)[j] = IF j <= Len(a) THEN a[j] ELSE b[j - Len(a)]
      <3>1. a \in Seq(T) /\ b \in Seq(T)
        BY <2>1, <2>2 DEF a, b
      <3> QED BY <3>1
    <2>4. /\ a \o b \in Seq(T) /\ Len(a \o b) = Len(s) - 1
          /\ \A j \in 1 .. Len(s) - 1 :
               (a \o b)[j] = IF j < i THEN s[j] ELSE s[j + 1]
      <3>1. Len(a) = i - 1 /\ Len(b) = Len(s) - i
        BY <2>1, <2>2 DEF a, b
      <3>2. ASSUME NEW j \in 1 .. Len(s) - 1
            PROVE  (a \o b)[j] = IF j < i THEN s[j] ELSE s[j + 1]
        <4>1. CASE j < i
          <5>1. a[j] = s[j]
            BY <2>1, <4>1 DEF a
          <5> QED BY <2>3, <3>1, <4>1, <5>1
        <4>2. CASE ~ (j < i)
          <5>1. j - Len(a) \in 1 .. Len(s) - i /\ (j - Len(a)) + i = j + 1
            BY <3>1, <4>2
          <5>2. b[j - Len(a)] = s[j + 1]
            BY <2>2, <5>1 DEF b
          <5> QED BY <2>3, <3>1, <4>2, <5>2
        <4> QED BY <4>1, <4>2
      <3> QED BY <2>3, <3>1, <3>2
    <2> QED BY <2>4 DEF RemoveAt, a, b
  <1> HIDE DEF r
  <1>2. s[i] \in ToSet(s)
    BY DEF ToSet
  <1>3. ToSet(s) \subseteq ToSet(r) \cup {s[i]}
    <2> SUFFICES ASSUME NEW j \in 1 .. Len(s), j # i
                 PROVE  s[j] \in ToSet(r)
      BY DEF ToSet
    <2>1. CASE j < i
      <3>1. j \in DOMAIN r /\ r[j] = s[j]
        BY <1>1, <2>1
      <3> QED BY <3>1 DEF ToSet
    <2>2. CASE j > i
      <3>1. j - 1 \in DOMAIN r /\ r[j - 1] = s[j]
        BY <1>1, <2>2
      <3> QED BY <3>1 DEF ToSet
    <2> QED BY <2>1, <2>2
  <1>4. ToSet(r) \subseteq ToSet(s)
    BY <1>1 DEF ToSet
  <1>5. ASSUME IsInjective(s)
        PROVE  IsInjective(r) /\ s[i] \notin ToSet(r)
    <2> DEFINE up(j) == IF j < i THEN j ELSE j + 1
    <2>1. DOMAIN r = 1 .. Len(s) - 1 /\ DOMAIN s = 1 .. Len(s)
      BY <1>1
    <2>2. \A j \in DOMAIN r : up(j) \in DOMAIN s /\ up(j) # i /\ r[j] = s[up(j)]
      BY <1>1, <2>1
    <2>3. \A j, k \in DOMAIN r : up(j) = up(k) => j = k
      BY <2>1
    <2> HIDE DEF up
    <2>4. IsInjective(r)
      BY <1>5, <2>2, <2>3 DEF IsInjective
    <2>5. s[i] \notin ToSet(r)
      BY <1>5, <2>1, <2>2 DEF IsInjective, ToSet
    <2> QED BY <2>4, <2>5
  <1> QED BY <1>1, <1>2, <1>3, <1>4, <1>5 DEF r

LEMMA FrontFacts ==
  ASSUME NEW T, NEW s \in Seq(T), s # <<>>
  PROVE  /\ Last(s) \in T /\ Front(s) \in Seq(T) /\ Len(Front(s)) = Len(s) - 1
         /\ ToSet(s) = ToSet(Front(s)) \cup {Last(s)}
         /\ IsInjective(s) => IsInjective(Front(s)) /\ Last(s) \notin ToSet(Front(s))
  <1>1. Len(s) \in 1 .. Len(s)
    OBVIOUS
  <1>2. Front(s) \in Seq(T) /\ Len(Front(s)) = Len(s) - 1
        /\ \A j \in 1 .. Len(s) - 1 : Front(s)[j] = s[j]
    <2>1. Len(s) - 1 \in 0 .. Len(s)
      OBVIOUS
    <2> QED BY <2>1, PrefixFacts DEF Front
  <1>3. ToSet(s) \subseteq ToSet(Front(s)) \cup {Last(s)}
    <2> SUFFICES ASSUME NEW j \in 1 .. Len(s), j # Len(s)
                 PROVE  s[j] \in ToSet(Front(s))
      BY DEF ToSet, Last
    <2>1. j \in DOMAIN Front(s) /\ Front(s)[j] = s[j]
      BY <1>2
    <2> QED BY <2>1 DEF ToSet
  <1>4. ToSet(Front(s)) \cup {Last(s)} \subseteq ToSet(s)
    BY <1>1, <1>2 DEF ToSet, Last
  <1>5. IsInjective(s) => IsInjective(Front(s)) /\ Last(s) \notin ToSet(Front(s))
    BY <1>2 DEF ToSet, IsInjective, Last
  <1> QED BY <1>1, <1>2, <1>3, <1>4, <1>5 DEF Last

(* A sequence without repetitions is no longer than a finite set it is drawn from. *)
LEMMA InjectiveSeqIsShort ==
  ASSUME NEW T, IsFiniteSet(T), NEW s \in Seq(T), IsInjective(s)
  PROVE  Len(s) <= Cardinality(T)
  <1>1. s \in Injection(1 .. Len(s), T)
    BY DEF Injection
  <1>2. Cardinality(1 .. Len(s)) <= Cardinality(T)
    BY <1>1, FS_Injection
  <1>3. Cardinality(1 .. Len(s)) = Len(s)
    <2>1. Len(s) \in Nat
      OBVIOUS
    <2>2. Cardinality(1 .. Len(s)) = IF 1 > Len(s) THEN 0 ELSE Len(s) - 1 + 1
      BY <2>1, FS_Interval
    <2> QED BY <2>1, <2>2
  <1> QED BY <1>2, <1>3

--------------------------------------------------------------------------------
(* Recursive functions *)

(* Induction up to n. *)
LEMMA IntervalInduction ==
  ASSUME NEW n \in Nat, NEW S, 0 \in S, \A k \in 1 .. n : k - 1 \in S => k \in S
  PROVE  0 .. n \subseteq S
  <1> DEFINE N == {k \in Nat : k <= n => k \in S}
  <1>1. 0 \in N
    OBVIOUS
  <1>2. ASSUME NEW k \in Nat, k \in N
        PROVE  k + 1 \in N
    <2> SUFFICES ASSUME k + 1 <= n
                 PROVE  k + 1 \in S
      OBVIOUS
    <2>1. k \in S /\ k + 1 \in 1 .. n /\ (k + 1) - 1 = k
      BY <1>2
    <2> QED BY <2>1
  <1>3. Nat \subseteq N
    <2> HIDE DEF N
    <2> QED BY <1>1, <1>2, NatSetInduction
  <1> QED BY <1>3

Recursion(f, a, n, F) == f[0] = a /\ \A k \in 1 .. n : f[k] = F[k][f[k - 1]]

(* A recursion over 0 .. n has a solution; F gives the next value from the last. *)
LEMMA RecursionSolvable ==
  ASSUME NEW V, NEW a \in V, NEW n \in Nat, NEW F \in [1 .. n -> [V -> V]]
  PROVE  \E f \in [0 .. n -> V] : Recursion(f, a, n, F)
  <1> DEFINE Follows(f, m) == f[0] = a /\ \A k \in 1 .. m : f[k] = F[k][f[k - 1]]
             N == {m \in Nat : \E f \in [0 .. m -> V] : Follows(f, m)}
  <1>1. 0 \in N
    <2>1. [k \in 0 .. 0 |-> a] \in [0 .. 0 -> V] /\ Follows([k \in 0 .. 0 |-> a], 0)
      OBVIOUS
    <2> HIDE DEF Follows
    <2> QED BY <2>1
  <1>2. ASSUME NEW m \in 1 .. n, m - 1 \in N
        PROVE  m \in N
    <2>1. m \in Nat /\ m - 1 \in Nat /\ 0 .. m - 1 \subseteq 0 .. m
      OBVIOUS
    <2>2. PICK g \in [0 .. m - 1 -> V] : Follows(g, m - 1)
      BY <1>2
    <2> DEFINE v == F[m][g[m - 1]]
               h == [k \in 0 .. m |-> IF k = m THEN v ELSE g[k]]
    <2>3. v \in V
      <3>1. g[m - 1] \in V
        BY <2>1
      <3> QED BY <3>1
    <2>4. h \in [0 .. m -> V]
      <3> HIDE DEF v
      <3> QED BY <2>1, <2>3
    <2>5. h[m] = v /\ \A k \in 0 .. m - 1 : h[k] = g[k]
      <3> HIDE DEF v
      <3> QED BY <2>1
    <2> HIDE DEF h
    <2>6. h[0] = a
      <3>1. 0 \in 0 .. m - 1
        BY <2>1
      <3> QED BY <2>2, <2>5, <3>1
    <2>7. ASSUME NEW k \in 1 .. m
          PROVE  h[k] = F[k][h[k - 1]]
      <3>1. CASE k = m
        <4>1. m - 1 \in 0 .. m - 1
          BY <2>1
        <4> QED BY <2>5, <3>1, <4>1
      <3>2. CASE k # m
        <4>1. k \in 1 .. m - 1 /\ k \in 0 .. m - 1 /\ k - 1 \in 0 .. m - 1
          BY <3>2
        <4> QED BY <2>2, <2>5, <4>1
      <3> QED BY <3>1, <3>2
    <2> QED BY <2>1, <2>4, <2>6, <2>7
  <1>3. 0 .. n \subseteq N
    <2> HIDE DEF N
    <2> QED BY <1>1, <1>2, IntervalInduction
  <1>4. n \in N
    BY <1>3
  <1> QED BY <1>4 DEF Recursion

(* f gives, for each n, the selection from the first n elements. *)
Selects(f, s, S) ==
  /\ f[0] = <<>>
  /\ \A k \in 1 .. Len(s) : f[k] = IF s[k] \in S THEN Append(f[k - 1], s[k]) ELSE f[k - 1]

(* What Select computes, element by element. *)
LEMMA SelectRecursion ==
  ASSUME NEW T, NEW s \in Seq(T), NEW S
  PROVE  \E f : Selects(f, s, S) /\ Select(s, S) = f[Len(s)]
  <1> DEFINE n == Len(s)
             F == [k \in 1 .. n |-> [v \in Seq(T) |->
                                      IF s[k] \in S THEN Append(v, s[k]) ELSE v]]
             step(f) == [k \in 0 .. n |->
                           IF k = 0 THEN <<>>
                           ELSE IF s[k] \in S THEN Append(f[k - 1], s[k]) ELSE f[k - 1]]
  <1>1. n \in Nat /\ <<>> \in Seq(T)
    OBVIOUS
  <1>2. F \in [1 .. n -> [Seq(T) -> Seq(T)]]
    <2>1. ASSUME NEW k \in 1 .. n, NEW v \in Seq(T)
          PROVE  (IF s[k] \in S THEN Append(v, s[k]) ELSE v) \in Seq(T)
      <3>1. s[k] \in T
        OBVIOUS
      <3> QED BY <3>1
    <2> QED BY <2>1
  <1>3. PICK g \in [0 .. n -> Seq(T)] : g[0] = <<>> /\ \A k \in 1 .. n : g[k] = F[k][g[k - 1]]
    <2> DEFINE V == Seq(T)
               a == <<>>
    <2>1. a \in V /\ n \in Nat /\ F \in [1 .. n -> [V -> V]]
      BY <1>1, <1>2
    <2> HIDE DEF F, n, V, a
    <2>2. \E f \in [0 .. n -> V] : Recursion(f, a, n, F)
      BY <2>1, RecursionSolvable
    <2> QED BY <2>2 DEF V, a, Recursion
  <1>4. \A k \in 1 .. n : g[k] = IF s[k] \in S THEN Append(g[k - 1], s[k]) ELSE g[k - 1]
    <2> SUFFICES ASSUME NEW k \in 1 .. n
                 PROVE  g[k] = IF s[k] \in S THEN Append(g[k - 1], s[k]) ELSE g[k - 1]
      OBVIOUS
    <2>1. k - 1 \in 0 .. n
      BY <1>1
    <2>2. g[k - 1] \in Seq(T)
      BY <2>1
    <2> QED BY <1>3, <2>2
  <1>5. g = step(g)
    <2>1. ASSUME NEW k \in 0 .. n
          PROVE  g[k] = step(g)[k]
      <3>1. CASE k = 0
        BY <1>3, <3>1
      <3>2. CASE k # 0
        <4>1. k \in 1 .. n
          BY <1>1, <3>2
        <4> QED BY <1>4, <3>2, <4>1
      <3> QED BY <3>1, <3>2
    <2>2. DOMAIN g = 0 .. n /\ DOMAIN step(g) = 0 .. n
      BY <1>3
    <2>3. g = [k \in 0 .. n |-> g[k]] /\ step(g) = [k \in 0 .. n |-> step(g)[k]]
      BY <1>3
    <2> HIDE DEF step
    <2> QED BY <2>1, <2>3
  <1> DEFINE f == CHOOSE f : f = step(f)
  <1>6. f = step(f)
    <2> HIDE DEF step
    <2> QED BY <1>5
  <1>7. Select(s, S) = f[Len(s)]
    BY DEF Select
  <1> HIDE DEF f
  <1>8. f[0] = <<>>
    BY <1>1, <1>6
  <1>9. \A k \in 1 .. n : f[k] = IF s[k] \in S THEN Append(f[k - 1], s[k]) ELSE f[k - 1]
    <2> SUFFICES ASSUME NEW k \in 1 .. n
                 PROVE  step(f)[k] = IF s[k] \in S THEN Append(f[k - 1], s[k]) ELSE f[k - 1]
      BY <1>6
    <2> QED BY <1>1
  <1> QED BY <1>7, <1>8, <1>9 DEF Selects

(* Select keeps exactly the elements in S and repeats none. *)
LEMMA SelectFacts ==
  ASSUME NEW T, NEW s \in Seq(T), NEW S
  PROVE  /\ Select(s, S) \in Seq(T)
         /\ ToSet(Select(s, S)) = ToSet(s) \cap S
         /\ IsInjective(s) => IsInjective(Select(s, S))
  <1>1. PICK f : Selects(f, s, S) /\ Select(s, S) = f[Len(s)]
    BY SelectRecursion
  <1> DEFINE Upto(n) == {s[k] : k \in 1 .. n}
             N == {n \in Nat : /\ f[n] \in Seq(T)
                               /\ ToSet(f[n]) = Upto(n) \cap S
                               /\ IsInjective(s) => IsInjective(f[n])}
  <1>2. 0 \in N
    <2>1. Upto(0) = {} /\ <<>> \in Seq(T)
      OBVIOUS
    <2> HIDE DEF Upto
    <2> QED BY <1>1, <2>1, EmptyFacts DEF Selects
  <1>3. ASSUME NEW n \in 1 .. Len(s), n - 1 \in N
        PROVE  n \in N
    <2>1. /\ f[n - 1] \in Seq(T) /\ s[n] \in T
          /\ ToSet(f[n - 1]) = Upto(n - 1) \cap S
          /\ IsInjective(s) => IsInjective(f[n - 1])
      BY <1>3
    <2>2. f[n] = IF s[n] \in S THEN Append(f[n - 1], s[n]) ELSE f[n - 1]
      BY <1>1 DEF Selects
    <2>3. Upto(n) = Upto(n - 1) \cup {s[n]}
      <3>1. 1 .. n = (1 .. n - 1) \cup {n}
        OBVIOUS
      <3> QED BY <3>1
    <2>4. IsInjective(s) => s[n] \notin Upto(n - 1)
      <3>1. \A k \in 1 .. n - 1 : k \in DOMAIN s /\ n \in DOMAIN s /\ k # n
        OBVIOUS
      <3> QED BY <3>1 DEF IsInjective
    <2> HIDE DEF Upto
    <2>5. CASE s[n] \in S
      <3>1. /\ Append(f[n - 1], s[n]) \in Seq(T)
            /\ ToSet(Append(f[n - 1], s[n])) = ToSet(f[n - 1]) \cup {s[n]}
            /\ IsInjective(f[n - 1]) /\ s[n] \notin ToSet(f[n - 1])
                 => IsInjective(Append(f[n - 1], s[n]))
        BY <2>1, AppendFacts
      <3>2. n \in Nat /\ f[n] = Append(f[n - 1], s[n])
        BY <2>2, <2>5
      <3>3. ToSet(f[n]) = Upto(n) \cap S
        BY <2>1, <2>3, <2>5, <3>1, <3>2
      <3> QED BY <2>1, <2>4, <3>1, <3>2, <3>3
    <2>6. CASE s[n] \notin S
      <3>1. n \in Nat /\ f[n] = f[n - 1]
        BY <2>2, <2>6
      <3>2. ToSet(f[n]) = Upto(n) \cap S
        BY <2>1, <2>3, <2>6, <3>1
      <3> QED BY <2>1, <3>1, <3>2
    <2> QED BY <2>5, <2>6
  <1>4. Len(s) \in Nat /\ Upto(Len(s)) = ToSet(s)
    BY DEF ToSet
  <1>5. 0 .. Len(s) \subseteq N
    <2> HIDE DEF N
    <2> QED BY <1>2, <1>3, <1>4, IntervalInduction
  <1>6. Len(s) \in N
    <2> HIDE DEF N
    <2> QED BY <1>4, <1>5
  <1> HIDE DEF Upto
  <1> QED BY <1>1, <1>4, <1>6

(* f gives, for each n, the concatenation of the first n sequences. *)
Flattens(f, seqs) ==
  /\ f[0] = <<>>
  /\ \A k \in 1 .. Len(seqs) : f[k] = f[k - 1] \o seqs[k]

LEMMA FlattenRecursion ==
  ASSUME NEW T, NEW seqs \in Seq(Seq(T)), seqs # <<>>
  PROVE  \E f : Flattens(f, seqs) /\ FlattenSeq(seqs) = f[Len(seqs)]
  <1> DEFINE n == Len(seqs)
             V == Seq(T)
             a == <<>>
             F == [k \in 1 .. n |-> [v \in V |-> v \o seqs[k]]]
             step(f) == [i \in 1 .. n |-> IF i = 1 THEN seqs[i] ELSE f[i - 1] \o seqs[i]]
  <1>1. n \in Nat /\ n > 0 /\ a \in V
    OBVIOUS
  <1>2. F \in [1 .. n -> [V -> V]]
    <2>1. ASSUME NEW k \in 1 .. n, NEW v \in V
          PROVE  v \o seqs[k] \in V
      <3>1. seqs[k] \in Seq(T)
        OBVIOUS
      <3> QED BY <3>1
    <2> HIDE DEF V
    <2> QED BY <2>1
  <1>3. PICK g \in [0 .. n -> V] : Recursion(g, a, n, F)
    <2> HIDE DEF n, V, a, F
    <2> QED BY <1>1, <1>2, RecursionSolvable
  <1>4. g[0] = <<>> /\ \A k \in 1 .. n : g[k] = g[k - 1] \o seqs[k]
    <2> SUFFICES ASSUME NEW k \in 1 .. n
                 PROVE  g[k] = g[k - 1] \o seqs[k]
      BY <1>3 DEF Recursion
    <2>1. k - 1 \in 0 .. n
      BY <1>1
    <2>2. g[k - 1] \in V
      <3> HIDE DEF n, V
      <3> QED BY <2>1
    <2> QED BY <1>3, <2>2 DEF Recursion
  <1> DEFINE h == [i \in 1 .. n |-> g[i]]
  <1>5. h = step(h)
    <2>1. ASSUME NEW i \in 1 .. n
          PROVE  h[i] = step(h)[i]
      <3>1. CASE i = 1
        <4>1. seqs[1] \in Seq(T) /\ 1 \in 1 .. n /\ 1 - 1 = 0
          BY <1>1
        <4>2. g[1] = <<>> \o seqs[1]
          BY <1>4, <4>1
        <4>3. <<>> \o seqs[1] = seqs[1]
          BY <4>1
        <4> QED BY <3>1, <4>2, <4>3
      <3>2. CASE i # 1
        <4>1. i - 1 \in 1 .. n
          BY <1>1, <3>2
        <4> QED BY <1>4, <3>2, <4>1
      <3> QED BY <3>1, <3>2
    <2>2. step(h) = [i \in 1 .. n |-> step(h)[i]] /\ h = [i \in 1 .. n |-> h[i]]
      OBVIOUS
    <2> HIDE DEF h, step
    <2> QED BY <2>1, <2>2
  <1> DEFINE f == CHOOSE f : f = step(f)
             all == [i \in 0 .. n |-> IF i = 0 THEN <<>> ELSE f[i]]
  <1>6. f = step(f)
    <2> HIDE DEF step
    <2> QED BY <1>5
  <1>7. FlattenSeq(seqs) = f[n]
    BY <1>1 DEF FlattenSeq
  <1> HIDE DEF f
  <1>8. \A i \in 1 .. n : f[i] = IF i = 1 THEN seqs[i] ELSE f[i - 1] \o seqs[i]
    <2> SUFFICES ASSUME NEW i \in 1 .. n
                 PROVE  step(f)[i] = IF i = 1 THEN seqs[i] ELSE f[i - 1] \o seqs[i]
      BY <1>6
    <2> QED OBVIOUS
  <1>9. \A k \in 1 .. n : all[k] = all[k - 1] \o seqs[k]
    <2> SUFFICES ASSUME NEW k \in 1 .. n
                 PROVE  all[k] = all[k - 1] \o seqs[k]
      OBVIOUS
    <2>1. CASE k = 1
      <3>1. seqs[1] \in Seq(T) /\ all[k - 1] = <<>> /\ all[k] = seqs[1]
        BY <1>1, <1>8, <2>1
      <3>2. <<>> \o seqs[1] = seqs[1]
        BY <3>1
      <3> HIDE DEF all
      <3> QED BY <2>1, <3>1, <3>2
    <2>2. CASE k # 1
      <3>1. k - 1 \in 0 .. n /\ k - 1 # 0
        BY <1>1, <2>2
      <3>2. all[k - 1] = f[k - 1] /\ all[k] = f[k]
        BY <3>1
      <3> QED BY <1>8, <2>2, <3>2
    <2> QED BY <2>1, <2>2
  <1>10. all[0] = <<>> /\ all[n] = f[n]
    BY <1>1
  <1>11. Flattens(all, seqs)
    <2> HIDE DEF all
    <2> QED BY <1>9, <1>10 DEF Flattens
  <1> HIDE DEF all
  <1> QED BY <1>7, <1>10, <1>11

(* Flattening keeps the elements of the parts.  It repeats none if no part does and   *)
(* no two parts have one in common.                                                   *)
LEMMA FlattenFacts ==
  ASSUME NEW T, NEW seqs \in Seq(Seq(T))
  PROVE  /\ FlattenSeq(seqs) \in Seq(T)
         /\ ToSet(FlattenSeq(seqs)) = UNION {ToSet(seqs[i]) : i \in 1 .. Len(seqs)}
         /\ /\ \A i \in 1 .. Len(seqs) : IsInjective(seqs[i])
            /\ \A i, j \in 1 .. Len(seqs) : i # j => ToSet(seqs[i]) \cap ToSet(seqs[j]) = {}
            => IsInjective(FlattenSeq(seqs))
  <1> DEFINE Upto(n) == UNION {ToSet(seqs[i]) : i \in 1 .. n}
             Apart == /\ \A i \in 1 .. Len(seqs) : IsInjective(seqs[i])
                      /\ \A i, j \in 1 .. Len(seqs) :
                           i # j => ToSet(seqs[i]) \cap ToSet(seqs[j]) = {}
  <1>1. CASE seqs = <<>>
    <2>1. FlattenSeq(seqs) = <<>> /\ Upto(Len(seqs)) = {} /\ <<>> \in Seq(T)
      BY <1>1 DEF FlattenSeq
    <2> HIDE DEF Upto, Apart
    <2>2. FlattenSeq(seqs) \in Seq(T) /\ ToSet(FlattenSeq(seqs)) = Upto(Len(seqs))
          /\ IsInjective(FlattenSeq(seqs))
      BY <2>1, EmptyFacts
    <2> QED BY <2>2 DEF Upto, Apart
  <1>2. CASE seqs # <<>>
    <2>1. PICK f : Flattens(f, seqs) /\ FlattenSeq(seqs) = f[Len(seqs)]
      BY <1>2, FlattenRecursion
    <2> DEFINE N == {n \in Nat : /\ f[n] \in Seq(T)
                                 /\ ToSet(f[n]) = Upto(n)
                                 /\ Apart => IsInjective(f[n])}
    <2>2. 0 \in N
      <3>1. Upto(0) = {} /\ <<>> \in Seq(T)
        OBVIOUS
      <3> HIDE DEF Upto
      <3> QED BY <2>1, <3>1, EmptyFacts DEF Flattens
    <2>3. ASSUME NEW n \in 1 .. Len(seqs), n - 1 \in N
          PROVE  n \in N
      <3>1. /\ f[n - 1] \in Seq(T) /\ seqs[n] \in Seq(T) /\ n \in Nat
            /\ ToSet(f[n - 1]) = Upto(n - 1)
            /\ Apart => IsInjective(f[n - 1])
        <4>1. seqs[n] \in Seq(T) /\ n \in Nat
          OBVIOUS
        <4> HIDE DEF Upto, Apart
        <4> QED BY <2>3, <4>1
      <3>2. f[n] = f[n - 1] \o seqs[n]
        BY <2>1 DEF Flattens
      <3>3. Upto(n) = Upto(n - 1) \cup ToSet(seqs[n])
        <4>1. 1 .. n = (1 .. n - 1) \cup {n}
          OBVIOUS
        <4> QED BY <4>1
      <3>4. Apart => Upto(n - 1) \cap ToSet(seqs[n]) = {}
        <4>1. \A i \in 1 .. n - 1 : i \in 1 .. Len(seqs) /\ i # n
          OBVIOUS
        <4> QED BY <4>1
      <3>5. Apart => IsInjective(seqs[n])
        OBVIOUS
      <3> HIDE DEF Upto, Apart
      <3>6. /\ f[n] \in Seq(T)
            /\ ToSet(f[n]) = ToSet(f[n - 1]) \cup ToSet(seqs[n])
            /\ /\ IsInjective(f[n - 1]) /\ IsInjective(seqs[n])
               /\ ToSet(f[n - 1]) \cap ToSet(seqs[n]) = {}
               => IsInjective(f[n])
        BY <3>1, <3>2, ConcatFacts
      <3> QED BY <3>1, <3>3, <3>4, <3>5, <3>6
    <2>4. 0 .. Len(seqs) \subseteq N
      <3>1. Len(seqs) \in Nat
        OBVIOUS
      <3> HIDE DEF N
      <3> QED BY <2>2, <2>3, <3>1, IntervalInduction
    <2>5. Len(seqs) \in N
      <3>1. Len(seqs) \in 0 .. Len(seqs)
        OBVIOUS
      <3> HIDE DEF N
      <3> QED BY <2>4, <3>1
    <2> HIDE DEF Upto, Apart
    <2>6. /\ f[Len(seqs)] \in Seq(T)
          /\ ToSet(f[Len(seqs)]) = Upto(Len(seqs))
          /\ Apart => IsInjective(f[Len(seqs)])
      BY <2>5
    <2> QED BY <2>1, <2>6 DEF Upto, Apart
  <1> QED BY <1>1, <1>2

(* The powers of two are numbers that grow past n. *)
LEMMA PowersOfTwoFacts ==
  ASSUME NEW n \in Nat
  PROVE  /\ Range(PowersOfTwo(n)) \subseteq Nat
         /\ \E p \in Range(PowersOfTwo(n)) : p > n
  <1> DEFINE F == [k \in 1 .. n |-> [v \in Nat |-> 2 * v]]
             step(f) == [k \in 0 .. n |-> IF k = 0 THEN 1 ELSE 2 * f[k - 1]]
  <1>1. F \in [1 .. n -> [Nat -> Nat]]
    OBVIOUS
  <1>2. PICK g \in [0 .. n -> Nat] : Recursion(g, 1, n, F)
    <2> HIDE DEF F
    <2> QED BY <1>1, RecursionSolvable
  <1>3. g[0] = 1 /\ \A k \in 1 .. n : g[k] = 2 * g[k - 1]
    <2> SUFFICES ASSUME NEW k \in 1 .. n
                 PROVE  g[k] = 2 * g[k - 1]
      BY <1>2 DEF Recursion
    <2>1. g[k - 1] \in Nat
      OBVIOUS
    <2> QED BY <1>2, <2>1 DEF Recursion
  <1>4. g = step(g)
    <2>1. \A k \in 0 .. n : g[k] = step(g)[k]
      BY <1>3
    <2>2. g = [k \in 0 .. n |-> g[k]] /\ step(g) = [k \in 0 .. n |-> step(g)[k]]
      OBVIOUS
    <2> HIDE DEF step
    <2> QED BY <2>1, <2>2
  <1> DEFINE f == CHOOSE f : f = step(f)
  <1>5. f = step(f)
    <2> HIDE DEF step
    <2> QED BY <1>4
  <1>6. PowersOfTwo(n) = f
    BY DEF PowersOfTwo
  <1> HIDE DEF f
  <1> DEFINE N == {k \in Nat : f[k] \in Nat /\ f[k] > k}
  <1>7. f[0] = 1 /\ DOMAIN f = 0 .. n /\ \A k \in 1 .. n : f[k] = 2 * f[k - 1]
    BY <1>5
  <1>8. 0 .. n \subseteq N
    <2>1. 0 \in N
      BY <1>7
    <2>2. ASSUME NEW k \in 1 .. n, k - 1 \in N
          PROVE  k \in N
      <3>1. k \in Nat /\ f[k - 1] \in Nat /\ f[k - 1] > k - 1 /\ f[k] = 2 * f[k - 1]
        BY <1>7, <2>2
      <3> QED BY <3>1
    <2> HIDE DEF N
    <2> QED BY <2>1, <2>2, IntervalInduction
  <1>9. n \in DOMAIN f /\ f[n] > n /\ \A k \in DOMAIN f : f[k] \in Nat
    BY <1>7, <1>8
  <1> QED BY <1>6, <1>9 DEF Range

(* The order of the parts is that of their elements in the flattened sequence.        *)
InOrder(s, seqs, n) ==
  /\ ToSet(s) = UNION {ToSet(seqs[i]) : i \in 1 .. n}
  /\ \A a, b \in DOMAIN s : a < b =>
       \E i, j \in 1 .. n : i <= j /\ s[a] \in ToSet(seqs[i]) /\ s[b] \in ToSet(seqs[j])
  /\ \A i, j \in 1 .. n : i < j =>
       \A x \in ToSet(seqs[i]), y \in ToSet(seqs[j]) :
         \E a, b \in DOMAIN s : a < b /\ s[a] = x /\ s[b] = y

LEMMA OrderStep ==
  ASSUME NEW T, NEW seqs \in Seq(Seq(T)), NEW n \in 1 .. Len(seqs), NEW s \in Seq(T),
         InOrder(s, seqs, n - 1)
  PROVE  InOrder(s \o seqs[n], seqs, n)
  <1> DEFINE r == seqs[n]
             c == s \o r
  <1>1. r \in Seq(T)
    OBVIOUS
  <1>2. /\ c \in Seq(T) /\ DOMAIN c = 1 .. Len(s) + Len(r) /\ Len(s) \in Nat /\ Len(r) \in Nat
        /\ \A a \in 1 .. Len(s) : c[a] = s[a] /\ a \in DOMAIN c
        /\ \A a \in 1 .. Len(r) : c[Len(s) + a] = r[a] /\ Len(s) + a \in DOMAIN c
        /\ DOMAIN s = 1 .. Len(s) /\ DOMAIN r = 1 .. Len(r)
    BY <1>1
  <1>3. \A i : i \in 1 .. n <=> i \in 1 .. n - 1 \/ i = n
    OBVIOUS
  <1>4. ToSet(c) = UNION {ToSet(seqs[i]) : i \in 1 .. n}
    <2>1. ToSet(c) = ToSet(s) \cup ToSet(r)
      BY <1>1, ConcatFacts
    <2> HIDE DEF c
    <2> QED BY <1>3, <2>1 DEF InOrder
  <1>5. ASSUME NEW a \in DOMAIN c, NEW b \in DOMAIN c, a < b
        PROVE  \E i, j \in 1 .. n :
                 i <= j /\ c[a] \in ToSet(seqs[i]) /\ c[b] \in ToSet(seqs[j])
    <2>1. CASE b \in 1 .. Len(s)
      <3>1. a \in 1 .. Len(s)
        BY <1>2, <1>5, <2>1
      <3>2. PICK i \in 1 .. n - 1, j \in 1 .. n - 1 :
              i <= j /\ s[a] \in ToSet(seqs[i]) /\ s[b] \in ToSet(seqs[j])
        BY <1>2, <1>5, <2>1, <3>1 DEF InOrder
      <3> QED BY <1>2, <1>3, <2>1, <3>1, <3>2
    <2>2. CASE a \in 1 .. Len(s) /\ b \notin 1 .. Len(s)
      <3>1. b - Len(s) \in 1 .. Len(r) /\ Len(s) + (b - Len(s)) = b
        BY <1>2, <1>5, <2>2
      <3>2. c[b] \in ToSet(r)
        BY <1>2, <3>1 DEF ToSet
      <3>3. c[a] \in ToSet(s)
        BY <1>2, <2>2 DEF ToSet
      <3>4. PICK i \in 1 .. n - 1 : c[a] \in ToSet(seqs[i])
        BY SMTT(30), <3>3 DEF InOrder
      <3>5. i <= n /\ i \in 1 .. n /\ n \in 1 .. n
        OBVIOUS
      <3> QED BY <3>2, <3>4, <3>5
    <2>3. CASE a \notin 1 .. Len(s)
      <3>1. /\ b - Len(s) \in 1 .. Len(r) /\ Len(s) + (b - Len(s)) = b
            /\ a - Len(s) \in 1 .. Len(r) /\ Len(s) + (a - Len(s)) = a
        BY SMTT(30), <1>2, <1>5, <2>3
      <3>2. c[a] \in ToSet(r) /\ c[b] \in ToSet(r)
        BY <1>2, <3>1 DEF ToSet
      <3>3. n <= n /\ n \in 1 .. n
        OBVIOUS
      <3> QED BY <3>2, <3>3
    <2> QED BY <2>1, <2>2, <2>3
  <1>6. ASSUME NEW i \in 1 .. n, NEW j \in 1 .. n, i < j,
               NEW x \in ToSet(seqs[i]), NEW y \in ToSet(seqs[j])
        PROVE  \E a, b \in DOMAIN c : a < b /\ c[a] = x /\ c[b] = y
    <2>1. i \in 1 .. n - 1
      BY <1>6
    <2>2. CASE j \in 1 .. n - 1
      <3>1. PICK a \in DOMAIN s, b \in DOMAIN s : a < b /\ s[a] = x /\ s[b] = y
        <4>1. \A u \in ToSet(seqs[i]), v \in ToSet(seqs[j]) :
                \E a, b \in DOMAIN s : a < b /\ s[a] = u /\ s[b] = v
          BY ZenonT(30), <1>6, <2>1, <2>2 DEF InOrder
        <4> QED BY <1>6, <4>1
      <3> QED BY <1>2, <3>1
    <2>3. CASE j = n
      <3>1. PICK b \in 1 .. Len(r) : r[b] = y
        BY <1>2, <2>3 DEF ToSet
      <3>2. x \in ToSet(s)
        BY <2>1 DEF InOrder
      <3>3. PICK a \in 1 .. Len(s) : s[a] = x
        BY <1>2, <3>2 DEF ToSet
      <3>4. a < Len(s) + b
        BY <1>2
      <3> QED BY <1>2, <3>1, <3>3, <3>4
    <2> QED BY <1>3, <2>2, <2>3
  <1> HIDE DEF c
  <1>7. InOrder(c, seqs, n)
    BY <1>4, <1>5, <1>6 DEF InOrder
  <1> QED BY <1>7 DEF c

LEMMA FlattenOrder ==
  ASSUME NEW T, NEW seqs \in Seq(Seq(T))
  PROVE  InOrder(FlattenSeq(seqs), seqs, Len(seqs))
  <1>1. CASE seqs = <<>>
    <2>1. FlattenSeq(seqs) = <<>> /\ Len(seqs) = 0 /\ 1 .. 0 = {} /\ DOMAIN <<>> = {}
      BY <1>1 DEF FlattenSeq
    <2> QED BY <2>1, EmptyFacts DEF InOrder
  <1>2. CASE seqs # <<>>
    <2>1. PICK f : Flattens(f, seqs) /\ FlattenSeq(seqs) = f[Len(seqs)]
      BY <1>2, FlattenRecursion
    <2> DEFINE N == {n \in Nat : f[n] \in Seq(T) /\ InOrder(f[n], seqs, n)}
    <2>2. 0 \in N
      <3>1. 1 .. 0 = {} /\ DOMAIN <<>> = {} /\ <<>> \in Seq(T)
        OBVIOUS
      <3> QED BY <2>1, <3>1, EmptyFacts DEF Flattens, InOrder
    <2>3. ASSUME NEW n \in 1 .. Len(seqs), n - 1 \in N
          PROVE  n \in N
      <3>1. f[n] = f[n - 1] \o seqs[n]
        BY <2>1 DEF Flattens
      <3>2. f[n - 1] \in Seq(T) /\ seqs[n] \in Seq(T) /\ n \in Nat
        BY <2>3
      <3>3. InOrder(f[n], seqs, n)
        BY <2>3, <3>1, <3>2, OrderStep
      <3>4. f[n] \in Seq(T)
        BY <3>1, <3>2
      <3> QED BY <3>2, <3>3, <3>4
    <2>4. 0 .. Len(seqs) \subseteq N
      <3>1. Len(seqs) \in Nat
        OBVIOUS
      <3> HIDE DEF N
      <3> QED BY <2>2, <2>3, <3>1, IntervalInduction
    <2>5. Len(seqs) \in N
      <3>1. Len(seqs) \in 0 .. Len(seqs)
        OBVIOUS
      <3> HIDE DEF N
      <3> QED BY <2>4, <3>1
    <2> QED BY <2>1, <2>5
  <1> QED BY <1>1, <1>2

(* The elements of a sequence are finitely many.                                      *)
LEMMA ElementsFinite ==
  ASSUME NEW T, NEW s \in Seq(T)
  PROVE  IsFiniteSet(ToSet(s))
  <1>1. s \in [1 .. Len(s) -> ToSet(s)]
    BY DEF ToSet
  <1>2. s \in Surjection(1 .. Len(s), ToSet(s))
    BY <1>1 DEF Surjection, ToSet
  <1>3. IsFiniteSet(1 .. Len(s))
    BY FS_Interval
  <1> QED BY <1>2, <1>3, FS_Surjection

(* A set that is listed without repetition is listed completely.                      *)
LEMMA ListingFacts ==
  ASSUME NEW S, IsFiniteSet(S), NEW o \in SetToSeqs(S)
  PROVE  o \in Seq(S) /\ ToSet(o) = S
  <1>1. Cardinality(S) \in Nat
    BY FS_CardinalityType
  <1>2. /\ o \in [1 .. Cardinality(S) -> S]
        /\ \A i, j \in 1 .. Cardinality(S) : i # j => o[i] # o[j]
    BY DEF SetToSeqs
  <1>3. o \in Injection(1 .. Cardinality(S), S)
    BY <1>2 DEF Injection, IsInjective
  <1>4. Cardinality(1 .. Cardinality(S)) = Cardinality(S)
    BY <1>1, FS_Interval
  <1>5. o \in Surjection(1 .. Cardinality(S), S)
    BY <1>3, <1>4, FS_Injection
  <1> QED BY <1>1, <1>2, <1>5 DEF Surjection, ToSet

(* The greatest element of a set of indices.                                          *)
LEMMA MaxOfIndices ==
  ASSUME NEW n \in Nat, NEW S \in SUBSET (1 .. n), S # {}
  PROVE  Max(S) \in S /\ \A k \in S : k <= Max(S)
  <1> DEFINE R == {n - k : k \in S}
  <1>1. R \in SUBSET Nat /\ R # {}
    <2>1. \A k \in S : k \in 1 .. n /\ n - k \in Nat
      OBVIOUS
    <2> QED BY <2>1
  <1>2. Min(R) \in R /\ \A d \in R : Min(R) <= d
    BY <1>1, MinOfNats
  <1>3. PICK m \in S : Min(R) = n - m
    BY <1>2
  <1>4. \A k \in S : m >= k
    <2> TAKE k \in S
    <2>1. n - m <= n - k
      BY <1>2, <1>3
    <2>2. k \in 1 .. n /\ m \in 1 .. n
      OBVIOUS
    <2> QED BY <2>1, <2>2
  <1>5. \E j \in S : \A k \in S : j >= k
    BY <1>4
  <1>6. Max(S) \in S /\ \A k \in S : Max(S) >= k
    BY <1>5 DEF Max
  <1> QED BY <1>6

================================================================================
