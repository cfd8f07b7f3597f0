-------------------------- MODULE EarlyValidatorProofs --------------------------
(***************************************************************************)
(* Theorems about the validators: an accepted result is one of a snapshot, *)
(* a shutdown leaves no validation half-way, and the conflicts found       *)
(* through the shared cache are exact, for all configurations, keys,       *)
(* results and sizes.                                                      *)
(***************************************************************************)
EXTENDS EarlyValidator, SequenceLemmas

--------------------------------------------------------------------------------
(* The configuration *)

Access == [task: Nat, reads: Seq(Keys), writes: Seq(Keys)]

LEMMA SetupFacts ==
  ASSUME setup \in Setups
  PROVE  /\ setup.results \in Seq(Access) /\ setup.calls \in Seq(Seq(Access))
         /\ setup.maxChanges \in Nat /\ setup.concurrent \in Nat
         /\ setup.fastPath \in BOOLEAN /\ setup.batching \in BOOLEAN /\ setup.early \in BOOLEAN
  BY SetupsAssumption, CallsAssumption DEF Access

LEMMA ResultFacts ==
  ASSUME setup \in Setups
  PROVE  /\ Len(setup.results) \in Nat
         /\ Results = 1 .. Len(setup.results) /\ IsFiniteSet(Results)
         /\ 0 \notin Results /\ -1 \notin Results
         /\ \A i \in Results : /\ Task(i) \in Nat /\ ReadKeys(i) \in Seq(Keys)
                               /\ WriteKeys(i) \in Seq(Keys)
  <1>1. setup.results \in Seq(Access)
    BY SetupFacts
  <1>2. Results = 1 .. Len(setup.results) /\ Len(setup.results) \in Nat
    BY <1>1 DEF Results
  <1>3. IsFiniteSet(Results)
    BY <1>2, FS_Interval
  <1>4. ASSUME NEW i \in Results
        PROVE  setup.results[i] \in Access
    BY <1>1, <1>2
  <1> QED BY <1>2, <1>3, <1>4 DEF Task, ReadKeys, WriteKeys, Access

LEMMA CallFacts ==
  ASSUME setup \in Setups
  PROVE  \A c \in Calls : setup.calls[c] \in Seq(Access)
  BY SetupFacts DEF Calls

--------------------------------------------------------------------------------
(* The questions of DetectConflicts *)

\* The tasks of results that access k, in the order of the results.
LEMMA AccessesFacts ==
  ASSUME NEW results \in Seq(Access), NEW field \in {"reads", "writes"}, NEW k \in Keys
  PROVE  LET listed == Accesses(results, field, k)
             accessing == {n \in DOMAIN results : Contains(results[n][field], k)}
         IN  /\ listed \in Seq(Nat)
             /\ ToSet(listed) = {results[n].task : n \in accessing}
             /\ \A a, b \in DOMAIN listed : a < b =>
                  \E m, n \in accessing :
                    m <= n /\ listed[a] = results[m].task /\ listed[b] = results[n].task
             /\ \A m, n \in accessing : m < n =>
                  \E a, b \in DOMAIN listed :
                    a < b /\ listed[a] = results[m].task /\ listed[b] = results[n].task
  <1> DEFINE N == Len(results)
             accessing == {n \in DOMAIN results : Contains(results[n][field], k)}
             at(n) == {a \in DOMAIN results[n][field] : results[n][field][a] = k}
             block(n) == [m \in 1 .. Cardinality(at(n)) |-> results[n].task]
             blocks == [n \in DOMAIN results |-> block(n)]
             listed == FlattenSeq(blocks)
  <1>1. N \in Nat /\ DOMAIN results = 1 .. N
        /\ \A n \in 1 .. N : results[n] \in Access /\ results[n][field] \in Seq(Keys)
                             /\ results[n].task \in Nat
    <2>1. N \in Nat /\ DOMAIN results = 1 .. N
      OBVIOUS
    <2>2. ASSUME NEW n \in 1 .. N
          PROVE  results[n] \in Access
      BY <2>2
    <2>3. ASSUME NEW r \in Access
          PROVE  r[field] \in Seq(Keys) /\ r.task \in Nat
      BY <2>3 DEF Access
    <2> QED BY <2>1, <2>2, <2>3
  <1>2. ASSUME NEW n \in 1 .. N
        PROVE  /\ block(n) \in Seq(Nat)
               /\ ToSet(block(n)) = IF n \in accessing THEN {results[n].task} ELSE {}
    <2>1. DOMAIN results[n][field] = 1 .. Len(results[n][field])
          /\ Len(results[n][field]) \in Nat
      BY <1>1
    <2>2. IsFiniteSet(at(n))
      <3>1. IsFiniteSet(1 .. Len(results[n][field]))
        <4> DEFINE l == Len(results[n][field])
        <4>1. 1 \in Int /\ l \in Int
          BY <2>1
        <4> HIDE DEF l
        <4>2. IsFiniteSet(1 .. l)
          BY <4>1, FS_Interval
        <4> QED BY <4>2 DEF l
      <3>2. at(n) \in SUBSET (1 .. Len(results[n][field]))
        BY <2>1
      <3> HIDE DEF at
      <3> QED BY <3>1, <3>2, FS_Subset
    <2>3. n \in accessing <=> at(n) # {}
      BY <1>1, <2>1 DEF Contains
    <2> HIDE DEF at, accessing
    <2>4. Cardinality(at(n)) \in Nat /\ (Cardinality(at(n)) = 0 <=> at(n) = {})
      BY <2>2, FS_CardinalityType, FS_EmptySet
    <2>5. block(n) \in Seq(Nat)
      BY <1>1, <2>4
    <2>6. DOMAIN block(n) = 1 .. Cardinality(at(n))
          /\ \A m \in 1 .. Cardinality(at(n)) : block(n)[m] = results[n].task
      OBVIOUS
    <2>7. at(n) # {} => 1 \in 1 .. Cardinality(at(n))
      BY <2>4
    <2>8. at(n) = {} => 1 .. Cardinality(at(n)) = {}
      BY <2>4
    <2> HIDE DEF block
    <2> QED BY <2>3, <2>5, <2>6, <2>7, <2>8 DEF ToSet
  <1>3. blocks \in Seq(Seq(Nat)) /\ Len(blocks) = N /\ \A n \in 1 .. N : blocks[n] = block(n)
    <2> HIDE DEF block
    <2> QED BY <1>1, <1>2
  <1>4. accessing \subseteq 1 .. N
    BY <1>1
  <1> HIDE DEF block, blocks, accessing, N
  <1>5. listed \in Seq(Nat) /\ InOrder(listed, blocks, N)
    BY <1>3, FlattenFacts, FlattenOrder
  <1>6. \A n \in 1 .. N : \A x \in ToSet(blocks[n]) : n \in accessing /\ x = results[n].task
    BY <1>2, <1>3
  <1>7. \A n \in accessing : n \in 1 .. N /\ results[n].task \in ToSet(blocks[n])
    BY <1>2, <1>3, <1>4
  <1>8. ToSet(listed) = {results[n].task : n \in accessing}
    <2>1. ToSet(listed) = UNION {ToSet(blocks[i]) : i \in 1 .. N}
      BY <1>5 DEF InOrder
    <2> QED BY <1>6, <1>7, <2>1
  <1>9. \A a, b \in DOMAIN listed : a < b =>
          \E m, n \in accessing :
            m <= n /\ listed[a] = results[m].task /\ listed[b] = results[n].task
    <2> SUFFICES ASSUME NEW a \in DOMAIN listed, NEW b \in DOMAIN listed, a < b
                 PROVE  \E m, n \in accessing :
                          m <= n /\ listed[a] = results[m].task /\ listed[b] = results[n].task
      OBVIOUS
    <2>1. PICK i \in 1 .. N, j \in 1 .. N :
            i <= j /\ listed[a] \in ToSet(blocks[i]) /\ listed[b] \in ToSet(blocks[j])
      BY <1>5 DEF InOrder
    <2> QED BY <1>6, <2>1
  <1>10. \A m, n \in accessing : m < n =>
           \E a, b \in DOMAIN listed :
             a < b /\ listed[a] = results[m].task /\ listed[b] = results[n].task
    <2> SUFFICES ASSUME NEW m \in accessing, NEW n \in accessing, m < n
                 PROVE  \E a, b \in DOMAIN listed :
                          a < b /\ listed[a] = results[m].task /\ listed[b] = results[n].task
      OBVIOUS
    <2>1. \A x \in ToSet(blocks[m]), y \in ToSet(blocks[n]) :
            \E a, b \in DOMAIN listed : a < b /\ listed[a] = x /\ listed[b] = y
      <3>1. m \in 1 .. N /\ n \in 1 .. N
        BY <1>4
      <3>2. \A i, j \in 1 .. N : i < j =>
              \A x \in ToSet(blocks[i]), y \in ToSet(blocks[j]) :
                \E a, b \in DOMAIN listed : a < b /\ listed[a] = x /\ listed[b] = y
        <4>1. InOrder(listed, blocks, N)
          BY <1>5
        <4> QED BY ZenonT(30), <4>1 DEF InOrder
      <3> QED BY ZenonT(30), <3>1, <3>2
    <2> QED BY <1>7, <2>1
  <1>11. Accesses(results, field, k) = listed
    BY DEF Accesses, blocks, block
  <1> HIDE DEF listed
  <1> QED BY <1>5, <1>8, <1>9, <1>10, <1>11 DEF accessing

LEMMA ReadWriteFacts ==
  ASSUME NEW results \in Seq(Access), NEW k \in Keys
  PROVE  /\ ReadWritePairs(results, k) \in Seq(Pairs)
         /\ ToSet(ReadWritePairs(results, k)) =
              {Question("readWrite", k, tu[1], tu[2]) :
                 tu \in {tu \in ToSet(Writers(results, k)) \X ToSet(Readers(results, k)) :
                           tu[1] # tu[2]}}
  <1> DEFINE readers == Readers(results, k)
             writers == Writers(results, k)
             one(w, r) == IF readers[r] = writers[w] THEN <<>>
                          ELSE <<Question("readWrite", k, writers[w], readers[r])>>
             row(w) == [r \in DOMAIN readers |-> one(w, r)]
             rows == [w \in DOMAIN writers |-> FlattenSeq(row(w))]
  <1>1. readers \in Seq(Nat) /\ writers \in Seq(Nat)
    BY AccessesFacts DEF Readers, Writers
  <1> HIDE DEF readers, writers
  <1>2. ASSUME NEW w \in DOMAIN writers, NEW r \in DOMAIN readers
        PROVE  /\ one(w, r) \in Seq(Pairs)
               /\ ToSet(one(w, r)) =
                    IF readers[r] = writers[w] THEN {}
                    ELSE {Question("readWrite", k, writers[w], readers[r])}
    <2>1. Question("readWrite", k, writers[w], readers[r]) \in Pairs
      BY <1>1 DEF Question, Pairs
    <2> HIDE DEF Question
    <2>2. ASSUME NEW q \in Pairs
          PROVE  <<q>> \in Seq(Pairs) /\ ToSet(<<q>>) = {q}
      BY DEF ToSet
    <2>3. <<>> \in Seq(Pairs)
      OBVIOUS
    <2> QED BY <2>1, <2>2, <2>3, EmptyFacts
  <1> HIDE DEF one
  <1>3. ASSUME NEW w \in DOMAIN writers
        PROVE  /\ FlattenSeq(row(w)) \in Seq(Pairs)
               /\ ToSet(FlattenSeq(row(w))) =
                    {Question("readWrite", k, writers[w], u) : u \in ToSet(readers) \ {writers[w]}}
    <2>1. row(w) \in Seq(Seq(Pairs)) /\ Len(row(w)) = Len(readers)
          /\ \A r \in 1 .. Len(readers) : row(w)[r] = one(w, r)
      <3>1. Len(readers) \in Nat /\ DOMAIN readers = 1 .. Len(readers)
        BY <1>1
      <3>2. \A r \in 1 .. Len(readers) : one(w, r) \in Seq(Pairs)
        BY <1>2, <3>1
      <3>3. row(w) = [r \in 1 .. Len(readers) |-> one(w, r)]
        BY <3>1
      <3> HIDE DEF row
      <3> QED BY <3>1, <3>2, <3>3
    <2>2. DOMAIN readers = 1 .. Len(readers)
      BY <1>1
    <2> HIDE DEF row
    <2>3. FlattenSeq(row(w)) \in Seq(Pairs)
          /\ ToSet(FlattenSeq(row(w))) = UNION {ToSet(row(w)[r]) : r \in 1 .. Len(readers)}
      BY <2>1, FlattenFacts
    <2>4. ASSUME NEW q \in ToSet(FlattenSeq(row(w)))
          PROVE  \E u \in ToSet(readers) \ {writers[w]} :
                   q = Question("readWrite", k, writers[w], u)
      <3>1. PICK r \in 1 .. Len(readers) : q \in ToSet(one(w, r))
        BY <2>1, <2>3
      <3>2. readers[r] # writers[w] /\ q = Question("readWrite", k, writers[w], readers[r])
        BY <1>2, <2>2, <3>1
      <3>3. readers[r] \in ToSet(readers)
        BY <2>2 DEF ToSet
      <3> QED BY <3>2, <3>3
    <2>5. ASSUME NEW u \in ToSet(readers) \ {writers[w]}
          PROVE  Question("readWrite", k, writers[w], u) \in ToSet(FlattenSeq(row(w)))
      <3>1. PICK r \in 1 .. Len(readers) : readers[r] = u
        BY <2>2 DEF ToSet
      <3>2. Question("readWrite", k, writers[w], u) \in ToSet(one(w, r))
        BY <1>2, <2>2, <3>1
      <3> QED BY <2>1, <2>3, <3>2
    <2> QED BY <2>3, <2>4, <2>5
  <1>4. rows \in Seq(Seq(Pairs)) /\ Len(rows) = Len(writers) /\ DOMAIN writers = 1 .. Len(writers)
        /\ \A w \in 1 .. Len(writers) : rows[w] = FlattenSeq(row(w))
    <2>1. Len(writers) \in Nat /\ DOMAIN writers = 1 .. Len(writers)
      BY <1>1
    <2>2. rows = [w \in 1 .. Len(writers) |-> FlattenSeq(row(w))]
      BY <2>1
    <2> HIDE DEF row, rows
    <2> QED BY <1>3, <2>1, <2>2
  <1>5. ReadWritePairs(results, k) = FlattenSeq(rows)
    BY DEF ReadWritePairs, readers, writers, rows, row, one
  <1> HIDE DEF row, rows
  <1>6. FlattenSeq(rows) \in Seq(Pairs)
        /\ ToSet(FlattenSeq(rows)) = UNION {ToSet(rows[w]) : w \in 1 .. Len(writers)}
    BY <1>4, FlattenFacts
  <1>7. ToSet(FlattenSeq(rows)) =
          {Question("readWrite", k, tu[1], tu[2]) :
             tu \in {tu \in ToSet(writers) \X ToSet(readers) : tu[1] # tu[2]}}
    <2>1. ASSUME NEW q \in ToSet(FlattenSeq(rows))
          PROVE  \E tu \in ToSet(writers) \X ToSet(readers) :
                   tu[1] # tu[2] /\ q = Question("readWrite", k, tu[1], tu[2])
      <3>1. PICK w \in 1 .. Len(writers) : q \in ToSet(FlattenSeq(row(w)))
        BY <1>4, <1>6
      <3>2. PICK u \in ToSet(readers) \ {writers[w]} :
              q = Question("readWrite", k, writers[w], u)
        BY <1>3, <1>4, <3>1
      <3>3. writers[w] \in ToSet(writers)
        BY <1>4 DEF ToSet
      <3>4. <<writers[w], u>> \in ToSet(writers) \X ToSet(readers)
            /\ <<writers[w], u>>[1] = writers[w] /\ <<writers[w], u>>[2] = u
        BY <3>3
      <3> QED BY <3>2, <3>4
    <2>2. ASSUME NEW t \in ToSet(writers), NEW u \in ToSet(readers), t # u
          PROVE  Question("readWrite", k, t, u) \in ToSet(FlattenSeq(rows))
      <3>1. PICK w \in 1 .. Len(writers) : writers[w] = t
        BY <1>4 DEF ToSet
      <3>2. Question("readWrite", k, t, u) \in ToSet(FlattenSeq(row(w)))
        BY <1>3, <1>4, <2>2, <3>1
      <3> QED BY <1>4, <1>6, <3>2
    <2> QED BY <2>1, <2>2
  <1> QED BY <1>5, <1>6, <1>7 DEF readers, writers

LEMMA WriteWriteFacts ==
  ASSUME NEW results \in Seq(Access), NEW k \in Keys
  PROVE  LET writers == Writers(results, k)
         IN  /\ WriteWritePairs(results, k) \in Seq(Pairs)
             /\ ToSet(WriteWritePairs(results, k)) =
                  {Question("writeWrite", k, writers[ab[1]], writers[ab[2]]) :
                     ab \in {ab \in (DOMAIN writers) \X (DOMAIN writers) : ab[1] < ab[2]}}
  <1> DEFINE writers == Writers(results, k)
             N == Len(writers)
             row(w) == [n \in 1 .. N - w |->
                          Question("writeWrite", k, writers[w], writers[w + n])]
             rows == [w \in DOMAIN writers |-> row(w)]
  <1>1. writers \in Seq(Nat)
    BY AccessesFacts DEF Writers
  <1> HIDE DEF writers
  <1>2. N \in Nat /\ DOMAIN writers = 1 .. N
    BY <1>1
  <1>3. ASSUME NEW a \in 1 .. N, NEW b \in 1 .. N
        PROVE  Question("writeWrite", k, writers[a], writers[b]) \in Pairs
    BY <1>1 DEF Question, Pairs
  <1> HIDE DEF N
  <1>4. ASSUME NEW w \in 1 .. N
        PROVE  /\ row(w) \in Seq(Pairs)
               /\ ToSet(row(w)) =
                    {Question("writeWrite", k, writers[w], writers[b]) : b \in w + 1 .. N}
    <2>1. N - w \in Nat /\ \A n \in 1 .. N - w : w + n \in 1 .. N /\ w + n \in w + 1 .. N
      BY <1>2
    <2>2. \A b \in w + 1 .. N : b - w \in 1 .. N - w /\ w + (b - w) = b
      BY <1>2
    <2>3. row(w) \in Seq(Pairs)
      BY <1>3, <2>1
    <2>4. DOMAIN row(w) = 1 .. N - w
      OBVIOUS
    <2> QED BY <2>1, <2>2, <2>3, <2>4 DEF ToSet
  <1>5. rows \in Seq(Seq(Pairs)) /\ Len(rows) = N /\ \A w \in 1 .. N : rows[w] = row(w)
    <2> HIDE DEF row
    <2> QED BY <1>2, <1>4
  <1>6. WriteWritePairs(results, k) = FlattenSeq(rows)
    BY DEF WriteWritePairs, writers, N, rows, row
  <1> HIDE DEF row, rows
  <1>7. FlattenSeq(rows) \in Seq(Pairs)
        /\ ToSet(FlattenSeq(rows)) = UNION {ToSet(row(w)) : w \in 1 .. N}
    <2>1. ToSet(FlattenSeq(rows)) = UNION {ToSet(rows[w]) : w \in 1 .. N}
          /\ FlattenSeq(rows) \in Seq(Pairs)
      BY <1>5, FlattenFacts
    <2> QED BY <1>5, <2>1
  <1>8. \A a, b \in 1 .. N : a < b <=> b \in a + 1 .. N
    BY <1>2
  <1>9. ToSet(FlattenSeq(rows)) =
          {Question("writeWrite", k, writers[ab[1]], writers[ab[2]]) :
             ab \in {ab \in (1 .. N) \X (1 .. N) : ab[1] < ab[2]}}
    <2>1. ASSUME NEW q \in ToSet(FlattenSeq(rows))
          PROVE  \E ab \in (1 .. N) \X (1 .. N) :
                   ab[1] < ab[2] /\ q = Question("writeWrite", k, writers[ab[1]], writers[ab[2]])
      <3>1. PICK a \in 1 .. N : q \in ToSet(row(a))
        BY <1>7
      <3>2. PICK b \in a + 1 .. N : q = Question("writeWrite", k, writers[a], writers[b])
        BY <1>4, <3>1
      <3>3. b \in 1 .. N /\ a < b
        BY <1>2
      <3>4. <<a, b>> \in (1 .. N) \X (1 .. N) /\ <<a, b>>[1] = a /\ <<a, b>>[2] = b
        BY <3>3
      <3> QED BY <3>2, <3>3, <3>4
    <2>2. ASSUME NEW a \in 1 .. N, NEW b \in 1 .. N, a < b
          PROVE  Question("writeWrite", k, writers[a], writers[b]) \in ToSet(FlattenSeq(rows))
      BY <1>4, <1>7, <1>8, <2>2
    <2> DEFINE asked == {Question("writeWrite", k, writers[ab[1]], writers[ab[2]]) :
                           ab \in {ab \in (1 .. N) \X (1 .. N) : ab[1] < ab[2]}}
    <2>3. ToSet(FlattenSeq(rows)) \subseteq asked
      BY <2>1
    <2>4. asked \subseteq ToSet(FlattenSeq(rows))
      BY <2>2
    <2> QED BY <2>3, <2>4
  <1> QED BY <1>2, <1>6, <1>7, <1>9 DEF writers

\* What a task is asked about is what it conflicts in, unless a task writes k twice.
LEMMA ConflictFacts ==
  ASSUME NEW results \in Seq(Access), NEW k \in Keys
  PROVE  /\ Writers(results, k) = <<>> => Conflicts(results, k) = {}
         /\ IsInjective(Writers(results, k)) =>
              /\ Conflicts(results, k) = ToSet(ReadWritePairs(results, k))
                                           \cup ToSet(WriteWritePairs(results, k))
              /\ \A p \in Conflicts(results, k) : p.key = k /\ p.task1 # p.task2
  <1> DEFINE writers == Writers(results, k)
             accessing(field) == {n \in DOMAIN results : Contains(results[n][field], k)}
             W == accessing("writes")
             R == accessing("reads")
             task(n) == results[n].task
             RW == {Question("readWrite", k, task(mn[1]), task(mn[2])) :
                      mn \in {mn \in W \X R : task(mn[1]) # task(mn[2])}}
             WW == {Question("writeWrite", k, task(mn[1]), task(mn[2])) :
                      mn \in {mn \in W \X W : mn[1] < mn[2]}}
  <1>1. Conflicts(results, k) = RW \cup WW
    BY DEF Conflicts
  <1>2. /\ writers \in Seq(Nat) /\ ToSet(writers) = {task(n) : n \in W}
        /\ \A a, b \in DOMAIN writers : a < b =>
             \E m, n \in W : m <= n /\ writers[a] = task(m) /\ writers[b] = task(n)
        /\ \A m, n \in W : m < n =>
             \E a, b \in DOMAIN writers : a < b /\ writers[a] = task(m) /\ writers[b] = task(n)
    BY AccessesFacts DEF Writers
  <1>3. ToSet(Readers(results, k)) = {task(n) : n \in R}
    BY AccessesFacts DEF Readers
  <1>4. W \subseteq Nat
    OBVIOUS
  <1> HIDE DEF writers, W, R, task
  <1>5. CASE writers = <<>>
    <2>1. ToSet(writers) = {} /\ DOMAIN writers = {}
      BY <1>5, EmptyFacts
    <2>2. W = {}
      BY <1>2, <2>1
    <2>3. Conflicts(results, k) = {}
      BY <1>1, <2>2
    <2>4. ToSet(ReadWritePairs(results, k)) = {}
      BY <2>1, ReadWriteFacts DEF writers
    <2>5. ToSet(WriteWritePairs(results, k)) = {}
      BY <2>1, WriteWriteFacts DEF writers
    <2> QED BY <2>3, <2>4, <2>5
  <1>6. CASE writers # <<>>
    <2> SUFFICES ASSUME IsInjective(writers)
                 PROVE  /\ RW = ToSet(ReadWritePairs(results, k))
                        /\ WW = ToSet(WriteWritePairs(results, k))
                        /\ \A p \in RW \cup WW : p.key = k /\ p.task1 # p.task2
      BY <1>1, <1>6 DEF writers
    <2>1. ToSet(ReadWritePairs(results, k)) =
            {Question("readWrite", k, tu[1], tu[2]) :
               tu \in {tu \in {task(n) : n \in W} \X {task(n) : n \in R} : tu[1] # tu[2]}}
      BY <1>2, <1>3, ReadWriteFacts DEF writers
    <2>2. RW = ToSet(ReadWritePairs(results, k))
      <3>1. ASSUME NEW m \in W, NEW n \in R, task(m) # task(n)
            PROVE  Question("readWrite", k, task(m), task(n)) \in ToSet(ReadWritePairs(results, k))
        <4>1. <<task(m), task(n)>> \in {task(j) : j \in W} \X {task(j) : j \in R}
          OBVIOUS
        <4> QED BY <2>1, <3>1, <4>1
      <3>2. ASSUME NEW q \in ToSet(ReadWritePairs(results, k))
            PROVE  q \in RW
        <4>1. PICK m \in W, n \in R :
                task(m) # task(n) /\ q = Question("readWrite", k, task(m), task(n))
          BY <2>1
        <4>2. <<m, n>> \in W \X R /\ <<m, n>>[1] = m /\ <<m, n>>[2] = n
          OBVIOUS
        <4> QED BY <4>1, <4>2
      <3> QED BY <3>1, <3>2
    <2>3. ToSet(WriteWritePairs(results, k)) =
            {Question("writeWrite", k, writers[ab[1]], writers[ab[2]]) :
               ab \in {ab \in (DOMAIN writers) \X (DOMAIN writers) : ab[1] < ab[2]}}
      BY WriteWriteFacts DEF writers
    <2>4. DOMAIN writers = 1 .. Len(writers) /\ Len(writers) \in Nat
      BY <1>2
    <2>5. \A a, b \in DOMAIN writers : a < b => writers[a] # writers[b]
      BY <2>4 DEF IsInjective
    <2>6. WW = ToSet(WriteWritePairs(results, k))
      <3>1. ASSUME NEW m \in W, NEW n \in W, m < n
            PROVE  Question("writeWrite", k, task(m), task(n)) \in ToSet(WriteWritePairs(results, k))
        <4>1. PICK a \in DOMAIN writers, b \in DOMAIN writers :
                a < b /\ writers[a] = task(m) /\ writers[b] = task(n)
          BY <1>2, <3>1
        <4>2. <<a, b>> \in (DOMAIN writers) \X (DOMAIN writers)
              /\ <<a, b>>[1] = a /\ <<a, b>>[2] = b
          OBVIOUS
        <4> QED BY <2>3, <4>1, <4>2
      <3>2. ASSUME NEW q \in ToSet(WriteWritePairs(results, k))
            PROVE  q \in WW
        <4>1. PICK a \in DOMAIN writers, b \in DOMAIN writers :
                a < b /\ q = Question("writeWrite", k, writers[a], writers[b])
          BY <2>3
        <4>2. PICK m \in W, n \in W : m <= n /\ writers[a] = task(m) /\ writers[b] = task(n)
          BY <1>2, <4>1
        <4>3. m # n
          BY <2>5, <4>1, <4>2
        <4>4. m < n
          BY <1>4, <4>2, <4>3
        <4>5. <<m, n>> \in W \X W /\ <<m, n>>[1] = m /\ <<m, n>>[2] = n
          OBVIOUS
        <4> QED BY <4>1, <4>2, <4>4, <4>5
      <3> QED BY <3>1, <3>2
    <2>7. \A p \in RW : p.key = k /\ p.task1 # p.task2
      BY DEF Question
    <2>8. \A p \in WW : p.key = k /\ p.task1 # p.task2
      <3> SUFFICES ASSUME NEW p \in WW
                   PROVE  p.key = k /\ p.task1 # p.task2
        OBVIOUS
      <3>1. PICK a \in DOMAIN writers, b \in DOMAIN writers :
              a < b /\ p = Question("writeWrite", k, writers[a], writers[b])
        BY <2>3, <2>6
      <3> QED BY <2>5, <3>1 DEF Question
    <2> QED BY <2>2, <2>6, <2>7, <2>8
  <1> QED BY <1>5, <1>6

\* Finitely many keys are written.
LEMMA WrittenKeysFinite ==
  ASSUME NEW results \in Seq(Access)
  PROVE  IsFiniteSet({k \in Keys : Writers(results, k) # <<>>})
  <1> DEFINE N == Len(results)
             S == {k \in Keys : Writers(results, k) # <<>>}
             all == [n \in 1 .. N |-> results[n].writes]
  <1>1. N \in Nat /\ DOMAIN results = 1 .. N /\ \A n \in 1 .. N : results[n].writes \in Seq(Keys)
    <2>1. N \in Nat /\ DOMAIN results = 1 .. N /\ \A n \in 1 .. N : results[n] \in Access
      OBVIOUS
    <2> QED BY <2>1 DEF Access
  <1>2. all \in Seq(Seq(Keys)) /\ Len(all) = N /\ \A n \in 1 .. N : all[n] = results[n].writes
    <2> HIDE DEF N
    <2> QED BY <1>1
  <1>3. FlattenSeq(all) \in Seq(Keys)
        /\ ToSet(FlattenSeq(all)) = UNION {ToSet(all[n]) : n \in 1 .. N}
    <2> HIDE DEF all, N
    <2> QED BY <1>2, FlattenFacts
  <1>4. S \subseteq ToSet(FlattenSeq(all))
    <2> SUFFICES ASSUME NEW k \in S
                 PROVE  k \in ToSet(FlattenSeq(all))
      OBVIOUS
    <2>1. Writers(results, k) \in Seq(Nat)
          /\ ToSet(Writers(results, k)) =
               {results[n].task : n \in {n \in DOMAIN results : Contains(results[n].writes, k)}}
      BY AccessesFacts DEF Writers
    <2>2. 1 \in DOMAIN Writers(results, k)
      BY <2>1
    <2>3. ToSet(Writers(results, k)) # {}
      BY <2>2 DEF ToSet
    <2>4. PICK n \in 1 .. N : Contains(results[n].writes, k)
      BY <1>1, <2>1, <2>3
    <2>5. k \in ToSet(all[n])
      BY <1>1, <1>2, <2>4 DEF Contains, ToSet
    <2> HIDE DEF all
    <2> QED BY <1>3, <2>5
  <1> HIDE DEF all, S
  <1>5. IsFiniteSet(ToSet(FlattenSeq(all)))
    BY <1>3, ElementsFinite
  <1> QED BY <1>4, <1>5, FS_Subset DEF S

\* DetectConflicts asks about the conflicts of every key no task writes twice.
LEMMA QuestionsFacts ==
  ASSUME NEW results \in Seq(Access), NEW todo \in Questions(results)
  PROVE  /\ todo \in Seq(Pairs)
         /\ \A k \in Keys : IsInjective(Writers(results, k)) =>
              About(todo, k) = Conflicts(results, k)
  <1> DEFINE S == {k \in Keys : Writers(results, k) # <<>>}
             rw(o) == [n \in DOMAIN o |-> ReadWritePairs(results, o[n])]
             ww(p) == [n \in DOMAIN p |-> WriteWritePairs(results, p[n])]
  <1>1. PICK o \in SetToSeqs(S), p \in SetToSeqs(S) :
          todo = FlattenSeq(rw(o)) \o FlattenSeq(ww(p))
    <2>1. Questions(results) =
            {FlattenSeq(rw(o)) \o FlattenSeq(ww(p)) : o, p \in SetToSeqs(S)}
      BY DEF Questions
    <2> HIDE DEF S, rw, ww
    <2> QED BY <2>1
  <1>2. IsFiniteSet(S) /\ S \subseteq Keys
    BY WrittenKeysFinite
  <1>3. o \in Seq(S) /\ p \in Seq(S) /\ ToSet(o) = S /\ ToSet(p) = S
    <2> HIDE DEF S
    <2> QED BY <1>2, ListingFacts
  <1> DEFINE RW(k) == ToSet(ReadWritePairs(results, k))
             WW(k) == ToSet(WriteWritePairs(results, k))
  <1>4. ASSUME NEW k \in Keys
        PROVE  /\ \A q \in RW(k) \cup WW(k) : q.key = k
               /\ ReadWritePairs(results, k) \in Seq(Pairs)
               /\ WriteWritePairs(results, k) \in Seq(Pairs)
    BY ReadWriteFacts, WriteWriteFacts DEF Question
  <1>5. FlattenSeq(rw(o)) \in Seq(Pairs) /\ ToSet(FlattenSeq(rw(o))) = UNION {RW(k) : k \in S}
    <2>1. Len(o) \in Nat /\ DOMAIN o = 1 .. Len(o) /\ \A n \in 1 .. Len(o) : o[n] \in S
      BY <1>3
    <2>2. rw(o) = [n \in 1 .. Len(o) |-> ReadWritePairs(results, o[n])]
      BY <2>1
    <2>3. \A n \in 1 .. Len(o) : ReadWritePairs(results, o[n]) \in Seq(Pairs)
      BY <1>2, <1>4, <2>1
    <2> HIDE DEF rw, S, RW, WW
    <2>4. rw(o) \in Seq(Seq(Pairs)) /\ Len(rw(o)) = Len(o)
          /\ \A n \in 1 .. Len(o) : rw(o)[n] = ReadWritePairs(results, o[n])
      BY <2>1, <2>2, <2>3
    <2>5. FlattenSeq(rw(o)) \in Seq(Pairs)
          /\ ToSet(FlattenSeq(rw(o))) = UNION {ToSet(rw(o)[n]) : n \in 1 .. Len(o)}
      BY <2>4, FlattenFacts
    <2>6. ASSUME NEW q \in ToSet(FlattenSeq(rw(o)))
          PROVE  \E k \in S : q \in RW(k)
      BY <2>1, <2>4, <2>5 DEF RW
    <2>7. ASSUME NEW k \in S, NEW q \in RW(k)
          PROVE  q \in ToSet(FlattenSeq(rw(o)))
      <3>1. PICK n \in 1 .. Len(o) : o[n] = k
        BY <1>3, <2>1 DEF ToSet
      <3> QED BY <2>4, <2>5, <2>7, <3>1 DEF RW
    <2> QED BY <2>5, <2>6, <2>7
  <1>6. FlattenSeq(ww(p)) \in Seq(Pairs) /\ ToSet(FlattenSeq(ww(p))) = UNION {WW(k) : k \in S}
    <2>1. Len(p) \in Nat /\ DOMAIN p = 1 .. Len(p) /\ \A n \in 1 .. Len(p) : p[n] \in S
      BY <1>3
    <2>2. ww(p) = [n \in 1 .. Len(p) |-> WriteWritePairs(results, p[n])]
      BY <2>1
    <2>3. \A n \in 1 .. Len(p) : WriteWritePairs(results, p[n]) \in Seq(Pairs)
      BY <1>2, <1>4, <2>1
    <2> HIDE DEF ww, S, RW, WW
    <2>4. ww(p) \in Seq(Seq(Pairs)) /\ Len(ww(p)) = Len(p)
          /\ \A n \in 1 .. Len(p) : ww(p)[n] = WriteWritePairs(results, p[n])
      BY <2>1, <2>2, <2>3
    <2>5. FlattenSeq(ww(p)) \in Seq(Pairs)
          /\ ToSet(FlattenSeq(ww(p))) = UNION {ToSet(ww(p)[n]) : n \in 1 .. Len(p)}
      BY <2>4, FlattenFacts
    <2>6. ASSUME NEW q \in ToSet(FlattenSeq(ww(p)))
          PROVE  \E k \in S : q \in WW(k)
      BY <2>1, <2>4, <2>5 DEF WW
    <2>7. ASSUME NEW k \in S, NEW q \in WW(k)
          PROVE  q \in ToSet(FlattenSeq(ww(p)))
      <3>1. PICK n \in 1 .. Len(p) : p[n] = k
        BY <1>3, <2>1 DEF ToSet
      <3> QED BY <2>4, <2>5, <2>7, <3>1 DEF WW
    <2> QED BY <2>5, <2>6, <2>7
  <1> HIDE DEF rw, ww
  <1>7. todo \in Seq(Pairs)
        /\ ToSet(todo) = (UNION {RW(k) : k \in S}) \cup (UNION {WW(k) : k \in S})
    BY SMTT(30), <1>1, <1>5, <1>6, ConcatFacts
  <1>8. ASSUME NEW k \in Keys, IsInjective(Writers(results, k))
        PROVE  About(todo, k) = Conflicts(results, k)
    <2>1. k \notin S => RW(k) = {} /\ WW(k) = {}
      <3> SUFFICES ASSUME Writers(results, k) = <<>>
                   PROVE  RW(k) = {} /\ WW(k) = {}
        OBVIOUS
      <3> QED BY <1>8, ConflictFacts
    <2>2. \A q : q \in About(todo, k) <=> q \in RW(k) \cup WW(k)
      <3> HIDE DEF S, RW, WW
      <3> QED BY <1>2, <1>4, <1>7, <2>1 DEF About
    <2>3. Conflicts(results, k) = RW(k) \cup WW(k)
      BY <1>8, ConflictFacts
    <2> HIDE DEF RW, WW
    <2> QED BY <2>2, <2>3
  <1> QED BY <1>7, <1>8

--------------------------------------------------------------------------------
(* The steps of DetectConflicts *)

DetectOK == setup \in Setups /\ DetectionTypeOK /\ DetectionInv

CallRec == [pc: {"none", "ask", "store", "returned"}, todo: Seq(Pairs), found: Seq(Pairs)]

LEMMA CallRecs ==
  ASSUME DetectOK
  PROVE  call \in [Calls -> CallRec]
  BY DEF DetectOK, DetectionTypeOK, CallRec

\* What DetectionInv says of one call.
CallOK(c) ==
  /\ call[c].pc = "none" => call[c].found = <<>>
  /\ call[c].pc = "store" => call[c].todo # <<>>
  /\ call[c].pc = "returned" => call[c].todo = <<>>
  /\ call[c].pc # "none" => \A k \in {l \in Keys : ~ Repeated(l)} :
       About(call[c].found, k) \cup About(call[c].todo, k) = Conflicts(setup.calls[c], k)

LEMMA DetectionParts ==
  DetectionInv <=> /\ IsFiniteSet(DOMAIN cache)
                   /\ \A k \in DOMAIN cache : ~ Repeated(k) => cache[k]
                   /\ \A c \in Calls : CallOK(c)
  BY DEF DetectionInv, CallOK

LEMMA DetectFrame ==
  ASSUME DetectOK, UNCHANGED <<setup, cache, call>>
  PROVE  DetectOK'
  BY DEF DetectOK, DetectionTypeOK, DetectionInv, Calls, Repeated

\* A call that began has only questions about different tasks, as to the keys that no
\* task writes twice.
LEMMA QuestionsDiffer ==
  ASSUME DetectOK, NEW c \in Calls, call[c].pc # "none", call[c].todo # <<>>
  PROVE  LET asked == Head(call[c].todo)
         IN  asked.key \in Keys /\ (~ Repeated(asked.key) => asked.task1 # asked.task2)
  <1> DEFINE asked == Head(call[c].todo)
             k == asked.key
             results == setup.calls[c]
  <1>1. call[c].todo \in Seq(Pairs)
    BY CallRecs DEF CallRec
  <1>2. asked \in Pairs /\ asked \in ToSet(call[c].todo)
    BY <1>1, TailFacts
  <1>3. k \in Keys
    BY <1>2 DEF Pairs
  <1>4. ASSUME ~ Repeated(k)
        PROVE  asked.task1 # asked.task2
    <2>1. IsInjective(Writers(results, k))
      BY <1>4 DEF Repeated
    <2>2. results \in Seq(Access)
      BY CallFacts DEF DetectOK
    <2>3. asked \in About(call[c].todo, k)
      BY <1>2 DEF About
    <2>4. About(call[c].todo, k) \subseteq Conflicts(results, k)
      BY <1>3, <1>4 DEF DetectOK, DetectionInv
    <2> HIDE DEF asked, k, results
    <2>5. \A p \in Conflicts(results, k) : p.task1 # p.task2
      BY <1>3, <2>1, <2>2, ConflictFacts
    <2> QED BY <2>3, <2>4, <2>5
  <1> QED BY <1>3, <1>4

\* Taking the answer to a question keeps what is found and what is still to be asked.
LEMMA AnsweredKeeps ==
  ASSUME DetectOK, NEW c \in Calls, call[c].pc # "none", call[c].todo # <<>>,
         NEW conflict, ~ Repeated(Head(call[c].todo).key) => conflict,
         call' = Answered(c, conflict), setup' = setup
  PROVE  /\ call' \in [Calls -> CallRec]
         /\ \A k : Repeated(k)' <=> Repeated(k)
         /\ \A d \in Calls : CallOK(d)'
  <1> DEFINE C == call[c]
             asked == Head(C.todo)
             found == IF conflict THEN Append(C.found, asked) ELSE C.found
  <1>1. C \in CallRec /\ C.todo \in Seq(Pairs) /\ C.found \in Seq(Pairs)
    BY CallRecs DEF CallRec
  <1>2. /\ asked \in Pairs /\ Tail(C.todo) \in Seq(Pairs)
        /\ ToSet(C.todo) = ToSet(Tail(C.todo)) \cup {asked}
    BY <1>1, TailFacts
  <1>3. /\ Append(C.found, asked) \in Seq(Pairs)
        /\ ToSet(Append(C.found, asked)) = ToSet(C.found) \cup {asked}
    BY <1>1, <1>2, AppendFacts
  <1>4. /\ found \in Seq(Pairs)
        /\ ToSet(found) = IF conflict THEN ToSet(C.found) \cup {asked} ELSE ToSet(C.found)
    BY <1>1, <1>3
  <1> HIDE DEF asked
  <1>5. call \in [Calls -> CallRec]
    BY CallRecs
  <1>6. call' = [call EXCEPT ![c] = [C EXCEPT !.pc = "ask", !.todo = Tail(C.todo),
                                               !.found = found]]
    BY <1>5 DEF Answered, asked
  <1>7. PICK D : D = [C EXCEPT !.pc = "ask", !.todo = Tail(C.todo), !.found = found]
    OBVIOUS
  <1> HIDE DEF found
  <1>8. D \in CallRec /\ D.pc = "ask" /\ D.todo = Tail(C.todo) /\ D.found = found
    BY <1>1, <1>2, <1>4, <1>7 DEF CallRec
  <1>9. call' = [call EXCEPT ![c] = D] /\ call'[c] = D /\ \A d \in Calls \ {c} : call'[d] = call[d]
    BY <1>5, <1>6, <1>7
  <1>10. call' \in [Calls -> CallRec]
    BY <1>5, <1>8, <1>9
  <1>11. \A k : Repeated(k)' <=> Repeated(k)
    <2>1. \A d \in Calls : call'[d].pc # "none" <=> call[d].pc # "none"
      BY <1>8, <1>9
    <2> QED BY <2>1 DEF Repeated, Calls
  <1>12. ASSUME NEW k \in Keys, ~ Repeated(k)
         PROVE  About(found, k) \cup About(Tail(C.todo), k) = About(C.found, k) \cup About(C.todo, k)
    <2>1. asked.key = k => conflict
      BY <1>12 DEF asked
    <2> QED BY <1>2, <1>4, <2>1 DEF About
  <1>13. ASSUME NEW d \in Calls
         PROVE  CallOK(d)'
    <2>1. CallOK(d)
      BY DetectionParts DEF DetectOK
    <2>2. CASE d = c
      <3>1. ASSUME NEW k \in Keys, ~ Repeated(k)
            PROVE  About(call'[c].found, k) \cup About(call'[c].todo, k)
                     = Conflicts(setup.calls[c], k)
        <4>1. About(C.found, k) \cup About(C.todo, k) = Conflicts(setup.calls[c], k)
          BY <2>1, <2>2, <3>1 DEF CallOK
        <4> QED BY <1>8, <1>9, <1>12, <3>1, <4>1
      <3>2. call'[d].pc = "ask"
        BY <1>8, <1>9, <2>2
      <3> QED BY <1>11, <2>2, <3>1, <3>2 DEF CallOK
    <2>3. CASE d # c
      <3>1. call'[d] = call[d]
        BY <1>9, <2>3
      <3> QED BY <1>11, <2>1, <3>1 DEF CallOK
    <2> QED BY <2>2, <2>3
  <1> QED BY <1>10, <1>11, <1>13

LEMMA DetectOKFromParts ==
  ASSUME setup \in Setups, setup' = setup, call' \in [Calls -> CallRec],
         DOMAIN cache' \subseteq Keys, IsFiniteSet(DOMAIN cache'),
         Cardinality(DOMAIN cache') <= MaxCacheSize,
         \A k \in DOMAIN cache' : cache'[k] \in BOOLEAN /\ (~ Repeated(k)' => cache'[k]),
         \A c \in Calls : CallOK(c)'
  PROVE  DetectOK'
  <1>1. Calls' = Calls
    BY DEF Calls
  <1>2. DetectionTypeOK'
    BY <1>1 DEF DetectionTypeOK, CallRec
  <1>3. DetectionInv'
    <2>1. (/\ IsFiniteSet(DOMAIN cache)
           /\ \A k \in DOMAIN cache : ~ Repeated(k) => cache[k]
           /\ \A c \in Calls : CallOK(c))'
      BY <1>1
    <2> QED BY <2>1, DetectionParts, PTL
  <1> QED BY <1>2, <1>3 DEF DetectOK

LEMMA CacheFacts ==
  ASSUME DetectOK
  PROVE  /\ DOMAIN cache \subseteq Keys /\ IsFiniteSet(DOMAIN cache)
         /\ Cardinality(DOMAIN cache) <= MaxCacheSize
         /\ \A k \in DOMAIN cache : cache[k] \in BOOLEAN /\ (~ Repeated(k) => cache[k])
  BY DEF DetectOK, DetectionTypeOK, DetectionInv

LEMMA DetectConflictsStep ==
  ASSUME DetectOK, NEW c \in Calls, DetectConflicts(c)
  PROVE  DetectOK'
  <1> DEFINE C == call[c]
             results == setup.calls[c]
  <1>1. call \in [Calls -> CallRec] /\ C \in CallRec /\ C.pc = "none"
    BY CallRecs DEF DetectConflicts
  <1>2. PICK todo \in Questions(results) :
          call' = [call EXCEPT ![c].pc = "ask", ![c].todo = todo]
    BY DEF DetectConflicts
  <1>3. results \in Seq(Access)
    BY CallFacts DEF DetectOK
  <1> HIDE DEF results
  <1>4. /\ todo \in Seq(Pairs)
        /\ \A k \in Keys : IsInjective(Writers(results, k)) => About(todo, k) = Conflicts(results, k)
    BY <1>3, QuestionsFacts
  <1>5. PICK D : D = [C EXCEPT !.pc = "ask", !.todo = todo]
    OBVIOUS
  <1>6. D \in CallRec /\ D.pc = "ask" /\ D.todo = todo /\ D.found = C.found
    BY <1>1, <1>4, <1>5 DEF CallRec
  <1>7. call'[c] = D /\ (\A d \in Calls \ {c} : call'[d] = call[d]) /\ call' \in [Calls -> CallRec]
    BY <1>1, <1>2, <1>5, <1>6
  <1>8. setup' = setup /\ cache' = cache
    BY DEF DetectConflicts, validatorVars
  <1>9. \A k : Repeated(k) => Repeated(k)'
    <2>1. \A d \in Calls : call[d].pc # "none" => call'[d].pc # "none"
      BY <1>6, <1>7
    <2> QED BY <1>8, <2>1 DEF Repeated, Calls
  <1>10. ASSUME NEW k \in Keys, ~ Repeated(k)'
         PROVE  IsInjective(Writers(results, k))
    <2>1. c \in Calls' /\ call'[c].pc # "none" /\ setup'.calls[c] = results
      BY <1>6, <1>7, <1>8 DEF Calls, results
    <2> QED BY <1>10, <2>1 DEF Repeated
  <1>11. ASSUME NEW d \in Calls
         PROVE  CallOK(d)'
    <2>1. CallOK(d)
      BY DetectionParts DEF DetectOK
    <2>2. CASE d = c
      <3>1. C.found = <<>>
        BY <1>1, <2>1, <2>2 DEF CallOK
      <3>2. \A k \in Keys : About(D.found, k) = {}
        BY <1>6, <3>1, EmptyFacts DEF About
      <3>3. \A k \in Keys : ~ Repeated(k)' =>
              About(call'[c].found, k) \cup About(call'[c].todo, k) = Conflicts(setup'.calls[c], k)
        BY <1>4, <1>6, <1>7, <1>8, <1>10, <3>2 DEF results
      <3>4. call'[d].pc = "ask"
        BY <1>6, <1>7, <2>2
      <3> QED BY <2>2, <3>3, <3>4 DEF CallOK
    <2>3. CASE d # c
      <3>1. call'[d] = call[d]
        BY <1>7, <2>3
      <3> QED BY <1>8, <1>9, <2>1, <3>1 DEF CallOK
    <2> QED BY <2>2, <2>3
  <1>12. \A k \in DOMAIN cache' : cache'[k] \in BOOLEAN /\ (~ Repeated(k)' => cache'[k])
    BY <1>8, <1>9, CacheFacts
  <1> QED BY <1>7, <1>8, <1>11, <1>12, CacheFacts, DetectOKFromParts DEF DetectOK

LEMMA CacheHitStep ==
  ASSUME DetectOK, NEW c \in Calls, CacheHit(c)
  PROVE  DetectOK'
  <1> DEFINE k == Head(call[c].todo).key
  <1>1. /\ call[c].pc # "none" /\ call[c].todo # <<>> /\ k \in DOMAIN cache
        /\ call' = Answered(c, cache[k]) /\ setup' = setup /\ cache' = cache
    BY DEF CacheHit, validatorVars
  <1>2. ~ Repeated(k) => cache[k]
    BY <1>1, CacheFacts
  <1> HIDE DEF k
  <1>3. /\ call' \in [Calls -> CallRec]
        /\ \A l : Repeated(l)' <=> Repeated(l)
        /\ \A d \in Calls : CallOK(d)'
    BY <1>1, <1>2, AnsweredKeeps DEF k
  <1>4. \A l \in DOMAIN cache' : cache'[l] \in BOOLEAN /\ (~ Repeated(l)' => cache'[l])
    BY <1>1, <1>3, CacheFacts
  <1> QED BY <1>1, <1>3, <1>4, CacheFacts, DetectOKFromParts DEF DetectOK

\* A call that only moves to another place, with the questions that belong there.
LEMMA CallMoves ==
  ASSUME DetectOK, NEW c \in Calls, call[c].pc # "none", NEW p \in {"store", "returned"},
         p = "store" => call[c].todo # <<>>, p = "returned" => call[c].todo = <<>>,
         call' = [call EXCEPT ![c].pc = p], setup' = setup, cache' = cache
  PROVE  DetectOK'
  <1> DEFINE C == call[c]
  <1>1. call \in [Calls -> CallRec] /\ C \in CallRec
    BY CallRecs
  <1>2. PICK D : D = [C EXCEPT !.pc = p]
    OBVIOUS
  <1>3. D \in CallRec /\ D.pc = p /\ D.todo = C.todo /\ D.found = C.found
    BY <1>1, <1>2 DEF CallRec
  <1>4. call'[c] = D /\ (\A d \in Calls \ {c} : call'[d] = call[d]) /\ call' \in [Calls -> CallRec]
    BY <1>1, <1>2, <1>3
  <1>5. \A k : Repeated(k)' <=> Repeated(k)
    <2>1. \A d \in Calls : call'[d].pc # "none" <=> call[d].pc # "none"
      BY <1>3, <1>4
    <2> QED BY <2>1 DEF Repeated, Calls
  <1>6. ASSUME NEW d \in Calls
        PROVE  CallOK(d)'
    <2>1. CallOK(d)
      BY DetectionParts DEF DetectOK
    <2>2. /\ call'[d].todo = call[d].todo /\ call'[d].found = call[d].found
          /\ call'[d] = call[d] \/ (d = c /\ call'[d].pc = p)
      <3>1. CASE d = c
        BY <1>3, <1>4, <3>1
      <3>2. CASE d # c
        BY <1>4, <3>2
      <3> QED BY <3>1, <3>2
    <2> QED BY <1>5, <2>1, <2>2 DEF CallOK
  <1>7. \A l \in DOMAIN cache' : cache'[l] \in BOOLEAN /\ (~ Repeated(l)' => cache'[l])
    BY <1>5, CacheFacts
  <1> QED BY <1>4, <1>6, <1>7, CacheFacts, DetectOKFromParts DEF DetectOK

LEMMA CacheMissStep ==
  ASSUME DetectOK, NEW c \in Calls, CacheMiss(c)
  PROVE  DetectOK'
  BY CallMoves DEF CacheMiss, validatorVars

LEMMA DetectionReturnStep ==
  ASSUME DetectOK, NEW c \in Calls, DetectionReturn(c)
  PROVE  DetectOK'
  BY CallMoves DEF DetectionReturn, validatorVars

\* The cache never has more entries than it may, whichever one it loses.
LEMMA CacheStoreStep ==
  ASSUME DetectOK, NEW c \in Calls, CacheStore(c)
  PROVE  DetectOK'
  <1> DEFINE asked == Head(call[c].todo)
             k == asked.key
             conflict == asked.task1 # asked.task2
  <1>1. call[c].pc = "store" /\ setup' = setup /\ call' = Answered(c, conflict)
    BY DEF CacheStore, validatorVars
  <1>2. call[c].pc # "none" /\ call[c].todo # <<>>
    BY <1>1, DetectionParts DEF DetectOK, CallOK
  <1>3. k \in Keys /\ (~ Repeated(k) => conflict)
    BY <1>2, QuestionsDiffer
  <1>4. PICK gone \in IF Full(DOMAIN cache) THEN DOMAIN cache ELSE {k} :
          cache' = [l \in (DOMAIN cache \ {gone}) \cup {k} |-> IF l = k THEN conflict ELSE cache[l]]
    BY DEF CacheStore
  <1> DEFINE D == DOMAIN cache
             E == (D \ {gone}) \cup {k}
  <1> HIDE DEF asked, conflict, k
  <1>5. /\ call' \in [Calls -> CallRec]
        /\ \A l : Repeated(l)' <=> Repeated(l)
        /\ \A d \in Calls : CallOK(d)'
    BY <1>1, <1>2, <1>3, AnsweredKeeps DEF k, asked
  <1>6. conflict \in BOOLEAN
    BY DEF conflict
  <1>7. DOMAIN cache' = E /\ E \subseteq Keys
        /\ \A l \in E : cache'[l] \in BOOLEAN /\ (~ Repeated(l)' => cache'[l])
    BY <1>3, <1>4, <1>5, <1>6, CacheFacts
  <1>8. IsFiniteSet(E) /\ Cardinality(E) <= MaxCacheSize
    <2>1. IsFiniteSet(D) /\ Cardinality(D) \in Nat /\ Cardinality(D) <= MaxCacheSize
          /\ MaxCacheSize \in Nat
      BY CacheFacts, FS_CardinalityType, MaxCacheSizeAssumption
    <2>2. /\ IsFiniteSet(D \ {gone})
          /\ Cardinality(D \ {gone}) = IF gone \in D THEN Cardinality(D) - 1 ELSE Cardinality(D)
      BY <2>1, FS_RemoveElement
    <2>3. /\ IsFiniteSet(E)
          /\ Cardinality(E) = IF k \in D \ {gone} THEN Cardinality(D \ {gone})
                              ELSE Cardinality(D \ {gone}) + 1
      BY <2>2, FS_AddElement
    <2>4. Cardinality(D \ {gone}) <= MaxCacheSize
      BY <2>1, <2>2
    <2>5. Cardinality(D \ {gone}) + 1 <= MaxCacheSize
      <3>1. CASE Full(D)
        BY <1>4, <2>1, <2>2, <3>1
      <3>2. CASE ~ Full(D)
        <4>1. Cardinality(D) + 1 <= MaxCacheSize
          BY <2>1, <3>2 DEF Full
        <4> QED BY <2>1, <2>2, <4>1
      <3> QED BY <3>1, <3>2
    <2> QED BY <2>3, <2>4, <2>5
  <1> HIDE DEF E
  <1> QED BY <1>1, <1>5, <1>7, <1>8, DetectOKFromParts DEF DetectOK

LEMMA DetectionSteps ==
  ASSUME DetectOK, NEW c \in Calls, DetectionStep(c)
  PROVE  DetectOK'
  BY DetectConflictsStep, CacheHitStep, CacheMissStep, CacheStoreStep, DetectionReturnStep
     DEF DetectionStep

--------------------------------------------------------------------------------
(* The store *)

ValidOK == setup \in Setups /\ ValidatorTypeOK /\ ValidatorInv

JobRec == [pc: {"execute", "executed", "queued", "called", "reads", "writes",
                "validated", "answered"},
           seen: Seq(ReadResults), start: [Keys -> ReadResults],
           next: Nat \ {0}, valid: BOOLEAN]

VersionRec == [status: {"found", "estimate"}, tx: Txs, inc: Nat]

LEMMA ValidTypes ==
  ASSUME ValidOK
  PROVE  /\ stor \in [Keys -> Seq(VersionRec)] /\ changes \in 0 .. MaxChanges
         /\ removed \in [Keys -> SUBSET Nat]
         /\ \A k \in Keys : removed[k] \subseteq DOMAIN stor[k]
         /\ job \in [Results -> JobRec]
         /\ lane \in Seq(Nat \ {0}) /\ batch \in {"none", "running", "returned"}
  BY DEF ValidOK, ValidatorTypeOK, JobRec, VersionRec

LEMMA StoreFacts ==
  ASSUME ValidOK, NEW k \in Keys
  PROVE  /\ Len(stor[k]) \in Nat /\ DOMAIN stor[k] = 1 .. Len(stor[k])
         /\ \A n \in 1 .. Len(stor[k]) : /\ stor[k][n] \in VersionRec
                                         /\ stor[k][n].tx \in Nat /\ stor[k][n].inc \in Nat
                                         /\ stor[k][n].status # "notFound"
         /\ \A t : /\ Versions(k, t) \subseteq 1 .. Len(stor[k])
                   /\ IsFiniteSet(Versions(k, t)) /\ Cardinality(Versions(k, t)) \in Nat
         /\ \A m, n \in 1 .. Len(stor[k]) : SameVersion(stor[k][m], stor[k][n]) => m = n
  <1> DEFINE N == Len(stor[k])
  <1>1. stor[k] \in Seq(VersionRec)
    BY ValidTypes
  <1>2. N \in Nat /\ DOMAIN stor[k] = 1 .. N /\ \A n \in 1 .. N : stor[k][n] \in VersionRec
    BY <1>1
  <1>3. \A n \in 1 .. N : /\ stor[k][n].tx \in Nat /\ stor[k][n].inc \in Nat
                          /\ stor[k][n].status # "notFound"
    BY <1>2, TxsAssumption DEF VersionRec
  <1>4. ASSUME NEW t
        PROVE  /\ Versions(k, t) \subseteq 1 .. N
               /\ IsFiniteSet(Versions(k, t)) /\ Cardinality(Versions(k, t)) \in Nat
    <2>1. Versions(k, t) \subseteq 1 .. N
      BY <1>2 DEF Versions
    <2>2. IsFiniteSet(1 .. N)
      BY <1>2, FS_Interval
    <2>3. IsFiniteSet(Versions(k, t))
      BY <2>1, <2>2, FS_Subset
    <2> QED BY <2>1, <2>3, FS_CardinalityType
  <1>5. ASSUME NEW m \in 1 .. N, NEW n \in 1 .. N, SameVersion(stor[k][m], stor[k][n])
        PROVE  m = n
    <2>1. \A a, b \in 1 .. N : a < b /\ stor[k][a].tx = stor[k][b].tx =>
            stor[k][a].inc < stor[k][b].inc
      <3> SUFFICES ASSUME NEW a \in 1 .. N, NEW b \in 1 .. N, a < b,
                          stor[k][a].tx = stor[k][b].tx
                   PROVE  stor[k][a].inc < stor[k][b].inc
        OBVIOUS
      <3>1. a \in 1 .. b - 1
        OBVIOUS
      <3> QED BY <1>2, <3>1 DEF ValidOK, ValidatorInv, StoreInv
    <2>2. stor[k][m].tx = stor[k][n].tx /\ stor[k][m].inc = stor[k][n].inc
      BY <1>5 DEF SameVersion
    <2>3. ~ (m < n)
      BY <1>3, <2>1, <2>2
    <2>4. ~ (n < m)
      BY <1>3, <2>1, <2>2
    <2> QED BY <2>3, <2>4
  <1> QED BY <1>2, <1>3, <1>4, <1>5

\* c is the last version of k below transaction at, or 0 if there is none.
IsLast(c, k, at) ==
  /\ c \in 0 .. Len(stor[k])
  /\ c # 0 => c \notin removed[k] /\ stor[k][c].tx < at /\ Read(k, at) = stor[k][c]
  /\ c = 0 => Read(k, at) = NotFound
  /\ \A n \in 1 .. Len(stor[k]) : n \notin removed[k] /\ stor[k][n].tx < at => n <= c

LEMMA ReadFacts ==
  ASSUME ValidOK, NEW k \in Keys, NEW at \in Nat
  PROVE  Read(k, at) \in ReadResults /\ \E c : IsLast(c, k, at) /\ Names(Read(k, at), k, at, c)
  <1> DEFINE older == {n \in DOMAIN stor[k] \ removed[k] : stor[k][n].tx < at}
             N == Len(stor[k])
  <1>1. N \in Nat /\ DOMAIN stor[k] = 1 .. N
        /\ \A n \in 1 .. N : stor[k][n] \in VersionRec /\ stor[k][n].status # "notFound"
    BY StoreFacts
  <1>2. CASE older = {}
    <2>1. Read(k, at) = NotFound
      BY <1>2 DEF Read
    <2>2. IsLast(0, k, at)
      BY <1>1, <1>2, <2>1 DEF IsLast
    <2> QED BY <2>1, <2>2 DEF Names, NotFound, ReadResults
  <1>3. CASE older # {}
    <2>1. older \in SUBSET (1 .. N)
      BY <1>1
    <2> DEFINE c == Max(older)
    <2>2. Read(k, at) = stor[k][c]
      BY <1>3 DEF Read
    <2>3. c \in older /\ \A n \in older : n <= c
      <3> HIDE DEF older, N
      <3> QED BY <1>1, <1>3, <2>1, MaxOfIndices
    <2> HIDE DEF c
    <2>4. /\ c \in 1 .. N /\ c \notin removed[k] /\ stor[k][c].tx < at
          /\ \A n \in 1 .. N : n \notin removed[k] /\ stor[k][n].tx < at => n <= c
      BY <1>1, <2>3
    <2>5. IsLast(c, k, at)
      BY <1>1, <2>2, <2>4 DEF IsLast
    <2>6. Names(Read(k, at), k, at, c)
      BY <1>1, <2>2, <2>4 DEF Names, SameVersion
    <2>7. Read(k, at) \in ReadResults
      BY <1>1, <2>2, <2>4, TxsAssumption DEF ReadResults, VersionRec
    <2> QED BY <2>5, <2>6, <2>7
  <1> QED BY <1>2, <1>3

\* What was written only grows: versions keep their places, transactions and
\* incarnations; and so does what GC has removed.
Grows ==
  \A k \in Keys :
    /\ removed[k] \subseteq removed'[k]
    /\ Len(stor'[k]) \in Nat /\ Len(stor[k]) <= Len(stor'[k])
    /\ DOMAIN stor'[k] = 1 .. Len(stor'[k])
    /\ \A n \in 1 .. Len(stor[k]) : /\ stor'[k][n].tx = stor[k][n].tx
                                    /\ stor'[k][n].inc = stor[k][n].inc
    /\ \A t : /\ Versions(k, t) \subseteq Versions(k, t)'
              /\ Cardinality(Versions(k, t)) <= Cardinality(Versions(k, t)')

LEMMA JobsStay ==
  ASSUME ValidOK, Grows, job' = job, setup' = setup, NEW i \in Results
  PROVE  JobInv(i)'
  <1>1. job[i] \in JobRec /\ job[i].seen \in Seq(ReadResults)
        /\ DOMAIN job[i].seen = 1 .. Len(job[i].seen)
    BY ValidTypes DEF JobRec
  <1>2. JobInv(i) /\ ReadKeys(i) \in Seq(Keys)
        /\ \A n \in DOMAIN ReadKeys(i) : ReadKeys(i)[n] \in Keys
    BY ResultFacts DEF ValidOK, ValidatorInv
  <1>3. Task(i)' = Task(i) /\ ReadKeys(i)' = ReadKeys(i) /\ Results' = Results
    BY DEF Task, ReadKeys, Results
  <1>4. ASSUME NEW k \in Keys, NEW a \in DOMAIN stor[k]
        PROVE  /\ a \in DOMAIN stor'[k]
               /\ stor'[k][a].tx = stor[k][a].tx /\ stor'[k][a].inc = stor[k][a].inc
    <2>1. DOMAIN stor[k] = 1 .. Len(stor[k]) /\ Len(stor[k]) \in Nat
      BY StoreFacts
    <2> QED BY <2>1 DEF Grows
  <1>5. ASSUME NEW n \in DOMAIN ReadKeys(i), FromSnapshot(i, n)
        PROVE  FromSnapshot(i, n)'
    <2>1. PICK k \in Keys : k = ReadKeys(i)[n]
      BY <1>2
    <2>2. \A t : /\ Versions(k, t) # {} => Versions(k, t)' # {}
                 /\ Cardinality(Versions(k, t)) > 1 => Cardinality(Versions(k, t)') > 1
      <3> TAKE t
      <3>1. Cardinality(Versions(k, t)) \in Nat
        BY <2>1, StoreFacts
      <3>2. IsFiniteSet(Versions(k, t)')
        <4>1. Versions(k, t)' \subseteq 1 .. Len(stor'[k])
          BY <2>1 DEF Versions, Grows
        <4>2. IsFiniteSet(1 .. Len(stor'[k]))
          BY <2>1, FS_Interval DEF Grows
        <4> QED BY <4>1, <4>2, FS_Subset
      <3>3. Cardinality(Versions(k, t)') \in Nat
        BY <3>2, FS_CardinalityType
      <3>4. /\ Versions(k, t) \subseteq Versions(k, t)'
            /\ Cardinality(Versions(k, t)) <= Cardinality(Versions(k, t)')
        BY <2>1 DEF Grows
      <3> QED BY <3>1, <3>3, <3>4
    <2>3. ASSUME NEW read, Collected(k, read)
          PROVE  Collected(k, read)'
      <3>1. PICK a \in removed[k] : SameVersion(read, stor[k][a]) /\ read.status # "notFound"
        BY <2>3 DEF Collected
      <3>2. a \in DOMAIN stor[k] /\ a \in removed'[k]
        BY <2>1, <3>1, ValidTypes DEF Grows
      <3>3. stor'[k][a].tx = stor[k][a].tx /\ stor'[k][a].inc = stor[k][a].inc
        BY <1>4, <2>1, <3>2
      <3> QED BY <3>1, <3>2, <3>3 DEF Collected, SameVersion
    <2>4. job' = job
      OBVIOUS
    <2> QED BY <1>3, <1>5, <2>1, <2>2, <2>3, <2>4
            DEF FromSnapshot, Collected, SameVersion, NilValue
  <1>6. ASSUME NEW n \in DOMAIN job[i].seen
        PROVE  ReadKeys(i)[n] \in Keys
               /\ Len(stor[ReadKeys(i)[n]]) <= Len(stor'[ReadKeys(i)[n]])
               /\ Len(stor[ReadKeys(i)[n]]) \in Nat /\ Len(stor'[ReadKeys(i)[n]]) \in Nat
    <2>1. n \in 1 .. Len(ReadKeys(i)) /\ DOMAIN ReadKeys(i) = 1 .. Len(ReadKeys(i))
      BY <1>1, <1>2 DEF JobInv
    <2>2. ReadKeys(i)[n] \in Keys
      BY <1>2, <2>1
    <2> QED BY <2>2, StoreFacts DEF Grows
  <1>7. ASSUME NEW n \in DOMAIN job[i].seen
        PROVE  \E a \in 0 .. Len(stor'[ReadKeys(i)[n]]) :
                 /\ Names(job[i].seen[n], ReadKeys(i)[n], Task(i), a)'
                 /\ job[i].pc = "reads" => \E b \in 0 .. Len(stor'[ReadKeys(i)[n]]) :
                      /\ Names(job[i].start[ReadKeys(i)[n]], ReadKeys(i)[n], Task(i), b)'
                      /\ b < a => a \in removed'[ReadKeys(i)[n]]
    <2> DEFINE k == ReadKeys(i)[n]
    <2>1. PICK a \in 0 .. Len(stor[k]) :
            /\ Names(job[i].seen[n], k, Task(i), a)
            /\ job[i].pc = "reads" => \E b \in 0 .. Len(stor[k]) :
                 /\ Names(job[i].start[k], k, Task(i), b)
                 /\ b < a => a \in removed[k]
      BY <1>2 DEF JobInv
    <2>2. k \in Keys /\ 0 .. Len(stor[k]) \subseteq 0 .. Len(stor'[k])
          /\ removed[k] \subseteq removed'[k]
      BY <1>6 DEF Grows
    <2>3. Names(job[i].seen[n], k, Task(i), a)'
      BY <1>3, <1>4, <2>1, <2>2 DEF Names, SameVersion
    <2>4. ASSUME job[i].pc = "reads"
          PROVE  \E b \in 0 .. Len(stor'[k]) : /\ Names(job[i].start[k], k, Task(i), b)'
                                               /\ b < a => a \in removed'[k]
      <3>1. PICK b \in 0 .. Len(stor[k]) : /\ Names(job[i].start[k], k, Task(i), b)
                                           /\ b < a => a \in removed[k]
        BY <2>1, <2>4
      <3>2. Names(job[i].start[k], k, Task(i), b)'
        BY <1>3, <1>4, <2>2, <3>1 DEF Names, SameVersion
      <3> QED BY <2>2, <3>1, <3>2
    <2> QED BY <2>2, <2>3, <2>4
  <1> QED BY <1>2, <1>3, <1>5, <1>7 DEF JobInv

LEMMA ValidFrame ==
  ASSUME ValidOK, UNCHANGED <<setup, stor, removed, changes, job>>, lane' \in Seq(Nat \ {0}),
         batch' \in {"none", "running", "returned"}
  PROVE  ValidOK'
  <1>1. ValidatorTypeOK'
    BY DEF ValidOK, ValidatorTypeOK, Results, MaxChanges
  <1>2. StoreInv'
    BY DEF ValidOK, ValidatorInv, StoreInv, Versions
  <1>3. ASSUME NEW i \in Results
        PROVE  JobInv(i)'
    <2>1. JobInv(i) /\ setup' = setup /\ stor' = stor /\ removed' = removed /\ job' = job
      BY DEF ValidOK, ValidatorInv
    <2>2. Task(i)' = Task(i) /\ ReadKeys(i)' = ReadKeys(i)
      BY <2>1 DEF Task, ReadKeys
    <2>3. \A n : FromSnapshot(i, n)' <=> FromSnapshot(i, n)
      BY <2>1, <2>2 DEF FromSnapshot, Versions, Collected, NilValue
    <2> QED BY <2>1, <2>2, <2>3 DEF JobInv, Names
  <1>4. Results' = Results
    BY DEF Results
  <1> QED BY <1>1, <1>2, <1>3, <1>4 DEF ValidOK, ValidatorInv

LEMMA StoreChange ==
  ASSUME ValidOK, Grows, stor' \in [Keys -> Seq(VersionRec)], StoreInv',
         removed' \in [Keys -> SUBSET Nat], \A k \in Keys : removed'[k] \subseteq DOMAIN stor'[k],
         changes < MaxChanges, changes' = changes + 1, UNCHANGED <<setup, job, lane, batch>>
  PROVE  ValidOK'
  <1>1. Results' = Results /\ MaxChanges' = MaxChanges
    BY DEF Results, MaxChanges
  <1>2. changes' \in 0 .. MaxChanges
    BY ValidTypes, SetupFacts DEF MaxChanges, ValidOK
  <1>3. ValidatorTypeOK'
    BY <1>1, <1>2 DEF ValidOK, ValidatorTypeOK, VersionRec
  <1>4. \A i \in Results : JobInv(i)'
    BY JobsStay
  <1> QED BY <1>1, <1>3, <1>4 DEF ValidOK, ValidatorInv

LEMMA StoreWriteStep ==
  ASSUME ValidOK, NEW k \in Keys, NEW t \in Txs, StoreWrite(k, t)
  PROVE  ValidOK'
  <1> DEFINE s == stor[k]
             N == Len(s)
             v == [status |-> "estimate", tx |-> t, inc |-> Cardinality(Versions(k, t))]
  <1>1. stor' = [stor EXCEPT ![k] = Append(s, v)]
    BY DEF StoreWrite
  <1>2. stor \in [Keys -> Seq(VersionRec)] /\ s \in Seq(VersionRec)
    BY ValidTypes
  <1>3. Cardinality(Versions(k, t)) \in Nat
    BY StoreFacts
  <1>4. v \in VersionRec /\ v.tx = t /\ v.inc = Cardinality(Versions(k, t))
    BY <1>3 DEF VersionRec
  <1> HIDE DEF v
  <1>5. stor'[k] = Append(s, v) /\ (\A l \in Keys \ {k} : stor'[l] = stor[l])
        /\ stor' \in [Keys -> Seq(VersionRec)]
    <2>1. Append(s, v) \in Seq(VersionRec)
      BY <1>2, <1>4
    <2> QED BY <1>1, <1>2, <2>1
  <1>6. /\ N \in Nat /\ DOMAIN s = 1 .. N
        /\ DOMAIN stor'[k] = 1 .. N + 1 /\ Len(stor'[k]) = N + 1
        /\ stor'[k][N + 1] = v /\ \A n \in 1 .. N : stor'[k][n] = s[n]
    BY <1>2, <1>4, <1>5
  <1>7. ASSUME NEW l \in Keys \ {k}, NEW u
        PROVE  Versions(l, u)' = Versions(l, u)
    BY <1>5 DEF Versions
  <1>8. ASSUME NEW u
        PROVE  Versions(k, u)' = IF u = t THEN Versions(k, u) \cup {N + 1} ELSE Versions(k, u)
    <2>1. \A n : n \in 1 .. N + 1 <=> n \in 1 .. N \/ n = N + 1
      BY <1>6
    <2>2. N + 1 \notin 1 .. N
      BY <1>6
    <2>3. Versions(k, u)' = {n \in 1 .. N + 1 : stor'[k][n].tx = u}
      BY <1>6 DEF Versions
    <2>4. Versions(k, u) = {n \in 1 .. N : s[n].tx = u}
      BY <1>6 DEF Versions
    <2> QED BY <1>4, <1>6, <2>1, <2>2, <2>3, <2>4
  <1>9. ASSUME NEW u
        PROVE  /\ Versions(k, u) \subseteq Versions(k, u)'
               /\ Cardinality(Versions(k, u)) \in Nat
               /\ Cardinality(Versions(k, u)') =
                    Cardinality(Versions(k, u)) + (IF u = t THEN 1 ELSE 0)
    <2>1. /\ IsFiniteSet(Versions(k, u)) /\ Cardinality(Versions(k, u)) \in Nat
          /\ N + 1 \notin Versions(k, u)
      <3>1. Versions(k, u) \subseteq 1 .. N /\ IsFiniteSet(Versions(k, u))
            /\ Cardinality(Versions(k, u)) \in Nat
        BY StoreFacts
      <3>2. N + 1 \notin 1 .. N
        BY <1>6
      <3> QED BY <3>1, <3>2
    <2>2. Cardinality(Versions(k, u) \cup {N + 1}) = Cardinality(Versions(k, u)) + 1
      BY <2>1, FS_AddElement
    <2>3. CASE u = t
      <3>1. Versions(k, u)' = Versions(k, u) \cup {N + 1}
        BY <1>8, <2>3
      <3> QED BY <2>1, <2>2, <2>3, <3>1
    <2>4. CASE u # t
      <3>1. Versions(k, u)' = Versions(k, u)
        BY <1>8, <2>4
      <3> QED BY <2>1, <2>4, <3>1
    <2> QED BY <2>3, <2>4
  <1>10. Grows
    <2> SUFFICES ASSUME NEW l \in Keys
                 PROVE  /\ removed[l] \subseteq removed'[l]
                        /\ Len(stor'[l]) \in Nat /\ Len(stor[l]) <= Len(stor'[l])
                        /\ DOMAIN stor'[l] = 1 .. Len(stor'[l])
                        /\ \A n \in 1 .. Len(stor[l]) : /\ stor'[l][n].tx = stor[l][n].tx
                                                        /\ stor'[l][n].inc = stor[l][n].inc
                        /\ \A u : /\ Versions(l, u) \subseteq Versions(l, u)'
                                  /\ Cardinality(Versions(l, u)) <= Cardinality(Versions(l, u)')
      BY DEF Grows
    <2>0. removed' = removed
      BY DEF StoreWrite
    <2>1. CASE l = k
      <3>1. \A u : Cardinality(Versions(k, u)) <= Cardinality(Versions(k, u)')
        BY <1>9
      <3> QED BY <1>6, <1>9, <2>0, <2>1, <3>1
    <2>2. CASE l # k
      <3>1. \A u : Cardinality(Versions(l, u)) \in Nat
        BY StoreFacts
      <3> QED BY <1>5, <1>7, <2>0, <2>2, <3>1, StoreFacts
    <2> QED BY <2>1, <2>2
  <1>11. StoreInv'
    <2> SUFFICES ASSUME NEW l \in Keys, NEW n \in DOMAIN stor'[l], NEW u, u = stor'[l][n].tx
                 PROVE  /\ stor'[l][n].inc < Cardinality(Versions(l, u)')
                        /\ \A m \in 1 .. n - 1 : stor'[l][m].tx = u =>
                             stor'[l][m].inc < stor'[l][n].inc
      BY DEF StoreInv
    <2>0. /\ stor[l][n].inc < Cardinality(Versions(l, stor[l][n].tx)) \/ n \notin DOMAIN stor[l]
          /\ n \in DOMAIN stor[l] =>
               \A m \in 1 .. n - 1 : stor[l][m].tx = stor[l][n].tx => stor[l][m].inc < stor[l][n].inc
      BY DEF ValidOK, ValidatorInv, StoreInv
    <2>1. CASE l # k
      <3>1. u = stor[l][n].tx /\ n \in DOMAIN stor[l] /\ Versions(l, u)' = Versions(l, u)
        BY <1>5, <1>7, <2>1
      <3> QED BY <1>5, <2>0, <2>1, <3>1
    <2>2. CASE l = k /\ n # N + 1
      <3>1. n \in 1 .. N /\ \A m \in 1 .. n - 1 : m \in 1 .. N
        BY <1>6, <2>2
      <3>2. u = s[n].tx /\ stor'[l][n] = s[n] /\ \A m \in 1 .. n - 1 : stor'[l][m] = s[m]
        BY <1>6, <2>2, <3>1
      <3>3. s[n].inc \in Nat /\ s[n].inc < Cardinality(Versions(k, u))
        BY <1>6, <2>0, <2>2, <3>1, <3>2, StoreFacts
      <3>4. s[n].inc < Cardinality(Versions(k, u)')
        BY <1>9, <3>3
      <3>5. \A m \in 1 .. n - 1 : s[m].tx = s[n].tx => s[m].inc < s[n].inc
        BY <1>6, <2>0, <2>2, <3>1
      <3> QED BY <2>2, <3>2, <3>4, <3>5
    <2>3. CASE l = k /\ n = N + 1
      <3>1. stor'[l][n] = v
        BY <1>6, <2>3
      <3>2. v.inc < Cardinality(Versions(k, t)')
        BY <1>4, <1>9
      <3>3. ASSUME NEW m \in 1 .. n - 1, stor'[l][m].tx = stor'[l][n].tx
            PROVE  stor'[l][m].inc < stor'[l][n].inc
        <4>1. m \in 1 .. N /\ m \in DOMAIN s
          BY <1>6, <2>3
        <4>2. s[m].tx = t
          BY <1>4, <1>6, <2>3, <3>1, <3>3, <4>1
        <4>3. s[m].inc < Cardinality(Versions(k, s[m].tx))
          BY <4>1 DEF ValidOK, ValidatorInv, StoreInv
        <4> QED BY <1>4, <1>6, <2>3, <3>1, <4>1, <4>2, <4>3
      <3>4. u = t
        BY <1>4, <3>1
      <3> QED BY <2>3, <3>1, <3>2, <3>3, <3>4
    <2> QED BY <2>1, <2>2, <2>3
  <1>12. /\ removed' \in [Keys -> SUBSET Nat]
         /\ \A l \in Keys : removed'[l] \subseteq DOMAIN stor'[l]
    <2>1. removed' = removed /\ removed \in [Keys -> SUBSET Nat]
          /\ \A l \in Keys : removed[l] \subseteq DOMAIN stor[l]
      BY ValidTypes DEF StoreWrite
    <2>2. \A l \in Keys : DOMAIN stor[l] \subseteq DOMAIN stor'[l]
      BY <1>5, <1>6
    <2> QED BY <2>1, <2>2
  <1> QED BY <1>5, <1>10, <1>11, <1>12, StoreChange DEF StoreWrite

LEMMA StoreCommitStep ==
  ASSUME ValidOK, NEW k \in Keys, NEW t \in Txs, StoreCommit(k, t)
  PROVE  ValidOK'
  <1> DEFINE s == stor[k]
             c == Max(Versions(k, t))
  <1>1. stor' = [stor EXCEPT ![k] = [s EXCEPT ![c].status = "found"]]
    BY DEF StoreCommit
  <1>2. stor \in [Keys -> Seq(VersionRec)] /\ s \in Seq(VersionRec)
        /\ Len(s) \in Nat /\ DOMAIN s = 1 .. Len(s)
    BY ValidTypes, StoreFacts
  <1>3. c \in 1 .. Len(s)
    <2>1. Versions(k, t) \subseteq 1 .. Len(s) /\ Versions(k, t) # {}
      BY StoreFacts DEF StoreCommit
    <2>2. Max(Versions(k, t)) \in Versions(k, t)
      BY <1>2, <2>1, MaxOfIndices
    <2> QED BY <2>1, <2>2
  <1> HIDE DEF c
  <1>4. PICK v : v = [s[c] EXCEPT !.status = "found"]
    OBVIOUS
  <1>5. v \in VersionRec /\ v.tx = s[c].tx /\ v.inc = s[c].inc
    <2>1. s[c] \in VersionRec
      BY <1>3, StoreFacts
    <2> QED BY <1>4, <2>1 DEF VersionRec
  <1>6. stor' = [stor EXCEPT ![k] = [s EXCEPT ![c] = v]]
    BY <1>1, <1>4
  <1>7. PICK r : r = [s EXCEPT ![c] = v]
    OBVIOUS
  <1>8. r \in Seq(VersionRec) /\ Len(r) = Len(s) /\ DOMAIN r = 1 .. Len(s)
        /\ \A n \in 1 .. Len(s) : r[n].tx = s[n].tx /\ r[n].inc = s[n].inc
    BY <1>2, <1>3, <1>5, <1>7
  <1>9. stor'[k] = r /\ (\A l \in Keys \ {k} : stor'[l] = stor[l])
        /\ stor' \in [Keys -> Seq(VersionRec)]
    BY <1>2, <1>6, <1>7, <1>8
  <1>10. ASSUME NEW l \in Keys
         PROVE  /\ Len(stor'[l]) = Len(stor[l]) /\ DOMAIN stor'[l] = DOMAIN stor[l]
                /\ \A n \in 1 .. Len(stor[l]) : /\ stor'[l][n].tx = stor[l][n].tx
                                                /\ stor'[l][n].inc = stor[l][n].inc
    <2>1. CASE l = k
      BY <1>2, <1>8, <1>9, <2>1
    <2>2. CASE l # k
      BY <1>9, <2>2
    <2> QED BY <2>1, <2>2
  <1>11. ASSUME NEW l \in Keys, NEW u
         PROVE  Versions(l, u)' = Versions(l, u)
    <2>1. DOMAIN stor[l] = 1 .. Len(stor[l])
      BY StoreFacts
    <2> QED BY <1>10, <2>1 DEF Versions
  <1>12. Grows
    <2> SUFFICES ASSUME NEW l \in Keys
                 PROVE  /\ removed[l] \subseteq removed'[l]
                        /\ Len(stor'[l]) \in Nat /\ Len(stor[l]) <= Len(stor'[l])
                        /\ DOMAIN stor'[l] = 1 .. Len(stor'[l])
                        /\ \A n \in 1 .. Len(stor[l]) : /\ stor'[l][n].tx = stor[l][n].tx
                                                        /\ stor'[l][n].inc = stor[l][n].inc
                        /\ \A u : /\ Versions(l, u) \subseteq Versions(l, u)'
                                  /\ Cardinality(Versions(l, u)) <= Cardinality(Versions(l, u)')
      BY DEF Grows
    <2>1. \A u : Cardinality(Versions(l, u)) \in Nat
      BY StoreFacts
    <2>2. removed' = removed
      BY DEF StoreCommit
    <2> QED BY <1>10, <1>11, <2>1, <2>2, StoreFacts
  <1>13. StoreInv'
    <2> SUFFICES ASSUME NEW l \in Keys, NEW n \in DOMAIN stor'[l], NEW u, u = stor'[l][n].tx
                 PROVE  /\ stor'[l][n].inc < Cardinality(Versions(l, u)')
                        /\ \A m \in 1 .. n - 1 : stor'[l][m].tx = u =>
                             stor'[l][m].inc < stor'[l][n].inc
      BY DEF StoreInv
    <2>1. n \in 1 .. Len(stor[l]) /\ n \in DOMAIN stor[l]
          /\ \A m \in 1 .. n - 1 : m \in 1 .. Len(stor[l])
      BY <1>10, StoreFacts
    <2>2. /\ stor[l][n].inc < Cardinality(Versions(l, stor[l][n].tx))
          /\ \A m \in 1 .. n - 1 : stor[l][m].tx = stor[l][n].tx => stor[l][m].inc < stor[l][n].inc
      BY <2>1 DEF ValidOK, ValidatorInv, StoreInv
    <2>3. u = stor[l][n].tx /\ stor'[l][n].inc = stor[l][n].inc
          /\ Versions(l, u)' = Versions(l, u)
      BY <1>10, <1>11, <2>1
    <2>4. \A m \in 1 .. n - 1 : /\ stor'[l][m].tx = stor[l][m].tx
                               /\ stor'[l][m].inc = stor[l][m].inc
      BY <1>10, <2>1
    <2> QED BY <2>2, <2>3, <2>4
  <1>14. /\ removed' \in [Keys -> SUBSET Nat]
         /\ \A l \in Keys : removed'[l] \subseteq DOMAIN stor'[l]
    <2>1. removed' = removed
      BY DEF StoreCommit
    <2> QED BY <1>10, <2>1, ValidTypes
  <1> QED BY <1>9, <1>12, <1>13, <1>14, StoreChange DEF StoreCommit

LEMMA StoreRemoveStep ==
  ASSUME ValidOK, NEW k \in Keys, NEW n \in DOMAIN stor[k], StoreRemove(k, n)
  PROVE  ValidOK'
  <1>1. /\ removed' = [removed EXCEPT ![k] = @ \cup {n}] /\ stor' = stor
        /\ changes < MaxChanges /\ changes' = changes + 1
        /\ UNCHANGED <<setup, job, lane, batch>>
    BY DEF StoreRemove
  <1>2. /\ stor \in [Keys -> Seq(VersionRec)] /\ removed \in [Keys -> SUBSET Nat]
        /\ \A l \in Keys : removed[l] \subseteq DOMAIN stor[l]
    BY ValidTypes
  <1>3. n \in Nat
    BY StoreFacts
  <1>4. ASSUME NEW l \in Keys
        PROVE  removed[l] \subseteq removed'[l] /\ removed'[l] \subseteq DOMAIN stor'[l]
    BY <1>1, <1>2
  <1>5. removed' \in [Keys -> SUBSET Nat]
    BY <1>1, <1>2, <1>3
  <1>6. \A l, t : Versions(l, t)' = Versions(l, t)
    BY <1>1 DEF Versions
  <1>7. Grows
    <2>1. \A l \in Keys : \A t : Cardinality(Versions(l, t)) \in Nat
      BY StoreFacts
    <2> QED BY <1>1, <1>4, <1>6, <2>1, StoreFacts DEF Grows
  <1>8. StoreInv'
    BY <1>1, <1>6 DEF ValidOK, ValidatorInv, StoreInv
  <1> QED BY <1>1, <1>2, <1>4, <1>5, <1>7, <1>8, StoreChange

--------------------------------------------------------------------------------
(* The steps of a validation *)

LEMMA JobChange ==
  ASSUME ValidOK, NEW i \in Results, NEW J \in JobRec, job' = [job EXCEPT ![i] = J],
         UNCHANGED <<setup, stor, removed, changes, batch>>, lane' \in Seq(Nat \ {0}), JobInv(i)'
  PROVE  ValidOK'
  <1>1. job \in [Results -> JobRec] /\ Results' = Results /\ MaxChanges' = MaxChanges
    BY ValidTypes DEF Results, MaxChanges
  <1>2. job' \in [Results -> JobRec] /\ \A j \in Results \ {i} : job'[j] = job[j]
    BY <1>1
  <1>3. ValidatorTypeOK'
    BY <1>1, <1>2 DEF ValidOK, ValidatorTypeOK, JobRec
  <1>4. StoreInv'
    BY DEF ValidOK, ValidatorInv, StoreInv, Versions
  <1>5. ASSUME NEW j \in Results \ {i}
        PROVE  JobInv(j)'
    <2>1. JobInv(j) /\ job'[j] = job[j] /\ stor' = stor /\ removed' = removed
      BY <1>2 DEF ValidOK, ValidatorInv
    <2>2. Task(j)' = Task(j) /\ ReadKeys(j)' = ReadKeys(j)
      BY DEF Task, ReadKeys
    <2>3. \A n : FromSnapshot(j, n)' <=> FromSnapshot(j, n)
      BY <2>1, <2>2 DEF FromSnapshot, Versions, Collected, NilValue
    <2> QED BY <2>1, <2>2, <2>3 DEF JobInv, Names
  <1> QED BY <1>1, <1>3, <1>4, <1>5 DEF ValidOK, ValidatorInv

LEMMA JobMoves ==
  ASSUME ValidOK, NEW i \in Results, NEW J \in JobRec, job' = [job EXCEPT ![i] = J],
         UNCHANGED <<setup, stor, removed, changes, lane, batch>>, JobInv(i)'
  PROVE  ValidOK'
  BY ValidTypes, JobChange

\* A result that only moves to another place outside the comparisons.
LEMMA PcMoves ==
  ASSUME ValidOK, NEW i \in Results,
         NEW p \in {"executed", "queued", "called", "validated", "answered"},
         job' = [job EXCEPT ![i].pc = p], UNCHANGED <<setup, stor, removed, changes, batch>>,
         lane' \in Seq(Nat \ {0}),
         job[i].pc = "execute" => Len(job[i].seen) = Len(ReadKeys(i)),
         p \in Waiting => job[i].pc \in Waiting,
         job[i].pc \in Answerable => p \in Answerable
  PROVE  ValidOK'
  <1> DEFINE I == job[i]
  <1>1. job \in [Results -> JobRec] /\ I \in JobRec
    BY ValidTypes
  <1>2. PICK J : J = [I EXCEPT !.pc = p]
    OBVIOUS
  <1>3. J \in JobRec /\ J.pc = p /\ J.seen = I.seen /\ J.start = I.start /\ J.next = I.next
        /\ J.valid = I.valid
    BY <1>1, <1>2 DEF JobRec
  <1>4. job' = [job EXCEPT ![i] = J] /\ job'[i] = J
    BY <1>1, <1>2
  <1>5. JobInv(i)
    BY DEF ValidOK, ValidatorInv
  <1>6. Task(i)' = Task(i) /\ ReadKeys(i)' = ReadKeys(i)
    BY DEF Task, ReadKeys
  <1>7. JobInv(i)'
    <2>1. p # "execute" /\ p # "reads" /\ p # "writes"
      OBVIOUS
    <2>2. J.valid => p \in Answerable
      BY <1>3, <1>5 DEF JobInv
    <2>3. \A n : FromSnapshot(i, n)' <=> FromSnapshot(i, n)
      BY <1>3, <1>4, <1>6 DEF FromSnapshot, Versions, Collected, NilValue
    <2>4. \A n \in DOMAIN J.seen : \E a \in 0 .. Len(stor[ReadKeys(i)[n]]) :
            Names(J.seen[n], ReadKeys(i)[n], Task(i), a)
      BY <1>3, <1>5 DEF JobInv
    <2>5. \A n \in DOMAIN J.seen : \E a \in 0 .. Len(stor'[ReadKeys(i)'[n]]) :
            Names(job[i].seen[n], ReadKeys(i)[n], Task(i), a)'
      BY <1>3, <1>4, <1>6, <2>4 DEF Names
    <2>6. \A n \in IF J.valid THEN DOMAIN ReadKeys(i) ELSE {} : FromSnapshot(i, n)'
      <3>1. I.valid => I.pc # "reads"
        BY <1>5 DEF JobInv, Answerable
      <3> QED BY <1>3, <1>5, <2>3, <3>1 DEF JobInv
    <2>7. Len(J.seen) <= Len(ReadKeys(i)) /\ Len(J.seen) = Len(ReadKeys(i))
      BY <1>3, <1>5 DEF JobInv
    <2>8. p \in Waiting => J.next = 1
      BY <1>3, <1>5 DEF JobInv
    <2> QED BY <1>3, <1>4, <1>6, <2>1, <2>2, <2>5, <2>6, <2>7, <2>8 DEF JobInv
  <1> QED BY <1>3, <1>4, <1>7, JobChange

LEMMA ExecuteStep ==
  ASSUME ValidOK, NEW i \in Results, Execute(i)
  PROVE  ValidOK'
  <1> DEFINE I == job[i]
             n == Len(I.seen) + 1
             k == ReadKeys(i)[n]
             read == Read(k, Task(i))
  <1>1. job \in [Results -> JobRec] /\ I \in JobRec /\ I.pc = "execute" /\ JobInv(i)
        /\ lane \in Seq(Nat \ {0})
    BY ValidTypes DEF ValidOK, ValidatorInv, Execute
  <1>2. I.seen \in Seq(ReadResults) /\ Len(I.seen) \in Nat /\ Len(I.seen) <= Len(ReadKeys(i))
        /\ I.next = 1 /\ ~ I.valid /\ I.valid \in BOOLEAN
    BY <1>1 DEF JobRec, JobInv, Answerable, Waiting
  <1>3. Task(i) \in Nat /\ ReadKeys(i) \in Seq(Keys) /\ Len(ReadKeys(i)) \in Nat
        /\ DOMAIN ReadKeys(i) = 1 .. Len(ReadKeys(i))
    BY ResultFacts DEF ValidOK
  <1>4. CASE n > Len(ReadKeys(i))
    <2>1. job' = [job EXCEPT ![i].pc = "executed"]
      BY <1>4 DEF Execute
    <2>2. Len(I.seen) = Len(ReadKeys(i))
      BY <1>2, <1>3, <1>4
    <2>3. UNCHANGED <<setup, stor, removed, changes, lane, batch>> /\ lane' \in Seq(Nat \ {0})
      BY <1>1 DEF Execute, storeVars
    <2>4. "executed" \in Waiting /\ I.pc \in Waiting /\ I.pc \notin Answerable
      BY <1>1 DEF Waiting, Answerable
    <2> QED BY <2>1, <2>2, <2>3, <2>4, PcMoves
  <1>5. CASE ~ (n > Len(ReadKeys(i)))
    <2>1. n \in DOMAIN ReadKeys(i) /\ k \in Keys
      BY <1>2, <1>3, <1>5
    <2>2. read \in ReadResults /\ \E c : IsLast(c, k, Task(i)) /\ Names(read, k, Task(i), c)
      BY <1>3, <2>1, ReadFacts
    <2>3. job' = [job EXCEPT ![i] = [I EXCEPT !.seen = Append(I.seen, read)]]
      BY <1>5 DEF Execute
    <2> HIDE DEF read
    <2>4. PICK J : J = [I EXCEPT !.seen = Append(I.seen, read)]
      OBVIOUS
    <2>5. Append(I.seen, read) \in Seq(ReadResults)
          /\ Len(Append(I.seen, read)) = n /\ DOMAIN Append(I.seen, read) = 1 .. n
          /\ Append(I.seen, read)[n] = read
          /\ \A m \in 1 .. Len(I.seen) : Append(I.seen, read)[m] = I.seen[m]
      BY <1>2, <2>2
    <2>6. J \in JobRec /\ J.pc = "execute" /\ J.seen = Append(I.seen, read) /\ J.next = 1
          /\ J.valid = I.valid /\ ~ J.valid
      BY <1>1, <1>2, <2>4, <2>5 DEF JobRec
    <2>7. job'[i] = J /\ stor' = stor /\ Task(i)' = Task(i) /\ ReadKeys(i)' = ReadKeys(i)
      BY <1>1, <2>3, <2>4 DEF Execute, Task, ReadKeys, storeVars
    <2>8. \A m \in DOMAIN J.seen : \E a \in 0 .. Len(stor[ReadKeys(i)[m]]) :
            Names(J.seen[m], ReadKeys(i)[m], Task(i), a)
      <3> SUFFICES ASSUME NEW m \in 1 .. n
                   PROVE  \E a \in 0 .. Len(stor[ReadKeys(i)[m]]) :
                            Names(J.seen[m], ReadKeys(i)[m], Task(i), a)
        BY <2>5, <2>6
      <3>1. CASE m = n
        <4>1. J.seen[m] = read
          BY <2>5, <2>6, <3>1
        <4> QED BY <2>2, <3>1, <4>1 DEF IsLast
      <3>2. CASE m # n
        <4>1. m \in 1 .. Len(I.seen) /\ m \in DOMAIN I.seen
          BY <1>2, <3>2
        <4>2. J.seen[m] = I.seen[m]
          BY <2>5, <2>6, <4>1
        <4> QED BY <1>1, <4>1, <4>2 DEF JobInv
      <3> QED BY <3>1, <3>2
    <2>9. \A m \in DOMAIN J.seen : \E a \in 0 .. Len(stor'[ReadKeys(i)'[m]]) :
            Names(job[i].seen[m], ReadKeys(i)[m], Task(i), a)'
      BY <2>7, <2>8 DEF Names
    <2>10. Len(J.seen) <= Len(ReadKeys(i))
      BY <1>3, <1>5, <2>1, <2>5, <2>6
    <2>11. JobInv(i)'
      BY <2>6, <2>7, <2>9, <2>10 DEF JobInv
    <2>12. UNCHANGED <<setup, stor, removed, changes, lane, batch>>
      BY DEF Execute, storeVars
    <2> QED BY ZenonT(30), <2>3, <2>4, <2>6, <2>11, <2>12, JobMoves
  <1> QED BY <1>4, <1>5

\* The validation begins with versions at least as late as those the execution read, if
\* GC left these.
LEMMA ValidateBegins ==
  ASSUME ValidOK, NEW i \in Results, Validate(i)
  PROVE  ValidOK'
  <1> DEFINE I == job[i]
             start == [k \in Keys |-> Read(k, Task(i))]
  <1>1. job \in [Results -> JobRec] /\ I \in JobRec /\ I.pc = "called" /\ JobInv(i)
    BY ValidTypes DEF ValidOK, ValidatorInv, Validate
  <1>2. I.seen \in Seq(ReadResults) /\ DOMAIN I.seen = 1 .. Len(I.seen) /\ Len(I.seen) \in Nat
        /\ Len(I.seen) = Len(ReadKeys(i)) /\ I.next = 1 /\ ~ I.valid
    BY <1>1 DEF JobRec, JobInv, Waiting, Answerable
  <1>3. Task(i) \in Nat /\ ReadKeys(i) \in Seq(Keys) /\ DOMAIN ReadKeys(i) = 1 .. Len(ReadKeys(i))
    BY ResultFacts DEF ValidOK
  <1>4. start \in [Keys -> ReadResults]
    BY <1>3, ReadFacts
  <1>5. PICK J : J = [I EXCEPT !.pc = "reads", !.start = start]
    OBVIOUS
  <1>6. job' = [job EXCEPT ![i] = J]
    BY <1>1, <1>5 DEF Validate
  <1>7. \A k \in Keys : start[k] = Read(k, Task(i))
    OBVIOUS
  <1> HIDE DEF start
  <1>8. J \in JobRec /\ J.pc = "reads" /\ J.start = start /\ J.seen = I.seen /\ J.next = 1
        /\ J.valid = I.valid /\ ~ J.valid
    BY <1>1, <1>2, <1>4, <1>5 DEF JobRec
  <1>9. job'[i] = J /\ stor' = stor /\ Task(i)' = Task(i) /\ ReadKeys(i)' = ReadKeys(i)
    BY <1>1, <1>6 DEF Validate, Task, ReadKeys, storeVars
  <1>10. ASSUME NEW n \in DOMAIN J.seen
         PROVE  \E a \in 0 .. Len(stor[ReadKeys(i)[n]]) :
                  /\ Names(J.seen[n], ReadKeys(i)[n], Task(i), a)
                  /\ \E b \in 0 .. Len(stor[ReadKeys(i)[n]]) :
                       /\ Names(J.start[ReadKeys(i)[n]], ReadKeys(i)[n], Task(i), b)
                       /\ b < a => a \in removed[ReadKeys(i)[n]]
    <2> DEFINE k == ReadKeys(i)[n]
    <2>1. n \in DOMAIN I.seen /\ k \in Keys
      BY <1>2, <1>3, <1>8
    <2>2. PICK a \in 0 .. Len(stor[k]) : Names(J.seen[n], k, Task(i), a)
      BY <1>1, <1>8, <2>1 DEF JobInv
    <2>3. PICK b : IsLast(b, k, Task(i)) /\ Names(Read(k, Task(i)), k, Task(i), b)
      BY <1>3, <2>1, ReadFacts
    <2>4. DOMAIN stor[k] = 1 .. Len(stor[k]) /\ Len(stor[k]) \in Nat
      BY <2>1, StoreFacts
    <2>5. (b < a => a \in removed[k]) /\ b \in 0 .. Len(stor[k])
      BY <2>2, <2>3, <2>4 DEF IsLast, Names
    <2>6. J.start[k] = Read(k, Task(i))
      BY <1>7, <1>8, <2>1
    <2> HIDE DEF k
    <2>7. \E c \in 0 .. Len(stor[k]) : /\ Names(J.start[k], k, Task(i), c)
                                       /\ c < a => a \in removed[k]
      BY <2>3, <2>5, <2>6
    <2> QED BY <2>2, <2>7 DEF k
  <1>11. \A n \in DOMAIN J.seen : \E a \in 0 .. Len(stor'[ReadKeys(i)'[n]]) :
           /\ Names(job[i].seen[n], ReadKeys(i)[n], Task(i), a)'
           /\ \E b \in 0 .. Len(stor'[ReadKeys(i)'[n]]) :
                /\ Names(job[i].start[ReadKeys(i)[n]], ReadKeys(i)[n], Task(i), b)'
                /\ b < a => a \in removed'[ReadKeys(i)'[n]]
    <2> SUFFICES ASSUME NEW n \in DOMAIN J.seen
                 PROVE  \E a \in 0 .. Len(stor'[ReadKeys(i)'[n]]) :
                          /\ Names(job[i].seen[n], ReadKeys(i)[n], Task(i), a)'
                          /\ \E b \in 0 .. Len(stor'[ReadKeys(i)'[n]]) :
                               /\ Names(job[i].start[ReadKeys(i)[n]], ReadKeys(i)[n], Task(i), b)'
                               /\ b < a => a \in removed'[ReadKeys(i)'[n]]
      OBVIOUS
    <2> DEFINE k == ReadKeys(i)[n]
    <2>1. removed' = removed
      BY DEF Validate, storeVars
    <2>2. PICK a \in 0 .. Len(stor[k]), b \in 0 .. Len(stor[k]) :
            /\ Names(J.seen[n], k, Task(i), a) /\ Names(J.start[k], k, Task(i), b)
            /\ b < a => a \in removed[k]
      BY <1>10
    <2>3. /\ Names(job[i].seen[n], k, Task(i), a)'
          /\ Names(job[i].start[k], k, Task(i), b)'
      BY <1>9, <2>2 DEF Names
    <2> QED BY <1>9, <2>1, <2>2, <2>3 DEF Names
  <1>12. {n \in DOMAIN ReadKeys(i) : n < 1} = {}
    BY <1>3
  <1>13. JobInv(i)'
    <2>1. /\ job'[i].pc = "reads" /\ job'[i].next = 1 /\ ~ job'[i].valid
          /\ Len(job'[i].seen) = Len(ReadKeys(i)') /\ Len(ReadKeys(i)') \in Nat
          /\ "reads" \notin Waiting
      BY <1>2, <1>3, <1>8, <1>9 DEF Waiting
    <2>2. {n \in DOMAIN ReadKeys(i)' : n < job'[i].next} = {}
      BY <1>9, <1>12, <2>1
    <2> QED BY <1>8, <1>9, <1>11, <2>1, <2>2 DEF JobInv
  <1>14. UNCHANGED <<setup, stor, removed, changes, lane, batch>>
    BY DEF Validate, storeVars
  <1> QED BY <1>6, <1>8, <1>13, <1>14, JobMoves

\* A read that passes the comparison was still the same when the validation began: let a
\* be the version read, b the one the validation began with and c the current one.  If a
\* and b are still there, they are in this order.
LEMMA ComparedRead ==
  ASSUME ValidOK, NEW i \in Results, job[i].pc = "reads", NEW n \in DOMAIN ReadKeys(i),
         IsReadStillValid(job[i].seen[n], Read(ReadKeys(i)[n], Task(i)))
  PROVE  FromSnapshot(i, n)
  <1> DEFINE k == ReadKeys(i)[n]
             s == stor[k]
             N == Len(s)
             original == job[i].seen[n]
             start == job[i].start[k]
             current == Read(k, Task(i))
  <1>1. job[i] \in JobRec /\ JobInv(i)
    BY ValidTypes DEF ValidOK, ValidatorInv
  <1>2. Task(i) \in Nat /\ k \in Keys /\ n \in DOMAIN job[i].seen
    <2>1. Task(i) \in Nat /\ ReadKeys(i) \in Seq(Keys)
      BY ResultFacts DEF ValidOK
    <2>2. job[i].seen \in Seq(ReadResults) /\ Len(job[i].seen) = Len(ReadKeys(i))
      BY <1>1 DEF JobRec, JobInv
    <2> QED BY <2>1, <2>2
  <1>3. /\ N \in Nat /\ DOMAIN s = 1 .. N
        /\ \A m \in 1 .. N : s[m].tx \in Nat /\ s[m].inc \in Nat /\ s[m].status # "notFound"
        /\ \A m, l \in 1 .. N : SameVersion(s[m], s[l]) => m = l
        /\ \A t : Versions(k, t) = {m \in 1 .. N : s[m].tx = t}
                  /\ IsFiniteSet(Versions(k, t)) /\ Cardinality(Versions(k, t)) \in Nat
    <2>1. \A t : Versions(k, t) = {m \in DOMAIN s : s[m].tx = t}
      BY DEF Versions
    <2> QED BY <1>2, <2>1, StoreFacts
  <1>4. PICK a, b : /\ a \in 0 .. N /\ b \in 0 .. N
                    /\ b < a => a \in removed[k]
                    /\ Names(original, k, Task(i), a) /\ Names(start, k, Task(i), b)
    <2>1. PICK a \in 0 .. N :
            /\ Names(original, k, Task(i), a)
            /\ \E b \in 0 .. N : Names(start, k, Task(i), b) /\ (b < a => a \in removed[k])
      BY <1>1, <1>2 DEF JobInv
    <2> QED BY <2>1
  <1>5. PICK c : IsLast(c, k, Task(i)) /\ Names(current, k, Task(i), c)
    BY <1>2, ReadFacts
  <1>6. /\ c \in 0 .. N
        /\ c # 0 => c \notin removed[k]
        /\ b # 0 /\ b \notin removed[k] => b <= c
        /\ a # 0 /\ a \notin removed[k] => a <= c
    BY <1>3, <1>4, <1>5 DEF IsLast, Names
  <1>7. IsReadStillValid(original, current)
    OBVIOUS
  <1> HIDE DEF k, s, N, original, start, current
  <1>8. FromSnapshot(i, n) <=>
          \/ SameVersion(original, start)
               /\ (start.status = "notFound" <=> original.status = "notFound")
          \/ original.status = "notFound" /\ Versions(k, 0) # {}
          \/ original.status # "notFound" /\ Cardinality(Versions(k, original.tx)) > 1
          \/ Collected(k, start)
          \/ Collected(k, original) /\ NilValue(original)
    BY DEF FromSnapshot, k, s, original, start
  <1>9. CASE b # 0 /\ b \in removed[k]
    <2>1. Collected(k, start)
      BY <1>4, <1>9 DEF Collected, Names
    <2> QED BY <1>8, <2>1
  <1>10. CASE ~ (b # 0 /\ b \in removed[k]) /\ c = 0
    <2>1. current = NotFound /\ start = NotFound
      BY <1>3, <1>4, <1>5, <1>6, <1>10 DEF Names
    <2>2. CASE a = 0
      <3>1. original = NotFound
        BY <1>4, <2>2 DEF Names
      <3> QED BY <1>8, <2>1, <3>1 DEF SameVersion
    <2>3. CASE a # 0
      <3>1. a \in removed[k]
        BY <1>3, <1>4, <1>6, <1>10, <2>3
      <3>2. Collected(k, original)
        BY <1>4, <2>3, <3>1 DEF Collected, Names
      <3>3. NilValue(original)
        BY <1>7, <2>1 DEF IsReadStillValid, NotFound
      <3> QED BY <1>8, <3>2, <3>3
    <2> QED BY <2>2, <2>3
  <1>11. CASE c # 0 /\ a = 0
    <2>1. original = NotFound
      BY <1>4, <1>11 DEF Names
    <2>2. c \in 1 .. N /\ current.status # "notFound" /\ current.tx = s[c].tx
      BY <1>3, <1>5, <1>6, <1>11 DEF Names, SameVersion, s
    <2>3. current.tx = 0
      BY <1>7, <2>1, <2>2 DEF IsReadStillValid, SameVersion, NotFound
    <2>4. c \in Versions(k, 0)
      BY <1>3, <2>2, <2>3
    <2> QED BY <1>8, <2>1, <2>4 DEF NotFound
  <1>12. CASE ~ (b # 0 /\ b \in removed[k]) /\ c # 0 /\ a # 0
    <2>1. /\ a \in 1 .. N /\ c \in 1 .. N
          /\ original.status # "notFound" /\ SameVersion(original, s[a])
          /\ current.status # "notFound" /\ SameVersion(current, s[c])
      BY <1>3, <1>4, <1>5, <1>6, <1>12 DEF Names, s
    <2>2. original.tx = s[a].tx /\ current.tx = s[c].tx /\ original.tx = current.tx
      BY <1>7, <2>1 DEF IsReadStillValid, SameVersion
    <2>3. CASE a = c
      <3>1. b = a
        BY <1>3, <1>4, <1>6, <1>12, <2>1, <2>3
      <3>2. SameVersion(start, s[a]) /\ start.status # "notFound"
        BY <1>4, <1>12, <3>1 DEF Names, s
      <3> QED BY <1>8, <2>1, <3>2 DEF SameVersion
    <2>4. CASE a # c
      <3>1. a \in Versions(k, original.tx) /\ c \in Versions(k, original.tx)
        BY <1>3, <2>1, <2>2
      <3> DEFINE V == Versions(k, original.tx)
      <3>2. IsFiniteSet(V) /\ Cardinality(V) \in Nat
        BY <1>3
      <3>3. {a, c} \in SUBSET V
        BY <3>1
      <3>4. Cardinality({a, c}) = 2
        <4>1. IsFiniteSet({a}) /\ Cardinality({a}) = 1
          BY FS_Singleton
        <4>2. Cardinality({a} \cup {c}) = Cardinality({a}) + 1
          BY <2>4, <4>1, FS_AddElement
        <4>3. {a} \cup {c} = {a, c}
          OBVIOUS
        <4> QED BY <4>1, <4>2, <4>3
      <3>5. Cardinality({a, c}) <= Cardinality(V)
        <4> HIDE DEF V
        <4> QED BY <3>2, <3>3, FS_Subset
      <3> QED BY <1>8, <2>1, <3>2, <3>4, <3>5
    <2> QED BY <2>3, <2>4
  <1> QED BY <1>9, <1>10, <1>11, <1>12


\* A result that moves on its way to the validation, or out of it.
LEMMA PlaceMove ==
  ASSUME ValidOK, NEW i \in Results, NEW p \in {"queued", "called", "validated"},
         job' = [job EXCEPT ![i].pc = p],
         UNCHANGED <<setup, stor, removed, changes, lane, batch>>,
         job[i].pc \notin Answerable, job[i].pc # "execute",
         p \in Waiting => job[i].pc \in Waiting
  PROVE  ValidOK'
  <1>1. p \in {"executed", "queued", "called", "validated", "answered"}
    OBVIOUS
  <1>2. lane' \in Seq(Nat \ {0})
    BY ValidTypes
  <1> QED BY <1>1, <1>2, PcMoves

LEMMA AnswerMove ==
  ASSUME ValidOK, NEW i \in Results, job[i].pc = "validated",
         job' = [job EXCEPT ![i].pc = "answered"],
         UNCHANGED <<setup, stor, removed, changes, batch>>, lane' \in Seq(Nat \ {0})
  PROVE  ValidOK'
  <1>1. "answered" \in Answerable /\ "answered" \notin Waiting
    BY DEF Answerable, Waiting
  <1> QED BY <1>1, PcMoves

\* What has been compared is kept while the validation goes on.
LEMMA JobProgress ==
  ASSUME ValidOK, NEW i \in Results, NEW J \in JobRec, job' = [job EXCEPT ![i] = J],
         UNCHANGED <<setup, stor, removed>>, J.seen = job[i].seen, J.start = job[i].start,
         job[i].pc # "execute", J.pc \notin Waiting, J.pc = "reads" => job[i].pc = "reads",
         J.valid => J.pc \in Answerable,
         \A n \in IF J.pc = "reads" THEN {n \in DOMAIN ReadKeys(i) : n < J.next}
                  ELSE IF J.pc = "writes" \/ J.valid THEN DOMAIN ReadKeys(i) ELSE {} :
           FromSnapshot(i, n)
  PROVE  JobInv(i)'
  <1> DEFINE I == job[i]
  <1>1. job'[i] = J /\ stor' = stor /\ removed' = removed
        /\ Task(i)' = Task(i) /\ ReadKeys(i)' = ReadKeys(i)
    BY ValidTypes DEF Task, ReadKeys
  <1>2. JobInv(i) /\ Len(J.seen) = Len(ReadKeys(i)) /\ Len(J.seen) <= Len(ReadKeys(i))
    BY DEF ValidOK, ValidatorInv, JobInv
  <1>3. \A n : FromSnapshot(i, n)' <=> FromSnapshot(i, n)
    BY ZenonT(30), <1>1 DEF FromSnapshot, Versions, Collected, NilValue
  <1>4. \A n \in DOMAIN J.seen : \E a \in 0 .. Len(stor[ReadKeys(i)[n]]) :
          /\ Names(J.seen[n], ReadKeys(i)[n], Task(i), a)
          /\ J.pc = "reads" => \E b \in 0 .. Len(stor[ReadKeys(i)[n]]) :
               /\ Names(J.start[ReadKeys(i)[n]], ReadKeys(i)[n], Task(i), b)
               /\ b < a => a \in removed[ReadKeys(i)[n]]
    BY <1>2 DEF JobInv
  <1>5. \A n \in DOMAIN J.seen : \E a \in 0 .. Len(stor'[ReadKeys(i)'[n]]) :
          /\ Names(job[i].seen[n], ReadKeys(i)[n], Task(i), a)'
          /\ J.pc = "reads" => \E b \in 0 .. Len(stor'[ReadKeys(i)'[n]]) :
               /\ Names(job[i].start[ReadKeys(i)[n]], ReadKeys(i)[n], Task(i), b)'
               /\ b < a => a \in removed'[ReadKeys(i)'[n]]
    BY <1>1, <1>4 DEF Names
  <1> QED BY <1>1, <1>2, <1>3, <1>5 DEF JobInv

\* What a validation has already compared, wherever it is.
LEMMA Compared ==
  ASSUME ValidOK, NEW i \in Results
  PROVE  /\ job[i] \in JobRec /\ job[i].next \in Nat /\ job[i].next # 0
         /\ Len(ReadKeys(i)) \in Nat /\ DOMAIN ReadKeys(i) = 1 .. Len(ReadKeys(i))
         /\ job[i].valid => job[i].pc \in Answerable
         /\ job[i].pc = "reads" =>
              \A n \in DOMAIN ReadKeys(i) : n < job[i].next => FromSnapshot(i, n)
         /\ job[i].pc = "writes" => \A n \in DOMAIN ReadKeys(i) : FromSnapshot(i, n)
  <1>1. job[i] \in JobRec /\ JobInv(i)
    BY ValidTypes DEF ValidOK, ValidatorInv
  <1>2. ReadKeys(i) \in Seq(Keys)
    BY ResultFacts DEF ValidOK
  <1> QED BY <1>1, <1>2 DEF JobRec, JobInv

LEMMA CheckReadStep ==
  ASSUME ValidOK, NEW i \in Results, CheckRead(i)
  PROVE  ValidOK'
  <1> DEFINE I == job[i]
             n == I.next
  <1>1. /\ I.pc = "reads" /\ I.pc \notin Answerable /\ I.pc \notin Waiting /\ I.pc # "execute"
        /\ UNCHANGED <<setup, stor, removed, changes, lane, batch>>
    BY DEF CheckRead, Answerable, Waiting, storeVars
  <1>2. /\ I \in JobRec /\ n \in Nat /\ n # 0 /\ ~ (n > Len(ReadKeys(i))) /\ ~ I.valid
        /\ Len(ReadKeys(i)) \in Nat /\ DOMAIN ReadKeys(i) = 1 .. Len(ReadKeys(i))
        /\ \A m \in DOMAIN ReadKeys(i) : m < n => FromSnapshot(i, m)
    BY <1>1, Compared DEF CheckRead, AllReadsChecked
  <1>3. CASE IsReadStillValid(I.seen[n], Read(ReadKeys(i)[n], Task(i)))
    <2>1. job' = [job EXCEPT ![i] = [I EXCEPT !.next = n + 1]]
      BY <1>3 DEF CheckRead
    <2>2. PICK J : J = [I EXCEPT !.next = n + 1]
      OBVIOUS
    <2>3. /\ J \in JobRec /\ J.pc = "reads" /\ J.seen = I.seen /\ J.start = I.start
          /\ J.next = n + 1 /\ J.valid = I.valid
      BY <1>1, <1>2, <2>2 DEF JobRec
    <2>4. n \in DOMAIN ReadKeys(i)
      BY <1>2
    <2>5. FromSnapshot(i, n)
      BY <1>1, <1>3, <2>4, ComparedRead
    <2>6. \A m \in {m \in DOMAIN ReadKeys(i) : m < J.next} : FromSnapshot(i, m)
      <3> SUFFICES ASSUME NEW m \in DOMAIN ReadKeys(i), m < n + 1
                   PROVE  FromSnapshot(i, m)
        BY <2>3
      <3>1. m < n \/ m = n
        BY <1>2
      <3> QED BY <1>2, <2>5, <3>1
    <2>7. JobInv(i)'
      BY <1>1, <1>2, <2>1, <2>2, <2>3, <2>6, JobProgress
    <2> QED BY <1>1, <2>1, <2>2, <2>3, <2>7, JobMoves
  <1>4. CASE ~ IsReadStillValid(I.seen[n], Read(ReadKeys(i)[n], Task(i)))
    <2>1. job' = [job EXCEPT ![i].pc = "validated"] /\ "validated" \notin Waiting
      BY <1>4 DEF CheckRead, Waiting
    <2> QED BY <1>1, <2>1, PlaceMove
  <1> QED BY <1>3, <1>4

LEMMA ValidateFullStep ==
  ASSUME ValidOK, NEW i \in Results, ValidateFull(i)
  PROVE  ValidOK'
  <1> DEFINE I == job[i]
  <1>1. /\ I.pc = "reads" /\ I.pc \notin Answerable /\ I.pc # "execute"
        /\ I.next > Len(ReadKeys(i))
        /\ UNCHANGED <<setup, stor, removed, changes, lane, batch>>
        /\ job' = [job EXCEPT ![i] = [I EXCEPT !.pc = "writes", !.next = 1]]
    BY DEF ValidateFull, AllReadsChecked, Answerable, storeVars
  <1>2. PICK J : J = [I EXCEPT !.pc = "writes", !.next = 1]
    OBVIOUS
  <1>3. /\ J \in JobRec /\ J.pc = "writes" /\ J.seen = I.seen /\ J.start = I.start
        /\ J.valid = I.valid /\ ~ J.valid /\ J.pc \notin Answerable /\ J.pc \notin Waiting
    <2>1. I \in JobRec /\ ~ I.valid
      BY <1>1, Compared
    <2>2. J = [pc |-> "writes", seen |-> I.seen, start |-> I.start, next |-> 1,
               valid |-> I.valid]
      <3> HIDE DEF I
      <3>1. J.pc = "writes" /\ J.next = 1
        BY <1>2, <2>1 DEF JobRec
      <3>2. J.seen = I.seen /\ J.start = I.start
        BY <1>2, <2>1 DEF JobRec
      <3>3. J.valid = I.valid
        BY <1>2, <2>1 DEF JobRec
      <3> QED BY <1>2, <2>1, <3>1, <3>2, <3>3 DEF JobRec
    <2>3. J.valid = I.valid
      BY <2>2
    <2>4. J \in JobRec /\ J.pc = "writes" /\ J.seen = I.seen /\ J.start = I.start
      BY <2>1, <2>2 DEF JobRec
    <2> QED BY <2>1, <2>3, <2>4, Zenon DEF Answerable, Waiting
  <1>4. \A n \in DOMAIN ReadKeys(i) : FromSnapshot(i, n)
    BY <1>1, Compared
  <1>5. JobInv(i)'
    BY <1>1, <1>2, <1>3, <1>4, JobProgress
  <1> QED BY <1>1, <1>2, <1>3, <1>5, JobMoves

LEMMA CheckWriteStep ==
  ASSUME ValidOK, NEW i \in Results, CheckWrite(i)
  PROVE  ValidOK'
  <1> DEFINE I == job[i]
             n == I.next
  <1>1. /\ I.pc = "writes" /\ I.pc \notin Answerable /\ I.pc \notin Waiting /\ I.pc # "execute"
        /\ UNCHANGED <<setup, stor, removed, changes, lane, batch>>
    BY DEF CheckWrite, Answerable, Waiting, storeVars
  <1>2. I \in JobRec /\ n \in Nat /\ ~ I.valid /\ \A m \in DOMAIN ReadKeys(i) : FromSnapshot(i, m)
    BY <1>1, Compared
  <1>3. CASE IsWriteValid(i, WriteKeys(i)[n])
    <2>1. job' = [job EXCEPT ![i] = [I EXCEPT !.next = n + 1]]
      BY <1>3 DEF CheckWrite
    <2>2. PICK J : J = [I EXCEPT !.next = n + 1]
      OBVIOUS
    <2>3. /\ J \in JobRec /\ J.pc = "writes" /\ J.seen = I.seen /\ J.start = I.start
          /\ J.valid = I.valid
      BY <1>1, <1>2, <2>2 DEF JobRec
    <2>4. JobInv(i)'
      BY <1>1, <1>2, <2>1, <2>2, <2>3, JobProgress
    <2> QED BY <1>1, <2>1, <2>2, <2>3, <2>4, JobMoves
  <1>4. CASE ~ IsWriteValid(i, WriteKeys(i)[n])
    <2>1. job' = [job EXCEPT ![i].pc = "validated"] /\ "validated" \notin Waiting
      BY <1>4 DEF CheckWrite, Waiting
    <2> QED BY <1>1, <2>1, PlaceMove
  <1> QED BY <1>3, <1>4

LEMMA SucceedStep ==
  ASSUME ValidOK, NEW i \in Results, Succeed(i)
  PROVE  ValidOK'
  <1> DEFINE I == job[i]
  <1>1. /\ I.pc \in {"reads", "writes"} /\ I.pc # "execute"
        /\ I.pc = "reads" => I.next > Len(ReadKeys(i))
        /\ UNCHANGED <<setup, stor, removed, changes, lane, batch>>
        /\ job' = [job EXCEPT ![i] = [I EXCEPT !.pc = "validated", !.valid = TRUE]]
    BY DEF Succeed, AllReadsChecked, storeVars
  <1>2. PICK J : J = [I EXCEPT !.pc = "validated", !.valid = TRUE]
    OBVIOUS
  <1>3. /\ J \in JobRec /\ J.pc = "validated" /\ J.seen = I.seen /\ J.start = I.start
        /\ J.valid /\ J.pc \in Answerable /\ J.pc \notin Waiting /\ job'[i] = J
    BY <1>1, <1>2, Compared, ValidTypes DEF JobRec, Answerable, Waiting
  <1>4. \A n \in DOMAIN ReadKeys(i) : FromSnapshot(i, n)
    BY <1>1, Compared
  <1>5. JobInv(i)'
    BY <1>1, <1>2, <1>3, <1>4, JobProgress
  <1> QED BY <1>1, <1>2, <1>3, <1>5, JobMoves

LEMMA ValidateSteps ==
  ASSUME ValidOK, NEW i \in Results, ValidateStep(i)
  PROVE  ValidOK'
  BY ValidateBegins, CheckReadStep, ValidateFullStep, CheckWriteStep, SucceedStep
     DEF ValidateStep

--------------------------------------------------------------------------------
(* The batch *)

LEMMA ValidateBatchStep ==
  ASSUME ValidOK, ValidateBatch
  PROVE  ValidOK'
  <1>1. /\ batch = "none" /\ batch' = "running" /\ lane' = [w \in 1 .. NumWorkers |-> w]
        /\ UNCHANGED <<setup, stor, removed, changes, job>>
    BY DEF ValidateBatch, storeVars
  <1>2. NumWorkers \in Nat
    <2> DEFINE m == Len(setup.results)
               n == IF setup.concurrent = 0 THEN DefaultWorkers ELSE setup.concurrent
    <2>1. m \in Nat /\ n \in Nat
      BY ResultFacts, SetupFacts, LimitsAssumption, SetupsAssumption DEF ValidOK
    <2>2. Min({m, n}) \in Nat
      <3> HIDE DEF m, n
      <3> QED BY <2>1, MinOfTwo
    <2> QED BY <2>2 DEF NumWorkers
  <1>3. lane' \in Seq(Nat \ {0})
    <2> HIDE DEF NumWorkers
    <2> QED BY <1>1, <1>2
  <1> QED BY <1>1, <1>3, ValidFrame

LEMMA BatchTakeStep ==
  ASSUME ValidOK, NEW w \in DOMAIN lane, BatchTake(w)
  PROVE  ValidOK'
  <1> DEFINE i == lane[w]
  <1>1. /\ i \in Results /\ job[i].pc = "executed" /\ job' = [job EXCEPT ![i].pc = "called"]
        /\ UNCHANGED <<setup, stor, removed, changes, lane, batch>>
    BY DEF BatchTake, storeVars
  <1>2. job[i].pc \notin Answerable /\ job[i].pc # "execute" /\ job[i].pc \in Waiting
    BY <1>1 DEF Answerable, Waiting
  <1> HIDE DEF i
  <1> QED BY <1>1, <1>2, PlaceMove

LEMMA BatchSendStep ==
  ASSUME ValidOK, NEW w \in DOMAIN lane, BatchSend(w)
  PROVE  ValidOK'
  <1> DEFINE i == lane[w]
  <1>1. /\ i \in Results /\ job[i].pc = "validated" /\ job' = [job EXCEPT ![i].pc = "answered"]
        /\ UNCHANGED <<setup, stor, removed, changes, batch>>
        /\ lane' = [lane EXCEPT ![w] = @ + Len(lane)]
    BY DEF BatchSend, storeVars
  <1>2. lane' \in Seq(Nat \ {0})
    <2>1. lane \in Seq(Nat \ {0}) /\ Len(lane) \in Nat /\ lane[w] \in Nat /\ lane[w] # 0
      BY ValidTypes
    <2>2. lane[w] + Len(lane) \in Nat \ {0}
      BY <2>1
    <2> QED BY <1>1, <2>1, <2>2
  <1> HIDE DEF i
  <1> QED BY <1>1, <1>2, AnswerMove

LEMMA BatchReturnStep ==
  ASSUME ValidOK, BatchReturn
  PROVE  ValidOK'
  <1>1. /\ batch' = "returned" /\ lane' = lane
        /\ UNCHANGED <<setup, stor, removed, changes, job>>
    BY DEF BatchReturn, storeVars
  <1> QED BY <1>1, ValidTypes, ValidFrame

LEMMA ValidatorSteps ==
  ASSUME ValidOK, ValidatorNext
  PROVE  ValidOK'
  BY StoreWriteStep, StoreCommitStep, StoreRemoveStep, ExecuteStep, ValidateSteps,
     ValidateBatchStep, BatchTakeStep, BatchSendStep, BatchReturnStep DEF ValidatorNext, BatchStep

--------------------------------------------------------------------------------
(* The requests *)

RequestOK ==
  /\ setup \in Setups
  /\ validationQueue \in Seq(Results) /\ Len(validationQueue) <= Capacity
  /\ worker \in [Workers -> Results \cup {0, -1}]
  /\ shutdown \in {"no", "closed", "returned"}
  /\ RequestInv

LEMMA Parts == IInv <=> ValidOK /\ DetectOK /\ RequestOK
  BY DEF IInv, ValidOK, DetectOK, RequestOK, TypeOK

\* A step of the validator leaves the requests alone if no result joins or leaves the
\* channel and what the workers hold stays in the middle of its validation.
LEMMA RequestsStay ==
  ASSUME RequestOK, UNCHANGED <<setup, earlyVars>>, setup.early => lane' = <<>>,
         \A i \in Results : job'[i].pc = "queued" <=> job[i].pc = "queued",
         \A w \in Workers : worker[w] \in Results => job'[worker[w]].pc \in Validating
  PROVE  RequestOK'
  <1>1. /\ Results' = Results /\ Workers' = Workers /\ Capacity' = Capacity
        /\ validationQueue' = validationQueue /\ worker' = worker /\ shutdown' = shutdown
    BY DEF Results, Workers, Capacity, earlyVars
  <1> QED BY <1>1 DEF RequestOK, RequestInv

LEMMA OneMoves ==
  ASSUME ValidOK, RequestOK, UNCHANGED <<setup, earlyVars>>, setup.early => lane' = <<>>,
         NEW i \in Results, \A j \in Results \ {i} : job'[j] = job[j],
         job'[i].pc = "queued" <=> job[i].pc = "queued",
         \/ job'[i].pc \in Validating
         \/ job[i].pc \notin Validating
         \/ \A w \in Workers : worker[w] # i
  PROVE  RequestOK'
  <1>1. \A j \in Results : job'[j].pc = "queued" <=> job[j].pc = "queued"
    OBVIOUS
  <1>2. \A w \in Workers : worker[w] \in Results => job[worker[w]].pc \in Validating
    BY DEF RequestOK, RequestInv
  <1>3. \A w \in Workers : worker[w] \in Results => job'[worker[w]].pc \in Validating
    BY <1>2
  <1> QED BY <1>1, <1>3, RequestsStay

LEMMA ValidatorKeepsRequests ==
  ASSUME ValidOK, RequestOK, ValidatorNext, UNCHANGED earlyVars
  PROVE  RequestOK'
  <1>1. job \in [Results -> JobRec] /\ setup' = setup /\ (setup.early => lane = <<>>)
    <2>1. setup' = setup
      BY DEF ValidatorNext, StoreWrite, StoreCommit, StoreRemove, Execute, ValidateStep,
             Validate, CheckRead, ValidateFull, CheckWrite, Succeed, ValidateBatch, BatchStep,
             BatchTake, BatchSend, BatchReturn
    <2> QED BY <2>1, ValidTypes DEF RequestOK, RequestInv
  <1>2. \A w \in Workers : worker[w] \in Results => job[worker[w]].pc \in Validating
    BY DEF RequestOK, RequestInv
  <1>3. ASSUME job' = job, setup.early => lane' = <<>>
        PROVE  RequestOK'
    BY <1>1, <1>2, <1>3, RequestsStay
  <1>4. ASSUME NEW k \in Keys, NEW t \in Txs, StoreWrite(k, t) \/ StoreCommit(k, t)
        PROVE  RequestOK'
    BY <1>1, <1>3, <1>4 DEF StoreWrite, StoreCommit
  <1>11. ASSUME NEW k \in Keys, NEW n \in DOMAIN stor[k], StoreRemove(k, n)
         PROVE  RequestOK'
    BY <1>1, <1>3, <1>11 DEF StoreRemove
  <1>5. ASSUME NEW i \in Results, Execute(i)
        PROVE  RequestOK'
    <2>1. /\ job[i].pc = "execute" /\ lane' = lane
          /\ \/ job' = [job EXCEPT ![i].pc = "executed"]
             \/ \E seen : job' = [job EXCEPT ![i].seen = seen]
      BY <1>5 DEF Execute
    <2>2. job'[i].pc \in {"execute", "executed"} /\ \A j \in Results \ {i} : job'[j] = job[j]
      BY <1>1, <2>1 DEF JobRec
    <2>3. job[i].pc \notin Validating
      BY <2>1 DEF Validating
    <2> QED BY <1>1, <2>1, <2>2, <2>3, OneMoves
  <1>6. ASSUME NEW i \in Results, ValidateStep(i)
        PROVE  RequestOK'
    <2>1. lane' = lane /\ job[i].pc \in Validating
      BY <1>6 DEF ValidateStep, Validate, CheckRead, ValidateFull, CheckWrite, Succeed,
                  AllReadsChecked, Validating
    <2>2. job'[i].pc \in Validating /\ \A j \in Results \ {i} : job'[j] = job[j]
      <3>1. CASE Validate(i)
        BY <1>1, <3>1 DEF Validate, Validating, JobRec
      <3>2. CASE CheckRead(i)
        BY <1>1, <3>2 DEF CheckRead, Validating, JobRec
      <3>3. CASE ValidateFull(i)
        BY <1>1, <3>3 DEF ValidateFull, Validating, JobRec
      <3>4. CASE CheckWrite(i)
        BY <1>1, <3>4 DEF CheckWrite, Validating, JobRec
      <3>5. CASE Succeed(i)
        BY <1>1, <3>5 DEF Succeed, Validating, JobRec
      <3> QED BY <1>6, <3>1, <3>2, <3>3, <3>4, <3>5 DEF ValidateStep
    <2>3. job[i].pc # "queued" /\ job'[i].pc # "queued"
      BY <2>1, <2>2 DEF Validating
    <2> QED BY <1>1, <2>1, <2>2, <2>3, OneMoves
  <1>7. ASSUME ValidateBatch
        PROVE  RequestOK'
    BY <1>3, <1>7 DEF ValidateBatch
  <1>8. ASSUME NEW w \in DOMAIN lane, BatchTake(w)
        PROVE  RequestOK'
    <2> DEFINE i == lane[w]
    <2>1. /\ i \in Results /\ job[i].pc = "executed" /\ lane' = lane
          /\ job' = [job EXCEPT ![i].pc = "called"]
      BY <1>8 DEF BatchTake
    <2> HIDE DEF i
    <2>2. job'[i].pc = "called" /\ \A j \in Results \ {i} : job'[j] = job[j]
      BY <1>1, <2>1 DEF JobRec
    <2>3. job[i].pc # "queued" /\ job'[i].pc \in Validating
      BY <2>1, <2>2 DEF Validating
    <2> QED BY <1>1, <2>1, <2>2, <2>3, OneMoves
  <1>9. ASSUME NEW w \in DOMAIN lane, BatchSend(w)
        PROVE  RequestOK'
    <2> DEFINE i == lane[w]
    <2>1. /\ i \in Results /\ job[i].pc = "validated"
          /\ job' = [job EXCEPT ![i].pc = "answered"]
      BY <1>9 DEF BatchSend
    <2>2. ~ setup.early
      <3>1. lane # <<>>
        OBVIOUS
      <3> QED BY <1>1, <3>1
    <2>3. \A v \in Workers : worker[v] # i
      BY <2>1, <2>2 DEF RequestOK, RequestInv
    <2> HIDE DEF i
    <2>4. job'[i].pc = "answered" /\ \A j \in Results \ {i} : job'[j] = job[j]
      BY <1>1, <2>1 DEF JobRec
    <2> QED BY <1>1, <2>1, <2>2, <2>3, <2>4, OneMoves
  <1>10. ASSUME BatchReturn
         PROVE  RequestOK'
    BY <1>1, <1>3, <1>10 DEF BatchReturn
  <1> QED BY <1>4, <1>5, <1>6, <1>7, <1>8, <1>9, <1>10, <1>11 DEF ValidatorNext, BatchStep

LEMMA DetectionKeepsRest ==
  ASSUME ValidOK, DetectOK, RequestOK, NEW c \in Calls, DetectionStep(c), UNCHANGED earlyVars
  PROVE  ValidOK' /\ RequestOK'
  <1>1. UNCHANGED <<setup, stor, removed, changes, job, lane, batch>>
    BY DEF DetectionStep, DetectConflicts, CacheHit, CacheMiss, CacheStore, DetectionReturn,
           validatorVars
  <1>2. ValidOK'
    BY <1>1, ValidTypes, ValidFrame
  <1>3. RequestOK'
    <2>1. setup.early => lane' = <<>>
      BY <1>1 DEF RequestOK, RequestInv
    <2>2. \A w \in Workers : worker[w] \in Results => job'[worker[w]].pc \in Validating
      BY <1>1 DEF RequestOK, RequestInv
    <2> QED BY <1>1, <2>1, <2>2, RequestsStay
  <1> QED BY <1>2, <1>3

LEMMA ValidateAsyncStep ==
  ASSUME ValidOK, DetectOK, RequestOK, NEW i \in Results, ValidateAsync(i)
  PROVE  ValidOK' /\ DetectOK' /\ RequestOK'
  <1>1. /\ setup.early /\ job[i].pc = "executed"
        /\ UNCHANGED <<setup, stor, removed, changes, lane, batch, cache, call, worker, shutdown>>
    BY DEF ValidateAsync, detectionVars, storeVars
  <1>2. DetectOK'
    BY <1>1, DetectFrame
  <1>3. job \in [Results -> JobRec] /\ Results' = Results /\ Workers' = Workers
        /\ Capacity' = Capacity
    BY <1>1, ValidTypes DEF Results, Workers, Capacity
  <1>4. /\ job[i].pc \notin Answerable /\ job[i].pc # "execute" /\ job[i].pc \in Waiting
        /\ job[i].pc # "queued" /\ job[i].pc \notin Validating
    BY <1>1 DEF Answerable, Waiting, Validating
  <1>5. CASE Len(validationQueue) < Capacity
    <2>1. /\ validationQueue' = Append(validationQueue, i)
          /\ job' = [job EXCEPT ![i].pc = "queued"]
      BY <1>5 DEF ValidateAsync
    <2>2. ValidOK'
      BY <1>1, <1>4, <2>1, PlaceMove
    <2>3. job'[i].pc = "queued" /\ \A j \in Results \ {i} : job'[j] = job[j]
      BY <1>3, <2>1 DEF JobRec
    <2>4. validationQueue \in Seq(Results) /\ IsInjective(validationQueue)
          /\ i \notin ToSet(validationQueue)
      BY <1>4 DEF RequestOK, RequestInv
    <2>5. /\ validationQueue' \in Seq(Results)
          /\ ToSet(validationQueue') = ToSet(validationQueue) \cup {i}
          /\ IsInjective(validationQueue')
      BY <2>1, <2>4, AppendFacts
    <2>6. Len(validationQueue') <= Capacity
      <3>1. Capacity \in Nat
        BY SetupFacts, RequestsPerWorkerAssumption DEF Capacity, RequestOK
      <3>2. Len(validationQueue') = Len(validationQueue) + 1 /\ Len(validationQueue) \in Nat
        BY <2>1, <2>4
      <3> QED BY <1>5, <3>1, <3>2
    <2>7. \A j \in Results : job'[j].pc = "queued" <=> j \in ToSet(validationQueue')
      BY <2>3, <2>5 DEF RequestOK, RequestInv
    <2>8. \A w \in Workers : worker[w] \in Results =>
            /\ job'[worker[w]].pc \in Validating
            /\ \A v \in Workers : worker[v] = worker[w] => v = w
      BY <1>4, <2>3 DEF RequestOK, RequestInv
    <2>9. RequestInv'
      <3>1. /\ shutdown = "returned" => \A w \in Workers : worker[w] = -1
            /\ setup.early => lane = <<>>
        BY DEF RequestOK, RequestInv
      <3> QED BY <1>1, <1>3, <2>5, <2>7, <2>8, <3>1 DEF RequestInv
    <2>10. RequestOK'
      BY <1>1, <1>3, <2>5, <2>6, <2>9 DEF RequestOK
    <2> QED BY <1>2, <2>2, <2>10
  <1>6. CASE ~ (Len(validationQueue) < Capacity)
    <2>1. validationQueue' = validationQueue /\ job' = [job EXCEPT ![i].pc = "called"]
      BY <1>6 DEF ValidateAsync
    <2>2. ValidOK'
      BY <1>1, <1>4, <2>1, PlaceMove
    <2>3. job'[i].pc = "called" /\ \A j \in Results \ {i} : job'[j] = job[j]
      BY <1>3, <2>1 DEF JobRec
    <2>4. UNCHANGED <<setup, earlyVars>> /\ (setup.early => lane' = <<>>)
      BY <1>1, <2>1 DEF earlyVars, RequestOK, RequestInv
    <2>5. job'[i].pc = "queued" <=> job[i].pc = "queued"
      BY <1>4, <2>3
    <2> QED BY <1>2, <1>4, <2>2, <2>3, <2>4, <2>5, OneMoves
  <1> QED BY <1>5, <1>6

LEMMA TakeRequestStep ==
  ASSUME ValidOK, DetectOK, RequestOK, NEW w \in Workers, TakeRequest(w)
  PROVE  ValidOK' /\ DetectOK' /\ RequestOK'
  <1> DEFINE i == Head(validationQueue)
  <1>1. /\ worker[w] = 0 /\ validationQueue # <<>>
        /\ worker' = [worker EXCEPT ![w] = i]
        /\ validationQueue' = Tail(validationQueue)
        /\ job' = [job EXCEPT ![i].pc = "called"]
        /\ UNCHANGED <<setup, stor, removed, changes, lane, batch, cache, call, shutdown>>
    BY DEF TakeRequest, detectionVars, storeVars
  <1>2. DetectOK'
    BY <1>1, DetectFrame
  <1>3. /\ job \in [Results -> JobRec] /\ Results' = Results /\ Workers' = Workers
        /\ Capacity' = Capacity
    BY <1>1, ValidTypes DEF Results, Workers, Capacity
  <1>4. validationQueue \in Seq(Results) /\ IsInjective(validationQueue)
        /\ Len(validationQueue) <= Capacity /\ worker \in [Workers -> Results \cup {0, -1}]
    BY DEF RequestOK, RequestInv
  <1>5. /\ i \in Results /\ validationQueue' \in Seq(Results)
        /\ Len(validationQueue') = Len(validationQueue) - 1
        /\ ToSet(validationQueue) = ToSet(validationQueue') \cup {i}
        /\ IsInjective(validationQueue') /\ i \notin ToSet(validationQueue')
    BY <1>1, <1>4, TailFacts
  <1> HIDE DEF i
  <1>6. job[i].pc = "queued"
    BY <1>5 DEF RequestOK, RequestInv
  <1>7. /\ job[i].pc \notin Answerable /\ job[i].pc # "execute" /\ job[i].pc \in Waiting
        /\ job[i].pc \notin Validating
    BY <1>6 DEF Answerable, Waiting, Validating
  <1>8. ValidOK'
    BY <1>1, <1>5, <1>7, PlaceMove
  <1>9. /\ job'[i].pc = "called" /\ \A j \in Results \ {i} : job'[j] = job[j]
        /\ worker'[w] = i /\ \A v \in Workers \ {w} : worker'[v] = worker[v]
        /\ worker' \in [Workers -> Results \cup {0, -1}]
    BY <1>1, <1>3, <1>4, <1>5 DEF JobRec
  <1>10. Len(validationQueue') <= Capacity
    <2>1. Capacity \in Nat /\ Len(validationQueue) \in Nat
      BY <1>4, SetupFacts, RequestsPerWorkerAssumption DEF Capacity, RequestOK
    <2> QED BY <1>4, <1>5, <2>1
  <1>11. \A j \in Results : job'[j].pc = "queued" <=> j \in ToSet(validationQueue')
    BY <1>5, <1>9 DEF RequestOK, RequestInv
  <1>12. \A v \in Workers : worker[v] \in Results =>
           /\ job[worker[v]].pc \in Validating /\ worker[v] # i
           /\ \A u \in Workers : worker[u] = worker[v] => u = v
    BY <1>7 DEF RequestOK, RequestInv
  <1>13. ASSUME NEW v \in Workers, worker'[v] \in Results
         PROVE  /\ job'[worker'[v]].pc \in Validating
                /\ \A u \in Workers : worker'[u] = worker'[v] => u = v
    <2>1. "called" \in Validating
      BY DEF Validating
    <2>2. \A u \in Workers \ {w} : worker[u] # i
      BY <1>5, <1>12
    <2>3. CASE v = w
      BY <1>9, <2>1, <2>2, <2>3
    <2>4. CASE v # w
      BY <1>9, <1>12, <1>13, <2>2, <2>4
    <2> QED BY <2>3, <2>4
  <1>14. RequestInv'
    <2>1. shutdown # "returned"
      <3>1. worker[w] # -1
        BY <1>1
      <3> QED BY <3>1 DEF RequestOK, RequestInv
    <2>2. setup.early /\ lane = <<>>
      BY <1>1 DEF RequestOK, RequestInv
    <2> QED BY <1>1, <1>3, <1>5, <1>11, <1>13, <2>1, <2>2 DEF RequestInv
  <1>15. RequestOK'
    BY <1>1, <1>3, <1>5, <1>9, <1>10, <1>14 DEF RequestOK
  <1> QED BY <1>2, <1>8, <1>15

LEMMA RespondStep ==
  ASSUME ValidOK, DetectOK, RequestOK, NEW w \in Workers, Respond(w)
  PROVE  ValidOK' /\ DetectOK' /\ RequestOK'
  <1> DEFINE i == worker[w]
  <1>1. /\ i \in Results /\ job[i].pc = "validated"
        /\ job' = [job EXCEPT ![i].pc = "answered"] /\ worker' = [worker EXCEPT ![w] = 0]
        /\ UNCHANGED <<setup, stor, removed, changes, lane, batch, cache, call, validationQueue,
                       shutdown>>
    BY DEF Respond, detectionVars, storeVars
  <1>2. DetectOK'
    BY <1>1, DetectFrame
  <1>3. /\ job \in [Results -> JobRec] /\ Results' = Results /\ Workers' = Workers
        /\ Capacity' = Capacity /\ lane \in Seq(Nat \ {0})
        /\ worker \in [Workers -> Results \cup {0, -1}]
    BY <1>1, ValidTypes DEF Results, Workers, Capacity, RequestOK
  <1>4. \A v \in Workers : worker[v] \in Results =>
          /\ job[worker[v]].pc \in Validating
          /\ \A u \in Workers : worker[u] = worker[v] => u = v
    BY DEF RequestOK, RequestInv
  <1>5. \A v \in Workers \ {w} : worker[v] # i
    BY <1>1, <1>4
  <1> HIDE DEF i
  <1>6. ValidOK'
    BY <1>1, <1>3, AnswerMove
  <1>7. /\ job'[i].pc = "answered" /\ \A j \in Results \ {i} : job'[j] = job[j]
        /\ worker'[w] = 0 /\ \A v \in Workers \ {w} : worker'[v] = worker[v]
        /\ worker' \in [Workers -> Results \cup {0, -1}]
    BY <1>1, <1>3 DEF JobRec
  <1>8. \A j \in Results : job'[j].pc = "queued" <=> j \in ToSet(validationQueue')
    BY <1>1, <1>7 DEF RequestOK, RequestInv
  <1>9. ASSUME NEW v \in Workers, worker'[v] \in Results
        PROVE  /\ job'[worker'[v]].pc \in Validating
               /\ \A u \in Workers : worker'[u] = worker'[v] => u = v
    <2>1. 0 \notin Results
      BY ResultFacts DEF RequestOK
    <2>2. v # w
      BY <1>7, <1>9, <2>1
    <2> QED BY <1>4, <1>5, <1>7, <1>9, <2>1, <2>2
  <1>10. RequestInv'
    <2>1. /\ setup.early => lane = <<>>
          /\ setup.early /\ IsInjective(validationQueue)
      BY <1>1 DEF RequestOK, RequestInv, i
    <2>2. shutdown # "returned"
      <3>1. -1 \notin Results
        BY ResultFacts DEF RequestOK
      <3>2. worker[w] # -1
        BY <1>1, <3>1 DEF i
      <3> QED BY <3>2 DEF RequestOK, RequestInv
    <2> QED BY <1>1, <1>3, <1>8, <1>9, <2>1, <2>2 DEF RequestInv
  <1>11. RequestOK'
    BY <1>1, <1>3, <1>7, <1>10 DEF RequestOK
  <1> QED BY <1>2, <1>6, <1>11

LEMMA RespondAloneStep ==
  ASSUME ValidOK, DetectOK, RequestOK, NEW i \in Results, RespondAlone(i)
  PROVE  ValidOK' /\ DetectOK' /\ RequestOK'
  <1>1. /\ job[i].pc = "validated" /\ \A w \in Workers : worker[w] # i
        /\ job' = [job EXCEPT ![i].pc = "answered"]
        /\ UNCHANGED <<setup, stor, removed, changes, lane, batch, cache, call, earlyVars>>
    BY DEF RespondAlone, detectionVars, storeVars
  <1>2. DetectOK'
    BY <1>1, DetectFrame
  <1>3. job \in [Results -> JobRec] /\ lane \in Seq(Nat \ {0})
    BY ValidTypes
  <1>4. ValidOK'
    BY <1>1, <1>3, AnswerMove
  <1>5. job'[i].pc = "answered" /\ \A j \in Results \ {i} : job'[j] = job[j]
    BY <1>1, <1>3 DEF JobRec
  <1>6. setup.early => lane' = <<>>
    BY <1>1 DEF RequestOK, RequestInv
  <1>7. RequestOK'
    BY <1>1, <1>5, <1>6, OneMoves
  <1> QED BY <1>2, <1>4, <1>7

LEMMA StopSteps ==
  ASSUME ValidOK, DetectOK, RequestOK,
         \/ \E w \in Workers : WorkerReturn(w)
         \/ Shutdown
         \/ ShutdownReturn
  PROVE  ValidOK' /\ DetectOK' /\ RequestOK'
  <1>1. UNCHANGED <<validatorVars, cache, call, validationQueue>>
    BY DEF WorkerReturn, Shutdown, ShutdownReturn, detectionVars
  <1>2. UNCHANGED <<setup, stor, removed, changes, job, lane, batch, cache, call>>
    BY <1>1 DEF validatorVars
  <1>3. DetectOK'
    BY <1>2, DetectFrame
  <1>5. ValidOK'
    BY <1>2, ValidTypes, ValidFrame
  <1>6. Results' = Results /\ Workers' = Workers /\ Capacity' = Capacity
    BY <1>2 DEF Results, Workers, Capacity
  <1>7. ASSUME NEW w \in Workers, WorkerReturn(w)
        PROVE  RequestOK'
    <2>1. worker[w] = 0 /\ worker' = [worker EXCEPT ![w] = -1] /\ shutdown' = shutdown
      BY <1>7 DEF WorkerReturn
    <2>2. worker \in [Workers -> Results \cup {0, -1}] /\ -1 \notin Results
      BY ResultFacts DEF RequestOK
    <2>3. /\ worker'[w] = -1 /\ \A v \in Workers \ {w} : worker'[v] = worker[v]
          /\ worker' \in [Workers -> Results \cup {0, -1}]
      BY <2>1, <2>2
    <2>4. \A v \in Workers : worker'[v] \in Results => v # w /\ worker'[v] = worker[v]
      BY <2>2, <2>3
    <2>5. ASSUME NEW v \in Workers, worker'[v] \in Results
          PROVE  /\ job'[worker'[v]].pc \in Validating
                 /\ \A u \in Workers : worker'[u] = worker'[v] => u = v
      BY <1>2, <2>2, <2>3, <2>4, <2>5 DEF RequestOK, RequestInv
    <2>6. /\ shutdown = "returned" => \A v \in Workers : worker'[v] = -1
          /\ ~ setup.early => validationQueue = <<>> /\ \A v \in Workers : worker'[v] \notin Results
      BY <2>2, <2>3 DEF RequestOK, RequestInv
    <2>7. RequestInv'
      BY <1>1, <1>2, <1>6, <2>1, <2>5, <2>6 DEF RequestOK, RequestInv
    <2> QED BY <1>1, <1>2, <1>6, <2>1, <2>3, <2>7 DEF RequestOK
  <1>8. ASSUME Shutdown \/ ShutdownReturn
        PROVE  RequestOK'
    <2>1. /\ worker' = worker /\ shutdown' \in {"no", "closed", "returned"}
          /\ shutdown' = "returned" => \A w \in Workers : worker[w] = -1
      BY <1>8 DEF Shutdown, ShutdownReturn
    <2>2. RequestInv'
      BY <1>1, <1>2, <1>6, <2>1 DEF RequestOK, RequestInv
    <2> QED BY <1>1, <1>2, <1>6, <2>1, <2>2 DEF RequestOK
  <1> QED BY <1>3, <1>5, <1>7, <1>8


--------------------------------------------------------------------------------
(* The inductive invariant *)

LEMMA InitHolds ==
  ASSUME Init
  PROVE  ValidOK /\ DetectOK /\ RequestOK
  <1>1. /\ setup \in Setups /\ stor = [k \in Keys |-> <<>>] /\ changes = 0
        /\ removed = [k \in Keys |-> {}]
        /\ job = [i \in Results |-> NewJob] /\ lane = <<>> /\ batch = "none"
        /\ cache = <<>>
        /\ call = [c \in Calls |-> [pc |-> "none", todo |-> <<>>, found |-> <<>>]]
        /\ validationQueue = <<>> /\ worker = [w \in Workers |-> 0] /\ shutdown = "no"
    BY DEF Init, ValidatorInit, DetectionInit, Workers
  <1>2. ValidatorTypeOK
    <2>1. stor \in [Keys -> Seq([status: {"found", "estimate"}, tx: Txs, inc: Nat])]
      BY <1>1
    <2>2. changes \in 0 .. MaxChanges
      BY <1>1, SetupFacts DEF MaxChanges
    <2>3. NewJob \in JobRec
      <3>1. [k \in Keys |-> NotFound] \in [Keys -> ReadResults]
        BY DEF NotFound, ReadResults
      <3>2. <<>> \in Seq(ReadResults) /\ 1 \in Nat \ {0}
        OBVIOUS
      <3> QED BY <3>1, <3>2 DEF NewJob, JobRec
    <2>4. job \in [Results -> JobRec]
      BY <1>1, <2>3
    <2>5. removed \in [Keys -> SUBSET Nat] /\ \A k \in Keys : removed[k] \subseteq DOMAIN stor[k]
      BY <1>1
    <2> QED BY <1>1, <2>1, <2>2, <2>4, <2>5 DEF ValidatorTypeOK, JobRec
  <1>3. StoreInv
    BY <1>1 DEF StoreInv
  <1>4. ASSUME NEW i \in Results
        PROVE  JobInv(i)
    <2>1. job[i] = NewJob
      BY <1>1
    <2>2. /\ job[i].pc = "execute" /\ job[i].seen = <<>> /\ job[i].next = 1
          /\ job[i].valid = FALSE
      BY <2>1 DEF NewJob
    <2>3. Len(ReadKeys(i)) \in Nat
      <3>1. ReadKeys(i) \in Seq(Keys)
        BY <1>1, ResultFacts
      <3> QED BY <3>1
    <2> QED BY <2>2, <2>3 DEF JobInv
  <1>6. DetectOK
    <2>1. DOMAIN cache = {} /\ IsFiniteSet({}) /\ Cardinality({}) = 0
      BY <1>1, FS_EmptySet
    <2>2. \A c \in Calls : /\ call[c].pc = "none" /\ call[c].found = <<>>
                           /\ call[c].todo = <<>>
      BY <1>1
    <2>3. call \in [Calls -> [pc: {"none", "ask", "store", "returned"},
                              todo: Seq(Pairs), found: Seq(Pairs)]]
      BY <1>1
    <2>4. DetectionTypeOK
      BY <2>1, <2>3, MaxCacheSizeAssumption DEF DetectionTypeOK
    <2>5. DetectionInv
      BY <2>1, <2>2 DEF DetectionInv
    <2> QED BY <1>1, <2>4, <2>5 DEF DetectOK
  <1>7. RequestOK
    <2>1. 0 <= Capacity
      BY <1>1, SetupFacts, RequestsPerWorkerAssumption DEF Capacity
    <2>2. \A w \in Workers : worker[w] = 0 /\ worker[w] \notin Results
      BY <1>1, ResultFacts
    <2>3. RequestInv
      <3>1. \A i \in Results : job[i].pc # "queued"
        BY <1>1 DEF NewJob
      <3> QED BY <1>1, <2>2, <3>1, EmptyFacts DEF RequestInv
    <2> QED BY <1>1, <2>1, <2>3 DEF RequestOK
  <1> QED BY <1>1, <1>2, <1>3, <1>4, <1>6, <1>7 DEF ValidOK, ValidatorInv

LEMMA StepHolds ==
  ASSUME IInv, [Next]_vars
  PROVE  ValidOK' /\ DetectOK' /\ RequestOK'
  <1>1. ValidOK /\ DetectOK /\ RequestOK
    BY Parts
  <1>2. CASE ValidatorNext /\ UNCHANGED <<detectionVars, earlyVars>>
    <2>1. UNCHANGED <<setup, cache, call>>
      BY <1>2 DEF detectionVars, ValidatorNext, StoreWrite, StoreCommit, StoreRemove, Execute,
                  ValidateStep, Validate, CheckRead, ValidateFull, CheckWrite, Succeed,
                  ValidateBatch, BatchStep, BatchTake, BatchSend, BatchReturn
    <2> QED BY <1>1, <1>2, <2>1, ValidatorSteps, ValidatorKeepsRequests, DetectFrame
  <1>3. CASE (\E c \in Calls : DetectionStep(c)) /\ UNCHANGED earlyVars
    BY <1>1, <1>3, DetectionSteps, DetectionKeepsRest
  <1>4. CASE \E i \in Results : ValidateAsync(i) \/ RespondAlone(i)
    BY <1>1, <1>4, ValidateAsyncStep, RespondAloneStep
  <1>5. CASE \E w \in Workers : WorkerLoop(w)
    BY <1>1, <1>5, TakeRequestStep, RespondStep, StopSteps DEF WorkerLoop
  <1>6. CASE Shutdown \/ ShutdownReturn
    BY <1>1, <1>6, StopSteps
  <1>7. CASE UNCHANGED vars
    <2>1. UNCHANGED <<setup, stor, removed, changes, job, lane, batch, cache, call, earlyVars>>
      BY <1>7 DEF vars, validatorVars, detectionVars
    <2>2. lane \in Seq(Nat \ {0}) /\ batch \in {"none", "running", "returned"}
      BY <1>1, ValidTypes
    <2>3. /\ setup.early => lane' = <<>>
          /\ \A w \in Workers : worker[w] \in Results => job'[worker[w]].pc \in Validating
      BY <1>1, <2>1 DEF RequestOK, RequestInv
    <2> QED BY <1>1, <2>1, <2>2, <2>3, ValidFrame, DetectFrame, RequestsStay
  <1> QED BY <1>2, <1>3, <1>4, <1>5, <1>6, <1>7 DEF Next

\* The parts of the validators agree in every reachable state: the store with what was
\* read of it, the cache and the conflicts found with the questions left, and the workers
\* with the channel.
THEOREM Consistency == Spec => []IInv
  <1>1. Init => IInv
    BY InitHolds, Parts
  <1>2. IInv /\ [Next]_vars => IInv'
    <2> SUFFICES ASSUME IInv, [Next]_vars
                 PROVE  IInv'
      OBVIOUS
    <2>1. ValidOK' /\ DetectOK' /\ RequestOK'
      BY StepHolds
    <2>2. (ValidOK /\ DetectOK /\ RequestOK => IInv)'
      BY Parts, PTL
    <2> QED BY <2>1, <2>2
  <1> QED BY <1>1, <1>2, PTL DEF Spec

--------------------------------------------------------------------------------
(* What it means *)

\* The variables have their types, the channel and the cache never more than their room.
THEOREM TypeCorrectness == Spec => []TypeOK
  <1>1. IInv => TypeOK
    BY DEF IInv
  <1> QED BY <1>1, Consistency, PTL

\* Whatever is written, committed and collected while the reads of a result are compared
\* one by one, an accepted result read what the store held when its validation began,
\* apart from what FromSnapshot excepts.
THEOREM AcceptedIsSnapshot == Spec => []ValidIsSnapshot
  <1>1. IInv => ValidIsSnapshot
    <2> SUFFICES ASSUME IInv, NEW i \in Results, job[i].valid, NEW n \in DOMAIN ReadKeys(i)
                 PROVE  FromSnapshot(i, n)
      BY DEF ValidIsSnapshot
    <2>1. JobInv(i)
      BY DEF IInv, ValidatorInv
    <2>2. job[i].pc \in Answerable
      BY <2>1 DEF JobInv
    <2>3. job[i].pc # "reads"
      BY <2>2 DEF Answerable
    <2> QED BY <2>1, <2>3 DEF JobInv
  <1> QED BY <1>1, Consistency, PTL

\* However many calls share the cache, whatever it evicts and between which look-up and
\* which update, each reports the conflicts of its tasks, all of them and no other.
THEOREM ConflictsAreExact == Spec => []ConflictsExact
  <1>1. IInv => ConflictsExact
    <2> SUFFICES ASSUME IInv, NEW c \in Calls, call[c].pc = "returned",
                        NEW k \in {l \in Keys : ~ Repeated(l)}
                 PROVE  About(call[c].found, k) = Conflicts(setup.calls[c], k)
      BY DEF ConflictsExact
    <2>1. /\ call[c].todo = <<>>
          /\ About(call[c].found, k) \cup About(call[c].todo, k) = Conflicts(setup.calls[c], k)
      BY DEF IInv, DetectionInv
    <2>2. About(<<>>, k) = {}
      BY EmptyFacts DEF About
    <2> QED BY <2>1, <2>2
  <1> QED BY <1>1, Consistency, PTL

\* Nothing waits in the channel twice, nothing is validated by two workers, and when
\* Shutdown returns the workers hold nothing.
THEOREM ShutdownIsClean == Spec => []ShutdownLeavesNoneHalfway
  <1>1. IInv => ShutdownLeavesNoneHalfway
    <2> SUFFICES ASSUME IInv, NEW i \in Results
                 PROVE  LET queued == {n \in DOMAIN validationQueue : validationQueue[n] = i}
                            holders == {w \in Workers : worker[w] = i}
                        IN  /\ Cardinality(queued) = (IF job[i].pc = "queued" THEN 1 ELSE 0)
                            /\ Cardinality(holders) <=
                                 (IF job[i].pc \in Validating THEN 1 ELSE 0)
                            /\ shutdown = "returned" => holders = {}
      BY DEF ShutdownLeavesNoneHalfway
    <2> DEFINE queued == {n \in DOMAIN validationQueue : validationQueue[n] = i}
               holders == {w \in Workers : worker[w] = i}
    <2>1. RequestInv /\ setup \in Setups
      BY DEF IInv
    <2>2. Cardinality(queued) = (IF job[i].pc = "queued" THEN 1 ELSE 0)
      <3>1. CASE job[i].pc = "queued"
        <4>1. PICK n \in DOMAIN validationQueue : validationQueue[n] = i
          BY <2>1, <3>1 DEF RequestInv, ToSet
        <4>2. queued = {n}
          BY <2>1, <4>1 DEF RequestInv, IsInjective
        <4> QED BY <3>1, <4>2, FS_Singleton
      <3>2. CASE job[i].pc # "queued"
        <4>1. queued = {}
          BY <2>1, <3>2 DEF RequestInv, ToSet
        <4> QED BY <3>2, <4>1, FS_EmptySet
      <3> QED BY <3>1, <3>2
    <2>3. Cardinality(holders) <= (IF job[i].pc \in Validating THEN 1 ELSE 0)
      <3>1. CASE holders = {}
        BY <3>1, FS_EmptySet
      <3>2. CASE holders # {}
        <4>1. PICK w \in Workers : worker[w] = i
          BY <3>2
        <4>2. job[i].pc \in Validating /\ holders = {w}
          BY <2>1, <4>1 DEF RequestInv
        <4> HIDE DEF holders
        <4>3. Cardinality(holders) = 1
          BY <4>2, FS_Singleton
        <4> QED BY <4>2, <4>3
      <3> QED BY <3>1, <3>2
    <2>4. shutdown = "returned" => holders = {}
      BY <2>1, ResultFacts DEF RequestInv
    <2> QED BY <2>2, <2>3, <2>4
  <1> QED BY <1>1, Consistency, PTL

================================================================================
