--------------------------- MODULE ConflictDetection ---------------------------
(***************************************************************************)
(* validation/validator.go, DetectConflicts with the ConflictCache.  Each  *)
(* question, do these two tasks conflict on this key, is answered from the *)
(* cache or computed and then cached; the cache is shared by all calls and *)
(* locked for the look-up and for the update but not in between.           *)
(***************************************************************************)
EXTENDS FastValidator

CONSTANT MaxCacheSize   \* ConflictCacheSize

ASSUME MaxCacheSizeAssumption == MaxCacheSize \in Nat \ {0}
ASSUME CallsAssumption ==
  \A s \in Setups : s.calls \in Seq(Seq([task: Nat, reads: Seq(Keys), writes: Seq(Keys)]))

VARIABLES
  cache,   \* the keys with a cached answer, and the answers
  call     \* call of DetectConflicts -> pc, questions left, conflicts found

detectionVars == <<cache, call>>

Calls == DOMAIN setup.calls

DetectionInit ==
  /\ cache = <<>>
  /\ call = [c \in Calls |-> [pc |-> "none", todo |-> <<>>, found |-> <<>>]]

\* readMap and writeMap: the tasks that access k, once for each time they list it.
Accesses(results, field, k) ==
  FlattenSeq([n \in DOMAIN results |->
    [m \in 1 .. Cardinality({a \in DOMAIN results[n][field] : results[n][field][a] = k}) |->
       results[n].task]])

Readers(results, k) == Accesses(results, "reads", k)
Writers(results, k) == Accesses(results, "writes", k)

Question(type, k, t, u) == [task1 |-> t, task2 |-> u, key |-> k, type |-> type]

\* Mutant: a task that writes what it reads is asked about as well.
ReadWritePairsUnfiltered(results, k) ==
  LET readers == Readers(results, k)
      writers == Writers(results, k)
  IN  FlattenSeq([w \in DOMAIN writers |->
        [r \in DOMAIN readers |-> Question("readWrite", k, writers[w], readers[r])]])

ReadWritePairs(results, k) ==
  LET readers == Readers(results, k)
      writers == Writers(results, k)
  IN  FlattenSeq([w \in DOMAIN writers |->
        FlattenSeq([r \in DOMAIN readers |->
          IF readers[r] = writers[w] THEN <<>>
          ELSE <<Question("readWrite", k, writers[w], readers[r])>>])])

WriteWritePairs(results, k) ==
  LET writers == Writers(results, k)
  IN  FlattenSeq([w \in DOMAIN writers |->
        [n \in 1 .. Len(writers) - w |->
          Question("writeWrite", k, writers[w], writers[w + n])]])

\* The questions of a call: both passes range over a map, in any order of its keys.
Questions(results) ==
  {FlattenSeq([n \in DOMAIN o |-> ReadWritePairs(results, o[n])])
     \o FlattenSeq([n \in DOMAIN p |-> WriteWritePairs(results, p[n])]) :
   o, p \in SetToSeqs({k \in Keys : Writers(results, k) # <<>>})}

DetectConflicts(c) ==
  /\ call[c].pc = "none"
  /\ \E todo \in Questions(setup.calls[c]) :
       call' = [call EXCEPT ![c].pc = "ask", ![c].todo = todo]
  /\ UNCHANGED <<validatorVars, cache>>

Answered(c, conflict) ==
  [call EXCEPT ![c].pc = "ask", ![c].todo = Tail(@),
               ![c].found = IF conflict THEN Append(@, Head(call[c].todo)) ELSE @]

\* hasConflict: Key1 and Key2 are the same and Op1 and Op2 fixed, so that the key is
\* all the cache knows of a question.
CacheHit(c) ==
  /\ call[c].pc = "ask"
  /\ call[c].todo # <<>>
  /\ Head(call[c].todo).key \in DOMAIN cache
  /\ call' = Answered(c, cache[Head(call[c].todo).key])
  /\ UNCHANGED <<validatorVars, cache>>

CacheMiss(c) ==
  /\ call[c].pc = "ask"
  /\ call[c].todo # <<>>
  /\ Head(call[c].todo).key \notin DOMAIN cache
  /\ call' = [call EXCEPT ![c].pc = "store"]
  /\ UNCHANGED <<validatorVars, cache>>

\* Mutant: the cache may grow past its size.
EvictedLate(entries) == Cardinality(entries) > MaxCacheSize

Full(entries) == Cardinality(entries) >= MaxCacheSize

\* A full cache loses some entry first, even if the key has an entry by now.
CacheStore(c) ==
  /\ call[c].pc = "store"
  /\ LET asked == Head(call[c].todo)
         conflict == asked.task1 # asked.task2
     IN  /\ \E gone \in IF Full(DOMAIN cache) THEN DOMAIN cache ELSE {asked.key} :
              cache' = [k \in (DOMAIN cache \ {gone}) \cup {asked.key} |->
                          IF k = asked.key THEN conflict ELSE cache[k]]
         /\ call' = Answered(c, conflict)
  /\ UNCHANGED validatorVars

DetectionReturn(c) ==
  /\ call[c].pc = "ask"
  /\ call[c].todo = <<>>
  /\ call' = [call EXCEPT ![c].pc = "returned"]
  /\ UNCHANGED <<validatorVars, cache>>

DetectionStep(c) ==
  \/ DetectConflicts(c)
  \/ CacheHit(c)
  \/ CacheMiss(c)
  \/ CacheStore(c)
  \/ DetectionReturn(c)

--------------------------------------------------------------------------------
(* Properties *)

Pairs == [task1: Nat, task2: Nat, key: Keys, type: {"readWrite", "writeWrite"}]

DetectionTypeOK ==
  /\ DOMAIN cache \subseteq Keys /\ Cardinality(DOMAIN cache) <= MaxCacheSize
  /\ \A k \in DOMAIN cache : cache[k] \in BOOLEAN
  /\ call \in [Calls -> [pc: {"none", "ask", "store", "returned"},
                         todo: Seq(Pairs), found: Seq(Pairs)]]

\* Some task of a call that has begun writes k more than once.
Repeated(k) ==
  \E c \in Calls : /\ call[c].pc # "none"
                   /\ ~ IsInjective(Writers(setup.calls[c], k))

\* The pairs of different tasks one of which writes k, which the other reads or writes.
Conflicts(results, k) ==
  LET accessing(field) == {n \in DOMAIN results : Contains(results[n][field], k)}
      pair(type, m, n) == Question(type, k, results[m].task, results[n].task)
  IN  {pair("readWrite", mn[1], mn[2]) :
         mn \in {mn \in accessing("writes") \X accessing("reads") :
                   results[mn[1]].task # results[mn[2]].task}}
      \cup {pair("writeWrite", mn[1], mn[2]) :
              mn \in {mn \in accessing("writes") \X accessing("writes") : mn[1] < mn[2]}}

About(pairs, k) == {p \in ToSet(pairs) : p.key = k}

\* A call reports exactly the conflicts of its tasks, although the answers come from a
\* cache that is shared with other calls, evicts entries at any time and knows a
\* question by its key alone.  The keys some task wrote twice are the exception: asked
\* about the task and itself, the cache keeps a "no" that later answers for other
\* tasks, in other calls too.
ConflictsExact ==
  \A c \in Calls : call[c].pc = "returned" =>
    \A k \in {l \in Keys : ~ Repeated(l)} :
      About(call[c].found, k) = Conflicts(setup.calls[c], k)

--------------------------------------------------------------------------------
(* The inductive invariant *)

\* Of a key that no task writes twice, every conflict is found or still to be asked for,
\* and the cache knows it as one.
DetectionInv ==
  /\ IsFiniteSet(DOMAIN cache)
  /\ \A k \in DOMAIN cache : ~ Repeated(k) => cache[k]
  /\ \A c \in Calls :
       /\ call[c].pc = "none" => call[c].found = <<>>
       /\ call[c].pc = "store" => call[c].todo # <<>>
       /\ call[c].pc = "returned" => call[c].todo = <<>>
       /\ call[c].pc # "none" => \A k \in {l \in Keys : ~ Repeated(l)} :
            About(call[c].found, k) \cup About(call[c].todo, k) = Conflicts(setup.calls[c], k)

================================================================================
