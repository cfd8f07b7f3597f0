---------------------------- MODULE MCEarlyValidator ----------------------------
(* Instances of EarlyValidator for TLC. *)
EXTENDS EarlyValidator

CONSTANTS k1, k2

Access(t, reads, writes) == [task |-> t, reads |-> reads, writes |-> writes]

Early(results, n, fast, max) ==
  [results |-> results, calls |-> <<>>, concurrent |-> n, fastPath |-> fast,
   batching |-> TRUE, early |-> TRUE, maxChanges |-> max]

Batch(results, n, batching, max) ==
  [results |-> results, calls |-> <<>>, concurrent |-> n, fastPath |-> TRUE,
   batching |-> batching, early |-> FALSE, maxChanges |-> max]

Detection(calls) ==
  [results |-> <<>>, calls |-> calls, concurrent |-> 0, fastPath |-> FALSE,
   batching |-> FALSE, early |-> FALSE, maxChanges |-> 0]

Both == Access(2, <<k1, k2>>, <<k1>>)
Small == Access(2, <<k1>>, <<>>)

\* Two calls of DetectConflicts, with three and with two tasks that conflict on both
\* keys; the writes of task 4 are given.
First == <<Access(1, <<>>, <<k1>>), Access(2, <<k1>>, <<k2>>),
           Access(3, <<k1, k2>>, <<k1, k2>>)>>
Second(writes) == <<Access(4, <<k1>>, writes), Access(5, <<k2>>, <<k1, k2>>)>>

\* Batches for the caller alone: one result with one and with two reads while the store
\* changes a lot, and two results; for the default number of workers and for two.  Three
\* requests for a worker and a channel with room for one; two for two workers, or for
\* none.  Two calls of DetectConflicts at a time, with and without a task that writes a
\* key twice.
Configurations ==
  {Batch(<<Small>>, 1, FALSE, 4), Batch(<<Both>>, 1, FALSE, 3),
   Batch(<<Small, Both>>, 1, FALSE, 1),
   Batch(<<Small, Small, Both>>, 0, TRUE, 1), Batch(<<Small, Small, Both>>, 2, TRUE, 1),
   Early(<<Small, Small, Small>>, 1, TRUE, 0), Early(<<Small, Both>>, 2, FALSE, 1),
   Early(<<Small, Small>>, 0, TRUE, 1)}
  \cup {Detection(<<First, Second(writes)>>) : writes \in {<<k1, k2>>, <<k1, k1>>}}

================================================================================
