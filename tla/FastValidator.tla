----------------------------- MODULE FastValidator -----------------------------
(***************************************************************************)
(* validation/validator.go, FastValidator: Validate and ValidateBatch.  A  *)
(* result of an execution is validated by one goroutine; it reads the keys *)
(* of the result again, one by one, while other transactions write and     *)
(* commit and garbage collection removes versions.                         *)
(*                                                                         *)
(* The store is the one of VersionStore, which LockFreeStorage implements, *)
(* but a Read is one step here: it returns the last version of a lower     *)
(* transaction.  The metrics, times and throughput are left out, and so    *)
(* are the pooled contexts: Validate sets all their fields but             *)
(* Dependencies, which nobody sets, so that the check of dependencies has  *)
(* nothing to check.                                                       *)
(***************************************************************************)
EXTENDS Integers, FiniteSets, SequencesExt

CONSTANTS
  Keys,
  Txs,             \* the transactions that write while results are validated
  NilTxs,          \* those whose versions are read without a value: they wrote nil, or
                   \* the executor leaves out the value, which is optional
  MaxFastReads,    \* the limits of the fast path: 10 and 5
  MaxFastWrites,
  DefaultWorkers,  \* DefaultConcurrentValidations
  Setups           \* the configurations, with what is validated

ASSUME TxsAssumption == Txs \subseteq Nat /\ NilTxs \subseteq Txs
ASSUME LimitsAssumption ==
  MaxFastReads \in Nat /\ MaxFastWrites \in Nat /\ DefaultWorkers \in Nat \ {0}
ASSUME SetupsAssumption ==
  \A s \in Setups :
    /\ s.results \in Seq([task: Nat, reads: Seq(Keys), writes: Seq(Keys)])
    /\ s.maxChanges \in Nat /\ s.concurrent \in Nat
    /\ s.fastPath \in BOOLEAN /\ s.batching \in BOOLEAN /\ s.early \in BOOLEAN

VARIABLES
  setup,    \* the configuration and the results, which never change
  stor,     \* key -> the versions written, in their order
  removed,  \* key -> the places of those that garbage collection has removed
  changes,  \* number of writes, commits and removals
  job,      \* result -> its execution and its validation
  lane,     \* worker of ValidateBatch -> the next result it validates
  batch     \* the call of ValidateBatch: "none", "running" or "returned"

validatorVars == <<setup, stor, removed, changes, job, lane, batch>>
storeVars == <<stor, removed, changes>>

Results == DOMAIN setup.results
Task(i) == setup.results[i].task
ReadKeys(i) == setup.results[i].reads
WriteKeys(i) == setup.results[i].writes
MaxChanges == setup.maxChanges   \* bound on the writes, commits and removals

NotFound == [status |-> "notFound", tx |-> 0, inc |-> 0]

\* seen is what the execution read, start what the store held for the task when its
\* validation began, for the properties.
NewJob == [pc |-> "execute", seen |-> <<>>, start |-> [k \in Keys |-> NotFound],
           next |-> 1, valid |-> FALSE]

ValidatorInit ==
  /\ setup \in Setups
  /\ stor = [k \in Keys |-> <<>>]
  /\ removed = [k \in Keys |-> {}]
  /\ changes = 0
  /\ job = [i \in Results |-> NewJob]
  /\ lane = <<>>
  /\ batch = "none"

--------------------------------------------------------------------------------
(* The store and the executions *)

Read(k, at) ==
  LET older == {n \in DOMAIN stor[k] \ removed[k] : stor[k][n].tx < at}
  IN  IF older = {} THEN NotFound ELSE stor[k][Max(older)]

\* The versions transaction t wrote for k: one for each of its incarnations.
Versions(k, t) == {n \in DOMAIN stor[k] : stor[k][n].tx = t}

Uncommitted(k, t) == \A n \in Versions(k, t) : stor[k][n].status = "estimate"

StoreWrite(k, t) ==
  /\ changes < MaxChanges
  /\ Uncommitted(k, t)
  /\ stor' = [stor EXCEPT ![k] =
       Append(@, [status |-> "estimate", tx |-> t, inc |-> Cardinality(Versions(k, t))])]
  /\ changes' = changes + 1
  /\ UNCHANGED <<setup, removed, job, lane, batch>>

\* A version that is no longer in the store is not found and not marked.
StoreCommit(k, t) ==
  /\ changes < MaxChanges
  /\ Versions(k, t) \ removed[k] # {}
  /\ Uncommitted(k, t)
  /\ LET last == Max(Versions(k, t))
     IN  /\ last \notin removed[k]
         /\ stor' = [stor EXCEPT ![k][last].status = "found"]
  /\ changes' = changes + 1
  /\ UNCHANGED <<setup, removed, job, lane, batch>>

\* GC takes away the versions below some transaction, one after the other, a committed
\* one only if it keeps a later one.
StoreRemove(k, n) ==
  /\ changes < MaxChanges
  /\ n \in DOMAIN stor[k] \ removed[k]
  /\ stor[k][n].status = "found" =>
       \E m \in DOMAIN stor[k] \ removed[k] :
         n < m /\ (stor[k][m].status = "found" \/ stor[k][m].tx > stor[k][n].tx)
  /\ removed' = [removed EXCEPT ![k] = @ \cup {n}]
  /\ changes' = changes + 1
  /\ UNCHANGED <<setup, stor, job, lane, batch>>

\* The execution reads its next key; after the last it has a result.
Execute(i) ==
  /\ job[i].pc = "execute"
  /\ LET n == Len(job[i].seen) + 1
     IN  job' = IF n > Len(ReadKeys(i))
                THEN [job EXCEPT ![i].pc = "executed"]
                ELSE [job EXCEPT ![i].seen = Append(@, Read(ReadKeys(i)[n], Task(i)))]
  /\ UNCHANGED <<setup, storeVars, lane, batch>>

--------------------------------------------------------------------------------
(* Validate *)

CanUseFastPath(i) ==
  /\ setup.fastPath
  /\ Len(ReadKeys(i)) <= MaxFastReads
  /\ Len(WriteKeys(i)) <= MaxFastWrites

\* Version.Compare, where it is zero.
SameVersion(v, w) == v.tx = w.tx /\ v.inc = w.inc

NilValue(read) == read.status = "notFound" \/ read.tx \in NilTxs

\* Versions are compared whatever the status of the original; a read that found nothing
\* has the zero version, and no value.
IsReadStillValid(original, current) ==
  \/ current.status = "found" /\ SameVersion(original, current)
  \/ current.status = "notFound" /\ NilValue(original)
  \/ current.status = "estimate" /\ current.tx = original.tx

IsWriteValid(i, k) ==
  LET current == Read(k, Task(i))
  IN  current.status = "notFound" \/ current.tx < Task(i)

Validate(i) ==
  /\ job[i].pc = "called"
  /\ job' = [job EXCEPT ![i].pc = "reads", ![i].start = [k \in Keys |-> Read(k, Task(i))]]
  /\ UNCHANGED <<setup, storeVars, lane, batch>>

\* Mutant: the last read is not checked.
AllReadsCheckedEarly(i) == job[i].pc = "reads" /\ job[i].next >= Len(ReadKeys(i))

AllReadsChecked(i) == job[i].pc = "reads" /\ job[i].next > Len(ReadKeys(i))

CheckRead(i) ==
  /\ job[i].pc = "reads"
  /\ ~ AllReadsChecked(i)
  /\ LET n == job[i].next
     IN  job' = IF IsReadStillValid(job[i].seen[n], Read(ReadKeys(i)[n], Task(i)))
                THEN [job EXCEPT ![i].next = @ + 1]
                ELSE [job EXCEPT ![i].pc = "validated"]
  /\ UNCHANGED <<setup, storeVars, lane, batch>>

ValidateFull(i) ==
  /\ AllReadsChecked(i)
  /\ ~ CanUseFastPath(i)
  /\ job' = [job EXCEPT ![i].pc = "writes", ![i].next = 1]
  /\ UNCHANGED <<setup, storeVars, lane, batch>>

CheckWrite(i) ==
  /\ job[i].pc = "writes"
  /\ job[i].next <= Len(WriteKeys(i))
  /\ job' = IF IsWriteValid(i, WriteKeys(i)[job[i].next])
            THEN [job EXCEPT ![i].next = @ + 1]
            ELSE [job EXCEPT ![i].pc = "validated"]
  /\ UNCHANGED <<setup, storeVars, lane, batch>>

Succeed(i) ==
  /\ \/ AllReadsChecked(i) /\ CanUseFastPath(i)
     \/ job[i].pc = "writes" /\ job[i].next > Len(WriteKeys(i))
  /\ job' = [job EXCEPT ![i].pc = "validated", ![i].valid = TRUE]
  /\ UNCHANGED <<setup, storeVars, lane, batch>>

ValidateStep(i) ==
  \/ Validate(i)
  \/ CheckRead(i)
  \/ ValidateFull(i)
  \/ CheckWrite(i)
  \/ Succeed(i)

--------------------------------------------------------------------------------
(* ValidateBatch *)

\* Without batch validation the caller validates the results one after the other.
NumWorkers ==
  IF setup.batching
  THEN Min({Len(setup.results),
            IF setup.concurrent = 0 THEN DefaultWorkers ELSE setup.concurrent})
  ELSE 1

ValidateBatch ==
  /\ ~ setup.early
  /\ batch = "none"
  /\ \A i \in Results : job[i].pc = "executed"
  /\ batch' = "running"
  /\ lane' = [w \in 1 .. NumWorkers |-> w]
  /\ UNCHANGED <<setup, storeVars, job>>

BatchTake(w) ==
  /\ lane[w] \in Results
  /\ job[lane[w]].pc = "executed"
  /\ job' = [job EXCEPT ![lane[w]].pc = "called"]
  /\ UNCHANGED <<setup, storeVars, lane, batch>>

\* The channel has room for every result of the batch.
BatchSend(w) ==
  /\ lane[w] \in Results
  /\ job[lane[w]].pc = "validated"
  /\ job' = [job EXCEPT ![lane[w]].pc = "answered"]
  /\ lane' = [lane EXCEPT ![w] = @ + Len(lane)]
  /\ UNCHANGED <<setup, storeVars, batch>>

\* The channel is closed when all workers are done.
BatchReturn ==
  /\ batch = "running"
  /\ \A w \in DOMAIN lane : lane[w] \notin Results
  /\ batch' = "returned"
  /\ UNCHANGED <<setup, storeVars, job, lane>>

BatchStep ==
  \/ \E w \in DOMAIN lane : BatchTake(w) \/ BatchSend(w)
  \/ BatchReturn

ValidatorNext ==
  \/ \E k \in Keys, t \in Txs : StoreWrite(k, t) \/ StoreCommit(k, t)
  \/ \E k \in Keys : \E n \in DOMAIN stor[k] : StoreRemove(k, n)
  \/ \E i \in Results : Execute(i) \/ ValidateStep(i)
  \/ ValidateBatch
  \/ BatchStep

--------------------------------------------------------------------------------
(* Properties *)

ReadResults == [status: {"found", "estimate", "notFound"}, tx: Nat, inc: Nat]

ValidatorTypeOK ==
  /\ stor \in [Keys -> Seq([status: {"found", "estimate"}, tx: Txs, inc: Nat])]
  /\ removed \in [Keys -> SUBSET Nat] /\ \A k \in Keys : removed[k] \subseteq DOMAIN stor[k]
  /\ changes \in 0 .. MaxChanges
  /\ job \in [Results -> [pc: {"execute", "executed", "queued", "called", "reads", "writes",
                               "validated", "answered"},
                          seen: Seq(ReadResults), start: [Keys -> ReadResults],
                          next: Nat \ {0}, valid: BOOLEAN]]
  /\ lane \in Seq(Nat \ {0})
  /\ batch \in {"none", "running", "returned"}

\* GC has taken away what was read, which was not nothing.
Collected(k, read) ==
  read.status # "notFound" /\ \E n \in removed[k] : SameVersion(read, stor[k][n])

\* The n-th read of result i was the current one when the validation began.  The
\* comparison lets pass exactly three things besides: a read that found nothing, when
\* transaction 0 has written the key, since its version 0 is the zero version; a read of
\* a transaction that has written the key again, since only the transaction of an
\* estimate is compared; and what GC makes look as it was, by taking away the version
\* that was current when the validation began, or one that was read without a value,
\* which then passes for a read of nothing.
FromSnapshot(i, n) ==
  LET k == ReadKeys(i)[n]
      original == job[i].seen[n]
      start == job[i].start[k]
  IN  \/ SameVersion(original, start)
           /\ (start.status = "notFound" <=> original.status = "notFound")
      \/ original.status = "notFound" /\ Versions(k, 0) # {}
      \/ original.status # "notFound" /\ Cardinality(Versions(k, original.tx)) > 1
      \/ Collected(k, start)
      \/ Collected(k, original) /\ NilValue(original)

\* An accepted result is one of a snapshot: all its reads were the current ones at the
\* moment its validation began, though they are compared one by one while the store
\* changes - apart from what FromSnapshot excepts.
ValidIsSnapshot ==
  \A i \in Results : job[i].valid => \A n \in DOMAIN ReadKeys(i) : FromSnapshot(i, n)

--------------------------------------------------------------------------------
(* The inductive invariant *)

\* A transaction numbers its versions of a key as it writes them.
StoreInv ==
  \A k \in Keys : \A n \in DOMAIN stor[k] :
    /\ stor[k][n].inc < Cardinality(Versions(k, stor[k][n].tx))
    /\ \A m \in 1 .. n - 1 : stor[k][m].tx = stor[k][n].tx => stor[k][m].inc < stor[k][n].inc

\* What a Read below transaction at returned is version n of k, or nothing if n is 0.
Names(read, k, at, n) ==
  IF n = 0 THEN read = NotFound
  ELSE /\ n \in DOMAIN stor[k]
       /\ stor[k][n].tx < at
       /\ read.status # "notFound" /\ SameVersion(read, stor[k][n])

Waiting == {"execute", "executed", "queued", "called"}
Answerable == {"validated", "answered"}

\* The execution read a version, the validation began with the same or a later one, or
\* with an earlier one if GC has taken away the version read, and what has been compared
\* was the same.
JobInv(i) ==
  LET begun == job[i].pc = "reads"
      checked == IF job[i].pc = "reads" THEN {n \in DOMAIN ReadKeys(i) : n < job[i].next}
                 ELSE IF job[i].pc = "writes" \/ job[i].valid THEN DOMAIN ReadKeys(i) ELSE {}
  IN  /\ Len(job[i].seen) <= Len(ReadKeys(i))
      /\ job[i].pc # "execute" => Len(job[i].seen) = Len(ReadKeys(i))
      /\ job[i].pc \in Waiting => job[i].next = 1
      /\ job[i].valid => job[i].pc \in Answerable
      /\ \A n \in DOMAIN job[i].seen :
           LET k == ReadKeys(i)[n]
           IN  \E a \in 0 .. Len(stor[k]) :
                 /\ Names(job[i].seen[n], k, Task(i), a)
                 /\ begun => \E b \in 0 .. Len(stor[k]) :
                      /\ Names(job[i].start[k], k, Task(i), b)
                      /\ b < a => a \in removed[k]
      /\ \A n \in checked : FromSnapshot(i, n)

ValidatorInv == StoreInv /\ \A i \in Results : JobInv(i)

================================================================================
