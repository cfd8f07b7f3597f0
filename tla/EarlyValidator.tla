----------------------------- MODULE EarlyValidator -----------------------------
(***************************************************************************)
(* validation/validator.go, EarlyValidator: the results of executions wait *)
(* in a buffered channel for the workers of a FastValidator.  When the     *)
(* channel is full, ValidateAsync validates on a goroutine of its own.     *)
(* Shutdown closes a channel the workers select on together with the       *)
(* requests: a worker that may take either takes any of them.              *)
(***************************************************************************)
EXTENDS ConflictDetection

CONSTANT RequestsPerWorker   \* the room of the channel for each worker: 10

ASSUME RequestsPerWorkerAssumption == RequestsPerWorker \in Nat

VARIABLES
  validationQueue,   \* the requests in the channel
  worker,            \* worker -> the request it validates, 0 if it waits, -1 if it returned
  shutdown           \* "no", "closed" when the channel is, "returned" when Shutdown has

earlyVars == <<validationQueue, worker, shutdown>>
vars == <<validatorVars, detectionVars, earlyVars>>

\* The default of ConcurrentValidations is that of the FastValidator: an EarlyValidator
\* without a number has no worker and no room.
Workers == 1 .. setup.concurrent
Capacity == setup.concurrent * RequestsPerWorker

Init ==
  /\ ValidatorInit
  /\ DetectionInit
  /\ validationQueue = <<>>
  /\ worker = [w \in 1 .. setup.concurrent |-> 0]
  /\ shutdown = "no"

--------------------------------------------------------------------------------

ValidateAsync(i) ==
  /\ setup.early
  /\ job[i].pc = "executed"
  /\ IF Len(validationQueue) < Capacity
     THEN /\ validationQueue' = Append(validationQueue, i)
          /\ job' = [job EXCEPT ![i].pc = "queued"]
     ELSE /\ job' = [job EXCEPT ![i].pc = "called"]
          /\ UNCHANGED validationQueue
  /\ UNCHANGED <<setup, storeVars, lane, batch, detectionVars, worker, shutdown>>

TakeRequest(w) ==
  /\ worker[w] = 0
  /\ validationQueue # <<>>
  /\ worker' = [worker EXCEPT ![w] = Head(validationQueue)]
  /\ validationQueue' = Tail(validationQueue)
  /\ job' = [job EXCEPT ![Head(validationQueue)].pc = "called"]
  /\ UNCHANGED <<setup, storeVars, lane, batch, detectionVars, shutdown>>

\* Mutant: the response channel has no room, and nobody receives after the shutdown.
RespondUnbuffered(w) ==
  /\ worker[w] \in Results
  /\ job[worker[w]].pc = "validated"
  /\ shutdown = "no"
  /\ job' = [job EXCEPT ![worker[w]].pc = "answered"]
  /\ worker' = [worker EXCEPT ![w] = 0]
  /\ UNCHANGED <<setup, storeVars, lane, batch, detectionVars,
                 validationQueue, shutdown>>

\* The response channel has room for one answer, so that the worker never waits.
Respond(w) ==
  /\ worker[w] \in Results
  /\ job[worker[w]].pc = "validated"
  /\ job' = [job EXCEPT ![worker[w]].pc = "answered"]
  /\ worker' = [worker EXCEPT ![w] = 0]
  /\ UNCHANGED <<setup, storeVars, lane, batch, detectionVars,
                 validationQueue, shutdown>>

\* Mutant: a worker that finds nothing to do returns.
WorkerReturnEarly(w) ==
  /\ worker[w] = 0
  /\ shutdown # "no" \/ validationQueue = <<>>
  /\ worker' = [worker EXCEPT ![w] = -1]
  /\ UNCHANGED <<validatorVars, detectionVars, validationQueue, shutdown>>

WorkerReturn(w) ==
  /\ worker[w] = 0
  /\ shutdown # "no"
  /\ worker' = [worker EXCEPT ![w] = -1]
  /\ UNCHANGED <<validatorVars, detectionVars, validationQueue, shutdown>>

WorkerLoop(w) == TakeRequest(w) \/ Respond(w) \/ WorkerReturn(w)

\* The goroutine of a request that found the channel full.
RespondAlone(i) ==
  /\ setup.early
  /\ job[i].pc = "validated"
  /\ \A w \in Workers : worker[w] # i
  /\ job' = [job EXCEPT ![i].pc = "answered"]
  /\ UNCHANGED <<setup, storeVars, lane, batch, detectionVars, earlyVars>>

Shutdown ==
  /\ setup.early
  /\ shutdown = "no"
  /\ shutdown' = "closed"
  /\ UNCHANGED <<validatorVars, detectionVars, validationQueue, worker>>

\* Mutant: Shutdown does not wait for the workers.
ShutdownReturnAtOnce ==
  /\ shutdown = "closed"
  /\ shutdown' = "returned"
  /\ UNCHANGED <<validatorVars, detectionVars, validationQueue, worker>>

ShutdownReturn ==
  /\ shutdown = "closed"
  /\ \A w \in Workers : worker[w] = -1
  /\ shutdown' = "returned"
  /\ UNCHANGED <<validatorVars, detectionVars, validationQueue, worker>>

--------------------------------------------------------------------------------

Next ==
  \/ ValidatorNext /\ UNCHANGED <<detectionVars, earlyVars>>
  \/ (\E c \in Calls : DetectionStep(c)) /\ UNCHANGED earlyVars
  \/ \E i \in Results : ValidateAsync(i) \/ RespondAlone(i)
  \/ \E w \in Workers : WorkerLoop(w)
  \/ Shutdown
  \/ ShutdownReturn

Spec == Init /\ [][Next]_vars

MaxResults == Max({0} \cup {Len(s.results) : s \in Setups})
MaxWorkers == Max({0} \cup {s.concurrent : s \in Setups})

\* Goroutines that validate go on, workers loop, and calls that began return.  Nobody
\* has to execute, to submit or to shut down anything.
FairSpec ==
  /\ Spec
  /\ \A i \in 1 .. MaxResults :
       /\ WF_vars(i \in Results /\ ValidateStep(i) /\ UNCHANGED <<detectionVars, earlyVars>>)
       /\ WF_vars(i \in Results /\ RespondAlone(i))
  /\ \A w \in 1 .. MaxWorkers : WF_vars(w \in Workers /\ WorkerLoop(w))
  /\ WF_vars(BatchStep /\ UNCHANGED <<detectionVars, earlyVars>>)
  /\ WF_vars(ShutdownReturn)

--------------------------------------------------------------------------------
(* Properties *)

\* The values the variables may take, and the room of the channel and of the cache.
TypeOK ==
  /\ ValidatorTypeOK
  /\ DetectionTypeOK
  /\ validationQueue \in Seq(Results) /\ Len(validationQueue) <= Capacity
  /\ worker \in [Workers -> Results \cup {0, -1}]
  /\ shutdown \in {"no", "closed", "returned"}

\* Goroutines in the middle of a validation.
Validating == {"called", "reads", "writes", "validated"}

\* A request waits in the channel once or is validated by one goroutine; and once
\* Shutdown has returned, no worker validates anything any more: what was accepted
\* before or after is answered, left to its own goroutine, or still in the channel.
ShutdownLeavesNoneHalfway ==
  \A i \in Results :
    LET queued == {n \in DOMAIN validationQueue : validationQueue[n] = i}
        holders == {w \in Workers : worker[w] = i}
    IN  /\ Cardinality(queued) = (IF job[i].pc = "queued" THEN 1 ELSE 0)
        /\ Cardinality(holders) <= (IF job[i].pc \in Validating THEN 1 ELSE 0)
        /\ shutdown = "returned" => holders = {}

In(i, pcs) == i \in Results /\ job[i].pc \in pcs

\* Every request is answered, unless the validator is shut down while it waits in the
\* channel; one that was taken is answered even then, and so is a whole batch.
RequestsAnswered ==
  /\ \A i \in 1 .. MaxResults :
       /\ In(i, {"queued"}) ~> In(i, {"answered"}) \/ shutdown # "no"
       /\ In(i, Validating) ~> In(i, {"answered"})
  /\ batch = "running" ~> batch = "returned" /\ \A i \in Results : job[i].pc = "answered"

\* Shutdown returns, whatever the workers are doing and whether or not anybody takes
\* the answers they still give.
ShutdownReturns == shutdown = "closed" ~> shutdown = "returned"

--------------------------------------------------------------------------------
(* The inductive invariant *)

\* Each request is in one place, and the two kinds of validators do not mix.
RequestInv ==
  /\ \A i \in Results : job[i].pc = "queued" <=> i \in ToSet(validationQueue)
  /\ IsInjective(validationQueue)
  /\ \A w \in Workers : worker[w] \in Results =>
       /\ job[worker[w]].pc \in Validating
       /\ \A v \in Workers : worker[v] = worker[w] => v = w
  /\ shutdown = "returned" => \A w \in Workers : worker[w] = -1
  /\ setup.early => lane = <<>>
  /\ ~ setup.early => validationQueue = <<>> /\ \A w \in Workers : worker[w] \notin Results

IInv ==
  /\ setup \in Setups /\ TypeOK
  /\ ValidatorInv /\ DetectionInv /\ RequestInv

================================================================================
