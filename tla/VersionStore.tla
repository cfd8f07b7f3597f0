------------------------------ MODULE VersionStore ------------------------------
(***************************************************************************)
(* What LockFreeStorage promises.  Every write adds one version, and       *)
(* nothing changes it later but the Commit of its transaction, which       *)
(* returns when no version of its own is left uncommitted.  A GC takes a   *)
(* committed version away only if a newer one of its key stays.  A read    *)
(* finds the most recently written of the versions that suit it, up to     *)
(* the writes and removals that happen while it runs.                      *)
(***************************************************************************)
EXTENDS Naturals, Sequences

CONSTANTS
  Keys,
  NoKey,
  Txs,             \* transaction IDs
  MaxIncarnation,  \* transaction -> bound on its incarnations
  Readers,
  ReadAt,          \* the txIDs that are read at
  GCBefore         \* the arguments of GC

VARIABLES
  written,    \* every version, in the order of the writes
  live,       \* the versions in the store, by their place in that order
  committed,  \* the versions that were marked as committed
  tx,         \* what each transaction does
  reader,     \* what each reader does
  horizon     \* the argument of the running GC, 0 if there is none

vars == <<written, live, committed, tx, reader, horizon>>

NotFound == [status |-> "notFound", key |-> NoKey, tx |-> 0, inc |-> 0]

Init ==
  /\ written = <<>>
  /\ live = {}
  /\ committed = {}
  /\ tx = [t \in Txs |-> [pc |-> "execute", inc |-> 0, writes |-> {}]]
  /\ reader = [r \in Readers |-> [pc |-> "idle", key |-> NoKey, at |-> 0, must |-> {},
                                  answer |-> NotFound]]
  /\ horizon = 0

--------------------------------------------------------------------------------
(* Transactions *)

\* The version transaction t writes of key k.
Version(t, k) == [key |-> k, tx |-> t, inc |-> tx[t].inc]

Write(t, k) ==
  /\ tx[t].pc = "execute"
  /\ k \notin tx[t].writes
  /\ written' = Append(written, Version(t, k))
  /\ live' = live \cup {Len(written) + 1}
  /\ tx' = [tx EXCEPT ![t].writes = @ \cup {k}]
  \* A read that runs may have to consider the new version, or not.
  /\ \E seen \in SUBSET {r \in Readers : reader[r].pc = "reading" /\ reader[r].key = k
                                         /\ t < reader[r].at} :
       reader' = [r \in Readers |->
                    IF r \in seen
                    THEN [reader[r] EXCEPT !.must = @ \cup {Len(written) + 1}]
                    ELSE reader[r]]
  /\ UNCHANGED <<committed, horizon>>

Reexecute(t) ==
  /\ tx[t].pc = "execute"
  /\ tx[t].inc < MaxIncarnation[t]
  /\ tx[t].writes # {}
  /\ tx' = [tx EXCEPT ![t].inc = @ + 1, ![t].writes = {}]
  /\ UNCHANGED <<written, live, committed, reader, horizon>>

Commit(t) ==
  /\ tx[t].pc = "execute"
  /\ tx[t].writes # {}
  /\ tx' = [tx EXCEPT ![t].pc = "commit"]
  /\ UNCHANGED <<written, live, committed, reader, horizon>>

\* A version of transaction t, in the store or already taken away.
Mark(t, n) ==
  /\ tx[t].pc = "commit"
  /\ \E k \in tx[t].writes : written[n] = Version(t, k)
  /\ committed' = committed \cup {n}
  /\ UNCHANGED <<written, live, tx, reader, horizon>>

CommitReturn(t) ==
  /\ tx[t].pc = "commit"
  /\ \A n \in live \ committed : \A k \in tx[t].writes : written[n] # Version(t, k)
  /\ tx' = [tx EXCEPT ![t].pc = "committed"]
  /\ UNCHANGED <<written, live, committed, reader, horizon>>

--------------------------------------------------------------------------------
(* Reads *)

\* A read may pass by no version that was in the store when it began and still is.
BeginRead(r, k, t) ==
  /\ reader' = [reader EXCEPT ![r] =
       [pc |-> "reading", key |-> k, at |-> t, answer |-> NotFound,
        must |-> {n \in live : written[n].key = k /\ written[n].tx < t}]]
  /\ UNCHANGED <<written, live, committed, tx, horizon>>

Read(r, k, t) == reader[r].pc = "idle" /\ BeginRead(r, k, t)

\* Validate reads again what was read.
Validate(r) == reader[r].pc = "answered" /\ BeginRead(r, reader[r].key, reader[r].at)

Answer(r, res) ==
  reader' = [reader EXCEPT ![r].pc = "answered", ![r].must = {}, ![r].answer = res]

Find(r, n) ==
  /\ reader[r].pc = "reading"
  /\ written[n].key = reader[r].key
  /\ written[n].tx < reader[r].at
  /\ \A m \in reader[r].must : m <= n
  /\ Answer(r, [status |-> IF n \in committed THEN "found" ELSE "estimate",
                key |-> written[n].key, tx |-> written[n].tx, inc |-> written[n].inc])
  /\ UNCHANGED <<written, live, committed, tx, horizon>>

FindNothing(r) ==
  /\ reader[r].pc = "reading"
  /\ reader[r].must = {}
  /\ Answer(r, NotFound)
  /\ UNCHANGED <<written, live, committed, tx, horizon>>

Finish(r) ==
  /\ reader[r].pc = "answered"
  /\ reader' = [reader EXCEPT ![r] = [pc |-> "idle", key |-> NoKey, at |-> 0,
                                      must |-> {}, answer |-> NotFound]]
  /\ UNCHANGED <<written, live, committed, tx, horizon>>

--------------------------------------------------------------------------------
(* GC *)

GC(before) ==
  /\ horizon = 0
  /\ horizon' = before
  /\ UNCHANGED <<written, live, committed, tx, reader>>

Remove(n) ==
  /\ n \in live
  /\ written[n].tx < horizon
  /\ n \in committed => \E m \in live : n < m /\ written[m].key = written[n].key
  /\ live' = live \ {n}
  /\ reader' = [r \in Readers |-> [reader[r] EXCEPT !.must = @ \ {n}]]
  /\ UNCHANGED <<written, committed, tx, horizon>>

GCReturn ==
  /\ horizon' = 0
  /\ UNCHANGED <<written, live, committed, tx, reader>>

--------------------------------------------------------------------------------

Next ==
  \/ \E t \in Txs : \/ \E k \in Keys : Write(t, k)
                    \/ Reexecute(t)
                    \/ Commit(t)
                    \/ \E n \in DOMAIN written : Mark(t, n)
                    \/ CommitReturn(t)
  \/ \E r \in Readers : \/ \E k \in Keys, t \in ReadAt : Read(r, k, t)
                        \/ Validate(r)
                        \/ \E n \in DOMAIN written : Find(r, n)
                        \/ FindNothing(r)
                        \/ Finish(r)
  \/ \E b \in GCBefore : GC(b)
  \/ \E n \in live : Remove(n)
  \/ GCReturn

\* A step of an implementation mostly hides from this store; TLC tries the disjuncts in
\* their order, so that case comes first.
Spec == Init /\ [][UNCHANGED vars \/ Next]_vars

================================================================================
