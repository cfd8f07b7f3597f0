---------------------------- MODULE LockFreeStorage ----------------------------
(***************************************************************************)
(* storage/lockfree.go: a multi-version store.  A bucket maps each of its  *)
(* keys to a chain of versions, the most recent write first.  Write holds  *)
(* the lock of the bucket and is one step; GC holds it while it unlinks    *)
(* versions one by one.  Read and Commit hold it only to look up a chain   *)
(* and then walk the chain without it, one node per step.                  *)
(*                                                                         *)
(* The actors are transactions that write, commit or execute again under   *)
(* the next incarnation, readers that read a key and later validate what   *)
(* they read, and one garbage collector.  A value is known by the key and  *)
(* the version it was written for.  VersionStatusAborted is never assigned *)
(* in the code and so has no counterpart here.                             *)
(***************************************************************************)
EXTENDS Integers, Sequences, FiniteSets

CONSTANTS
  Keys,
  NoKey,
  Bucket,           \* the bucket of each key
  NumBuckets,
  Txs,              \* transaction IDs
  NilTxs,           \* those whose versions are read without a value
  MaxIncarnation,   \* transaction -> bound on its incarnations
  Readers,
  ReadAt,           \* the txIDs that are read at
  GCBefore,         \* the arguments of GC
  UsePool           \* does the configuration have a MemoryPool?

ASSUME NoKeyAssumption == NoKey \notin Keys
ASSUME BucketAssumption ==
  NumBuckets \in Nat \ {0} /\ Bucket \in [Keys -> 0 .. NumBuckets - 1]
ASSUME TxsAssumption ==
  Txs \subseteq Nat /\ NilTxs \subseteq Txs /\ ReadAt \subseteq Nat /\ GCBefore \subseteq Nat
ASSUME MaxIncarnationAssumption == MaxIncarnation \in [Txs -> Nat]
ASSUME UsePoolAssumption == UsePool \in BOOLEAN

VARIABLES
  nodes,          \* every versionNode created, numbered by its creation
  heads,          \* the head of every versionChain created, 0 for nil
  entries,        \* key -> its chain, 0 if the bucket has none
  totalKeys,      \* stats.TotalKeys
  totalVersions,  \* stats.TotalVersions
  pool,           \* the nodes the MemoryPool holds
  tx,             \* the running transactions
  reader,         \* the running Read or Validate of each reader
  gc              \* the running GC

vars == <<nodes, heads, entries, totalKeys, totalVersions, pool, tx, reader, gc>>
store == <<nodes, heads, entries, totalKeys, totalVersions, pool>>

Statuses == {"committed", "estimate"}
NodeIds == 0 .. Len(nodes)
ChainIds == 0 .. Len(heads)

\* What Read returns; the version is zero when nothing was found.
NotFound == [status |-> "notFound", key |-> NoKey, tx |-> 0, inc |-> 0]

Result(n) ==
  [status |-> IF nodes[n].status = "committed" THEN "found" ELSE "estimate",
   key |-> nodes[n].key, tx |-> nodes[n].tx, inc |-> nodes[n].inc]

IdleTx == [pc |-> "execute", inc |-> 0, writes |-> {}, left |-> {}, key |-> NoKey,
           chain |-> 0, node |-> 0]

IdleReader == [pc |-> "idle", key |-> NoKey, at |-> 0, chain |-> 0, start |-> 0,
               node |-> 0, phase |-> 1, first |-> NotFound, second |-> NotFound,
               valid |-> FALSE]

IdleGC == [pc |-> "idle", before |-> 0, bucket |-> 0, keys |-> {}, key |-> NoKey,
           prev |-> 0, node |-> 0, freed |-> 0]

Init ==
  /\ nodes = <<>>
  /\ heads = <<>>
  /\ entries = [k \in Keys |-> 0]
  /\ totalKeys = 0
  /\ totalVersions = 0
  /\ pool = {}
  /\ tx = [t \in Txs |-> IdleTx]
  /\ reader = [r \in Readers |-> IdleReader]
  /\ gc = IdleGC

\* GC is the only operation that keeps a bucket locked between steps.
Unlocked(k) == gc.pc \in {"keys", "visit"} => gc.bucket # Bucket[k]

--------------------------------------------------------------------------------
(* Write and Commit *)

\* createVersionNode takes a node from the pool or allocates one.
NewNodes == pool \cup {Len(nodes) + 1}

SetNode(n, node) ==
  nodes' = [m \in 1 .. Len(nodes) + (IF n > Len(nodes) THEN 1 ELSE 0) |->
              IF m = n THEN node ELSE nodes[m]]

Write(t, k) ==
  /\ tx[t].pc = "execute"
  /\ k \notin tx[t].writes
  /\ Unlocked(k)
  /\ \E n \in NewNodes :
       LET chain == IF entries[k] = 0 THEN Len(heads) + 1 ELSE entries[k]
           next == IF entries[k] = 0 THEN 0 ELSE heads[chain]
       IN  /\ SetNode(n, [key |-> k, tx |-> t, inc |-> tx[t].inc,
                          status |-> "estimate", next |-> next])
           /\ pool' = pool \ {n}
           /\ heads' = IF entries[k] = 0 THEN Append(heads, n)
                                         ELSE [heads EXCEPT ![chain] = n]
           /\ entries' = [entries EXCEPT ![k] = chain]
  /\ totalKeys' = totalKeys + (IF entries[k] = 0 THEN 1 ELSE 0)
  /\ totalVersions' = totalVersions + 1
  /\ tx' = [tx EXCEPT ![t].writes = @ \cup {k}]
  /\ UNCHANGED <<reader, gc>>

\* The transaction executes again, as the next incarnation; the versions of the
\* last one stay in the store.
Reexecute(t) ==
  /\ tx[t].pc = "execute"
  /\ tx[t].inc < MaxIncarnation[t]
  /\ tx[t].writes # {}
  /\ tx' = [tx EXCEPT ![t].inc = @ + 1, ![t].writes = {}]
  /\ UNCHANGED <<store, reader, gc>>

Commit(t) ==
  /\ tx[t].pc = "execute"
  /\ tx[t].writes # {}
  /\ tx' = [tx EXCEPT ![t].pc = "commit", ![t].left = tx[t].writes]
  /\ UNCHANGED <<store, reader, gc>>

\* The next write of the set: without a chain for its key there is nothing to mark.
CommitLookup(t, k) ==
  /\ tx[t].pc = "commit"
  /\ k \in tx[t].left
  /\ Unlocked(k)
  /\ tx' = IF entries[k] = 0
           THEN [tx EXCEPT ![t].left = @ \ {k}]
           ELSE [tx EXCEPT ![t].pc = "head", ![t].key = k, ![t].chain = entries[k]]
  /\ UNCHANGED <<store, reader, gc>>

CommitHead(t) ==
  /\ tx[t].pc = "head"
  /\ tx' = [tx EXCEPT ![t].pc = "mark", ![t].node = heads[tx[t].chain]]
  /\ UNCHANGED <<store, reader, gc>>

\* Mutant: Commit marks the head of the chain.
IsAnyVersion(n, t) == TRUE

IsVersion(n, t) == nodes[n].tx = t /\ nodes[n].inc = tx[t].inc

Marked(t) == [tx EXCEPT ![t].pc = "commit", ![t].left = @ \ {tx[t].key},
                        ![t].key = NoKey, ![t].chain = 0, ![t].node = 0]

MarkVersionAsCommitted(t) ==
  /\ tx[t].pc = "mark"
  /\ tx[t].node # 0
  /\ IsVersion(tx[t].node, t)
  /\ nodes' = [nodes EXCEPT ![tx[t].node].status = "committed"]
  /\ tx' = Marked(t)
  /\ UNCHANGED <<heads, entries, totalKeys, totalVersions, pool, reader, gc>>

MarkNext(t) ==
  /\ tx[t].pc = "mark"
  /\ tx[t].node # 0
  /\ ~ IsVersion(tx[t].node, t)
  /\ tx' = [tx EXCEPT ![t].node = nodes[tx[t].node].next]
  /\ UNCHANGED <<store, reader, gc>>

\* The version is not in the chain: GC removed it.
MarkNothing(t) ==
  /\ tx[t].pc = "mark"
  /\ tx[t].node = 0
  /\ tx' = Marked(t)
  /\ UNCHANGED <<store, reader, gc>>

CommitReturn(t) ==
  /\ tx[t].pc = "commit"
  /\ tx[t].left = {}
  /\ tx' = [tx EXCEPT ![t].pc = "committed"]
  /\ UNCHANGED <<store, reader, gc>>

CommitStep(t) ==
  \/ \E k \in Keys : CommitLookup(t, k)
  \/ CommitHead(t)
  \/ MarkVersionAsCommitted(t)
  \/ MarkNext(t)
  \/ MarkNothing(t)
  \/ CommitReturn(t)

--------------------------------------------------------------------------------
(* Read and Validate: phase 1 is the Read, phase 2 the Read of Validate *)

\* Mutant: any version found is as good as the one read.
IsReadValidIfFound(original, cur) ==
  \/ cur.status = original.status /\ cur.status \in {"notFound", "found"}
  \/ cur.status = "estimate" /\ cur.tx = original.tx

\* If current has a dependency, only the transaction is compared, and if it is not found,
\* the value of the original, which is nil.
IsReadValid(original, cur) ==
  \/ cur.status = "notFound" /\ (original.status = "notFound" \/ original.tx \in NilTxs)
  \/ cur.status = "found" /\ cur.tx = original.tx /\ cur.inc = original.inc
  \/ cur.status = "estimate" /\ cur.tx = original.tx

\* A Read ends with result res.
Return(r, res) ==
  reader' = IF reader[r].phase = 1
            THEN [reader EXCEPT ![r].pc = "read", ![r].first = res]
            ELSE [reader EXCEPT ![r].pc = "validated", ![r].second = res,
                                ![r].valid = IsReadValid(reader[r].first, res)]

Read(r, k, t) ==
  /\ reader[r].pc = "idle"
  /\ reader' = [reader EXCEPT ![r] = [IdleReader EXCEPT !.pc = "lookup",
                                        !.key = k, !.at = t]]
  /\ UNCHANGED <<store, tx, gc>>

Validate(r) ==
  /\ reader[r].pc = "read"
  /\ reader' = [reader EXCEPT ![r].pc = "lookup", ![r].phase = 2, ![r].chain = 0,
                              ![r].start = 0, ![r].node = 0]
  /\ UNCHANGED <<store, tx, gc>>

ReadLookup(r) ==
  /\ reader[r].pc = "lookup"
  /\ Unlocked(reader[r].key)
  /\ IF entries[reader[r].key] = 0
     THEN Return(r, NotFound)
     ELSE reader' = [reader EXCEPT ![r].pc = "head",
                                   ![r].chain = entries[reader[r].key]]
  /\ UNCHANGED <<store, tx, gc>>

ReadHead(r) ==
  /\ reader[r].pc = "head"
  /\ reader' = [reader EXCEPT ![r].pc = "visit", ![r].start = heads[reader[r].chain],
                              ![r].node = heads[reader[r].chain]]
  /\ UNCHANGED <<store, tx, gc>>

FindVersion(r) ==
  /\ reader[r].pc = "visit"
  /\ reader[r].node # 0
  /\ nodes[reader[r].node].tx < reader[r].at
  /\ Return(r, Result(reader[r].node))
  /\ UNCHANGED <<store, tx, gc>>

FindNext(r) ==
  /\ reader[r].pc = "visit"
  /\ reader[r].node # 0
  /\ nodes[reader[r].node].tx >= reader[r].at
  /\ reader' = [reader EXCEPT ![r].node = nodes[reader[r].node].next]
  /\ UNCHANGED <<store, tx, gc>>

FindNothing(r) ==
  /\ reader[r].pc = "visit"
  /\ reader[r].node = 0
  /\ Return(r, NotFound)
  /\ UNCHANGED <<store, tx, gc>>

\* The caller takes the answer of Validate, or goes on without validating.
Finish(r) ==
  /\ reader[r].pc \in {"read", "validated"}
  /\ reader' = [reader EXCEPT ![r] = IdleReader]
  /\ UNCHANGED <<store, tx, gc>>

ReadStep(r) ==
  \/ ReadLookup(r)
  \/ ReadHead(r)
  \/ FindVersion(r)
  \/ FindNext(r)
  \/ FindNothing(r)

--------------------------------------------------------------------------------
(* GC *)

GC(before) ==
  /\ gc.pc = "idle"
  /\ gc' = [IdleGC EXCEPT !.pc = "bucket", !.before = before]
  /\ UNCHANGED <<store, tx, reader>>

GCLock ==
  /\ gc.pc = "bucket"
  /\ gc.bucket < NumBuckets
  /\ gc' = [gc EXCEPT !.pc = "keys",
              !.keys = {k \in Keys : Bucket[k] = gc.bucket /\ entries[k] # 0}]
  /\ UNCHANGED <<store, tx, reader>>

\* The range over the map visits its keys in any order.
GCKey(k) ==
  /\ gc.pc = "keys"
  /\ k \in gc.keys
  /\ gc' = [gc EXCEPT !.pc = "visit", !.keys = @ \ {k}, !.key = k, !.prev = 0,
                      !.node = heads[entries[k]]]
  /\ UNCHANGED <<store, tx, reader>>

\* Mutant: nothing is kept for being committed.
KeepsRecent(n) == nodes[n].tx >= gc.before

Keeps(n) == nodes[n].tx >= gc.before \/ (nodes[n].status = "committed" /\ gc.prev = 0)

GCKeep ==
  /\ gc.pc = "visit"
  /\ gc.node # 0
  /\ Keeps(gc.node)
  /\ gc' = [gc EXCEPT !.prev = gc.node, !.node = nodes[gc.node].next]
  /\ UNCHANGED <<store, tx, reader>>

\* Mutant: the removed node is cut off from its successors.
GCRemoveCutOff ==
  /\ gc.pc = "visit"
  /\ gc.node # 0
  /\ ~ Keeps(gc.node)
  /\ IF gc.prev # 0
     THEN /\ nodes' = [nodes EXCEPT ![gc.prev].next = nodes[gc.node].next,
                                   ![gc.node].next = 0]
          /\ UNCHANGED heads
     ELSE /\ nodes' = [nodes EXCEPT ![gc.node].next = 0]
          /\ heads' = [heads EXCEPT ![entries[gc.key]] = nodes[gc.node].next]
  /\ pool' = IF UsePool THEN pool \cup {gc.node} ELSE pool
  /\ gc' = [gc EXCEPT !.node = nodes[gc.node].next, !.freed = @ + 1]
  /\ UNCHANGED <<entries, totalKeys, totalVersions, tx, reader>>

\* Mutant: a node at the head of the chain is given to the pool but stays linked.
GCRemoveHeadKept ==
  /\ gc.pc = "visit"
  /\ gc.node # 0
  /\ ~ Keeps(gc.node)
  /\ nodes' = IF gc.prev # 0
              THEN [nodes EXCEPT ![gc.prev].next = nodes[gc.node].next] ELSE nodes
  /\ pool' = IF UsePool THEN pool \cup {gc.node} ELSE pool
  /\ gc' = [gc EXCEPT !.node = nodes[gc.node].next, !.freed = @ + 1]
  /\ UNCHANGED <<heads, entries, totalKeys, totalVersions, tx, reader>>

GCRemove ==
  /\ gc.pc = "visit"
  /\ gc.node # 0
  /\ ~ Keeps(gc.node)
  /\ IF gc.prev # 0
     THEN nodes' = [nodes EXCEPT ![gc.prev].next = nodes[gc.node].next] /\ UNCHANGED heads
     ELSE heads' = [heads EXCEPT ![entries[gc.key]] = nodes[gc.node].next] /\ UNCHANGED nodes
  /\ pool' = IF UsePool THEN pool \cup {gc.node} ELSE pool
  /\ gc' = [gc EXCEPT !.node = nodes[gc.node].next, !.freed = @ + 1]
  /\ UNCHANGED <<entries, totalKeys, totalVersions, tx, reader>>

\* Mutant: an empty chain is deleted without counting it.
GCKeyUncounted ==
  /\ gc.pc = "visit"
  /\ gc.node = 0
  /\ IF heads[entries[gc.key]] = 0
     THEN entries' = [entries EXCEPT ![gc.key] = 0]
     ELSE UNCHANGED entries
  /\ gc' = [gc EXCEPT !.pc = "keys", !.key = NoKey, !.prev = 0]
  /\ UNCHANGED <<nodes, heads, totalKeys, totalVersions, pool, tx, reader>>

\* An empty chain is deleted from the bucket.
GCKeyDone ==
  /\ gc.pc = "visit"
  /\ gc.node = 0
  /\ IF heads[entries[gc.key]] = 0
     THEN entries' = [entries EXCEPT ![gc.key] = 0] /\ totalKeys' = totalKeys - 1
     ELSE UNCHANGED <<entries, totalKeys>>
  /\ gc' = [gc EXCEPT !.pc = "keys", !.key = NoKey, !.prev = 0]
  /\ UNCHANGED <<nodes, heads, totalVersions, pool, tx, reader>>

\* Mutant: the walk starts over instead of leaving the bucket.
GCUnlockForgotten ==
  /\ gc.pc = "keys"
  /\ gc.keys = {}
  /\ gc' = [gc EXCEPT !.keys = {k \in Keys : Bucket[k] = gc.bucket /\ entries[k] # 0}]
  /\ UNCHANGED <<store, tx, reader>>

GCUnlock ==
  /\ gc.pc = "keys"
  /\ gc.keys = {}
  /\ gc' = [gc EXCEPT !.pc = "bucket", !.bucket = @ + 1]
  /\ UNCHANGED <<store, tx, reader>>

\* Mutant: what was freed is subtracted twice.
GCReturnTwice ==
  /\ gc.pc = "bucket"
  /\ gc.bucket = NumBuckets
  /\ totalVersions' = totalVersions - 2 * gc.freed
  /\ gc' = IdleGC
  /\ UNCHANGED <<nodes, heads, entries, totalKeys, pool, tx, reader>>

GCReturn ==
  /\ gc.pc = "bucket"
  /\ gc.bucket = NumBuckets
  /\ totalVersions' = totalVersions - gc.freed
  /\ gc' = IdleGC
  /\ UNCHANGED <<nodes, heads, entries, totalKeys, pool, tx, reader>>

GCStep ==
  \/ GCLock
  \/ \E k \in Keys : GCKey(k)
  \/ GCKeep
  \/ GCRemove
  \/ GCKeyDone
  \/ GCUnlock
  \/ GCReturn

--------------------------------------------------------------------------------

Next ==
  \/ \E t \in Txs : \/ \E k \in Keys : Write(t, k)
                    \/ Reexecute(t)
                    \/ Commit(t)
                    \/ CommitStep(t)
  \/ \E r \in Readers : \/ \E k \in Keys, t \in ReadAt : Read(r, k, t)
                        \/ Validate(r)
                        \/ ReadStep(r)
                        \/ Finish(r)
  \/ \E b \in GCBefore : GC(b)
  \/ GCStep

Spec == Init /\ [][Next]_vars

\* Operations that began go on.  An RWMutex lets waiting readers pass when the
\* writer unlocks, so a lookup does not starve behind a GC that runs all the time.
FairSpec ==
  /\ Spec
  /\ \A t \in Txs : SF_vars(CommitStep(t))
  /\ \A r \in Readers : SF_vars(ReadStep(r))
  /\ WF_vars(GCStep)

--------------------------------------------------------------------------------
(* Properties *)

\* The nodes from node n to the end of its chain.
Below[n \in NodeIds] == IF n = 0 THEN {} ELSE {n} \cup Below[nodes[n].next]

\* The versions a key has in the store.
Linked(k) == IF entries[k] = 0 THEN {} ELSE Below[heads[entries[k]]]

ResultType == [status: {"found", "estimate", "notFound"}, key: Keys \cup {NoKey},
               tx: Nat, inc: Nat]

\* The values the variables may take; pointers point to nodes and chains that exist.
TypeOK ==
  /\ nodes \in Seq([key: Keys, tx: Txs, inc: Nat, status: Statuses,
                    next: NodeIds])
  /\ heads \in Seq(NodeIds)
  /\ entries \in [Keys -> ChainIds]
  /\ totalKeys \in Nat /\ totalVersions \in Nat
  /\ pool \in SUBSET (NodeIds \ {0})
  /\ tx \in [Txs -> [pc: {"execute", "commit", "head", "mark", "committed"},
                     inc: Nat, writes: SUBSET Keys,
                     left: SUBSET Keys, key: Keys \cup {NoKey}, chain: ChainIds,
                     node: NodeIds]]
  /\ reader \in [Readers -> [pc: {"idle", "lookup", "head", "visit", "read", "validated"},
                             key: Keys \cup {NoKey}, at: ReadAt \cup {0},
                             chain: ChainIds, start: NodeIds, node: NodeIds,
                             phase: {1, 2}, first: ResultType, second: ResultType,
                             valid: BOOLEAN]]
  /\ gc \in [pc: {"idle", "bucket", "keys", "visit"}, before: GCBefore \cup {0},
             bucket: 0 .. NumBuckets, keys: SUBSET Keys, key: Keys \cup {NoKey},
             prev: NodeIds, node: NodeIds, freed: Nat]

\* A chain holds versions of its own key only, none of which was given to the pool,
\* whatever nodes GC takes out and Write puts back.
ChainsWellFormed ==
  \A k \in Keys : \A n \in Linked(k) : nodes[n].key = k /\ n \notin pool

\* The statistics count the keys and versions the store has: TotalKeys at any time,
\* TotalVersions apart from what a running GC has freed and not yet subtracted.
AccountsBalance ==
  /\ totalKeys = Cardinality({k \in Keys : entries[k] # 0})
  /\ totalVersions - gc.freed = Cardinality(UNION {Linked(k) : k \in Keys})

\* The versions a reader has to consider: those of its key older than its transaction
\* that were in the chain when it loaded the head and still are.
Candidates(r) ==
  {n \in Linked(reader[r].key) : n <= reader[r].start /\ nodes[n].tx < reader[r].at}

Returns(n, res) ==
  nodes[n].key = res.key /\ nodes[n].tx = res.tx /\ nodes[n].inc = res.inc

\* A walk along a chain never passes by a version it should have returned, although
\* GC unlinks nodes, the one the reader stands on included, while it walks.
NoVersionSkipped ==
  \A r \in Readers :
    /\ reader[r].pc = "visit" => \A n \in Candidates(r) : n <= reader[r].node
    /\ reader[r].pc = "read" => \A n \in Candidates(r) :
         \E m \in NodeIds \ {0} : n <= m /\ Returns(m, reader[r].first)

\* If Validate accepts a committed version that was read, no other version was written
\* on top of it before the validation looked at the chain.
ValidReadIsCurrent ==
  \A r \in Readers :
    reader[r].pc = "validated" /\ reader[r].valid /\ reader[r].first.status = "found" =>
      \A n \in Candidates(r) :
        \E m \in NodeIds \ {0} : n <= m /\ Returns(m, reader[r].first)

\* A version is committed by the Commit of its own transaction and incarnation and by
\* no other, and once that Commit has returned, none of its versions is an estimate.
CommitExact ==
  \A k \in Keys : \A n \in Linked(k) :
    LET t == nodes[n].tx IN
    /\ nodes[n].status = "committed" => tx[t].pc # "execute" /\ nodes[n].inc = tx[t].inc
    /\ tx[t].pc = "committed" /\ nodes[n].inc = tx[t].inc => nodes[n].status = "committed"

\* Commit and Read return, however often GC locks their bucket and changes the chain
\* they walk along.
OperationsReturn ==
  /\ \A t \in Txs : tx[t].pc = "commit" ~> tx[t].pc = "committed"
  /\ \A r \in Readers : reader[r].pc = "lookup" ~> reader[r].pc \in {"read", "validated"}

\* GC keeps "the most recent committed version".
RecentCommitted(k) ==
  {n \in Linked(k) : nodes[n].status = "committed" /\
                     \A m \in Linked(k) : nodes[m].status = "committed" => m <= n}

GCKeepsRecentCommitted ==
  [][\A k \in Keys : RecentCommitted(k) \subseteq Linked(k)']_vars

--------------------------------------------------------------------------------
(* The abstract store this one implements without a MemoryPool *)

\* The versions reader r may not pass by: those that suit it and were in the store when
\* it was called, and those written before it loads the head of their chain.
Must(r) ==
  LET fits == {n \in Linked(reader[r].key) : nodes[n].tx < reader[r].at}
  IN  CASE reader[r].pc = "lookup" -> fits
        [] reader[r].pc = "head" ->
             IF entries[reader[r].key] = reader[r].chain THEN fits ELSE {}
        [] reader[r].pc = "visit" -> Candidates(r)
        [] OTHER -> {}

Written ==
  [n \in 1 .. Len(nodes) |-> [key |-> nodes[n].key, tx |-> nodes[n].tx, inc |-> nodes[n].inc]]

Live == UNION {Linked(k) : k \in Keys}

Committed == {n \in 1 .. Len(nodes) : nodes[n].status = "committed"}

Transactions ==
  [t \in Txs |-> [pc |-> IF tx[t].pc \in {"head", "mark"} THEN "commit" ELSE tx[t].pc,
                  inc |-> tx[t].inc, writes |-> tx[t].writes]]

\* A Validate reads the key of its Read once more.
Calls ==
  [r \in Readers |->
     [pc |-> CASE reader[r].pc = "idle" -> "idle"
               [] reader[r].pc \in {"read", "validated"} -> "answered"
               [] OTHER -> "reading",
      key |-> reader[r].key, at |-> reader[r].at, must |-> Must(r),
      answer |-> CASE reader[r].pc = "read" -> reader[r].first
                   [] reader[r].pc = "validated" -> reader[r].second
                   [] OTHER -> NotFound]]

Horizon == IF gc.pc = "idle" THEN 0 ELSE gc.before

Versions ==
  INSTANCE VersionStore WITH
    written <- Written, live <- Live, committed <- Committed, tx <- Transactions,
    reader <- Calls, horizon <- Horizon

\* Writes, commits, reads and GC act on the chains as on an abstract store of versions.
KeepsVersions == Versions!Spec

--------------------------------------------------------------------------------
(* The inductive invariant without a MemoryPool.  Nodes are numbered as they are  *)
(* created, so every pointer leads to a smaller number.                           *)

\* A node points to an older one of its key, and a chain belongs to one key.
LinksInv ==
  /\ \A n \in 1 .. Len(nodes) :
       /\ nodes[n].next < n
       /\ nodes[n].next # 0 => nodes[nodes[n].next].key = nodes[n].key
  /\ \A k \in Keys : entries[k] # 0 =>
       /\ heads[entries[k]] # 0 => nodes[heads[entries[k]]].key = k
       /\ \A l \in Keys : entries[l] = entries[k] => l = k

\* From any node of a key, one that GC has taken out included, the next pointer passes
\* by no version that is still in the chain.
NoGap ==
  \A n \in 1 .. Len(nodes) : \A m \in Linked(nodes[n].key) : m < n => m <= nodes[n].next

\* Walkers hold chains that are those of their keys or have become empty for good.
ChainOf(c, k) ==
  /\ c # 0
  /\ \A l \in Keys : entries[l] = c => l = k
  /\ entries[k] # c => heads[c] = 0

CountInv == AccountsBalance /\ IsFiniteSet({k \in Keys : entries[k] # 0})

\* GC stands on the successor of a node of the chain, or on its head.
GCInv ==
  /\ gc.pc = "idle" => gc.freed = 0
  /\ gc.pc \in {"keys", "visit"} =>
       /\ gc.bucket < NumBuckets
       /\ \A k \in gc.keys : Bucket[k] = gc.bucket /\ entries[k] # 0
  /\ gc.pc = "visit" =>
       /\ gc.key \in Keys \ gc.keys /\ Bucket[gc.key] = gc.bucket /\ entries[gc.key] # 0
       /\ IF gc.prev = 0 THEN gc.node = heads[entries[gc.key]]
                         ELSE gc.prev \in Linked(gc.key) /\ gc.node = nodes[gc.prev].next

\* A key has one version of a transaction and incarnation, later ones with later numbers.
VersionInv ==
  \A m, n \in 1 .. Len(nodes) :
    m < n /\ nodes[m].key = nodes[n].key /\ nodes[m].tx = nodes[n].tx =>
      nodes[m].inc < nodes[n].inc

\* The versions of transaction t, and those its Commit has yet to mark.
TxInv(t) ==
  /\ \A n \in 1 .. Len(nodes) : nodes[n].tx = t =>
       /\ nodes[n].inc <= tx[t].inc
       /\ nodes[n].inc = tx[t].inc => nodes[n].key \in tx[t].writes
       /\ nodes[n].status = "committed" => tx[t].pc # "execute" /\ nodes[n].inc = tx[t].inc
  /\ tx[t].pc # "execute" =>
       \A k \in Keys \ tx[t].left : \A n \in Linked(k) :
         IsVersion(n, t) => nodes[n].status = "committed"
  /\ tx[t].pc \in {"head", "mark"} => tx[t].key \in Keys
  /\ tx[t].pc = "committed" => tx[t].left = {}
  /\ tx[t].pc = "head" =>
       /\ ChainOf(tx[t].chain, tx[t].key)
       /\ \A n \in Linked(tx[t].key) : IsVersion(n, t) => entries[tx[t].key] = tx[t].chain
  /\ tx[t].pc = "mark" =>
       /\ tx[t].node # 0 => nodes[tx[t].node].key = tx[t].key
       /\ \A n \in Linked(tx[t].key) : IsVersion(n, t) => n <= tx[t].node

\* What a reader has found, and what is left for it to find.
ReaderInv(r) ==
  /\ reader[r].pc # "idle" => reader[r].key \in Keys
  /\ reader[r].pc = "head" => ChainOf(reader[r].chain, reader[r].key)
  /\ reader[r].pc = "visit" =>
       /\ reader[r].node # 0 => nodes[reader[r].node].key = reader[r].key
       /\ \A n \in Candidates(r) : n <= reader[r].node
  /\ (reader[r].pc = "read" \/ reader[r].phase = 2) /\ reader[r].first.status = "found" =>
       \E m \in 1 .. Len(nodes) :
         /\ Returns(m, reader[r].first)
         /\ nodes[m].key = reader[r].key /\ nodes[m].status = "committed"

IInv ==
  /\ TypeOK /\ pool = {}
  /\ LinksInv /\ NoGap /\ CountInv /\ GCInv /\ VersionInv
  /\ (\A t \in Txs : TxInv(t)) /\ (\A r \in Readers : ReaderInv(r))
  /\ NoVersionSkipped /\ ValidReadIsCurrent

--------------------------------------------------------------------------------
(* The inductive invariant that a MemoryPool keeps too.  A node that is used again     *)
(* has an old number, so here the numbers say nothing of the order of a chain.         *)

\* From every node, in the pool or not, the pointers lead to the end of a chain: no set
\* of nodes is closed under them.
Acyclic ==
  \A S \in SUBSET (NodeIds \ {0}) : S # {} => \E n \in S : nodes[n].next \notin S

OwnChain == \A k, l \in Keys : entries[k] = entries[l] => k = l \/ entries[k] = 0

\* Whoever is about to load the head of a chain has one.
HoldsChain ==
  /\ \A t \in Txs : tx[t].pc = "head" => tx[t].chain # 0
  /\ \A r \in Readers : /\ reader[r].pc # "idle" => reader[r].key \in Keys
                        /\ reader[r].pc = "head" => reader[r].chain # 0

ChainInv ==
  /\ TypeOK /\ Acyclic /\ OwnChain /\ ChainsWellFormed /\ CountInv /\ GCInv /\ HoldsChain

================================================================================
