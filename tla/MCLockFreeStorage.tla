--------------------------- MODULE MCLockFreeStorage ---------------------------
(* Instances of LockFreeStorage for TLC. *)
EXTENDS LockFreeStorage

OneBucket == [k \in Keys |-> 0]

\* The first transaction may execute twice; none may.
FirstTwice == [t \in Txs |-> IF t = 1 THEN 1 ELSE 0]
Once == [t \in Txs |-> 0]

\* The bound of a run: with a third version, there is one chain and nobody validates.
SmallChains ==
  Len(nodes) > 2 => Len(heads) = 1 /\ \A r \in Readers : reader[r].phase = 1

================================================================================
