--------------------------- MODULE MCEngineLifecycle ---------------------------
(* Instances of EngineLifecycle for TLC. *)
EXTENDS EngineLifecycle, TLC

CONSTANTS c1, c2

\* One client owns the engine, the other one uses it and may stop it.  Execute begins
\* where ExecuteWithExecutor delegates to it.
OwnerAndUser ==
  c1 :> {"start", "stop", "configure"}
  @@ c2 :> {"stop", "setOracle", "executeWith"}

Everything == [c \in Clients |-> Operations]

================================================================================
