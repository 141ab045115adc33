--------------------------- MODULE MCGatewayMain ---------------------------
(* Instances of GatewayMain for TLC. *)
EXTENDS GatewayMain, TLC

CONSTANTS m, w1, w2, w3

\* main calls init and destroys the engine, a worker inserts.
ProgramCalls ==
    [t \in Threads |-> IF t = Main THEN {"init", "close"} ELSE {"insert"}]
=============================================================================
