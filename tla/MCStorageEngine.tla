-------------------------- MODULE MCStorageEngine --------------------------
(* Instances of StorageEngine for TLC. *)
EXTENDS StorageEngine, TLC

CONSTANTS w1, k1

\* A writer beside a thread that does the rest.
WriterAndKeeper == (w1 :> {"insert", "batch"}) @@ (k1 :> {"init", "query", "purge", "close"})

\* A writer beside a thread that only closes.
WriterAndCloser == (w1 :> {"insert"}) @@ (k1 :> {"close"})

\* One thread, as in the unit test of the engine.
OneThread == w1 :> {"init", "insert", "batch", "query", "close"}
=============================================================================
