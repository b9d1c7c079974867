---------------------------- MODULE MCWorkerPool ----------------------------
(* WorkerPool on the small chains of MCData. *)
EXTENDS WorkerPool, MCData

ShortChain == <<"a1", "a2">>
=============================================================================
