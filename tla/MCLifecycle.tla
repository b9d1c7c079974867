----------------------------- MODULE MCLifecycle -----------------------------
(* IndexerLifecycle with two goroutines and a pool of one client. *)
EXTENDS IndexerLifecycle
=============================================================================
