----------------------------- MODULE MCBackfill -----------------------------
(* ParallelBackfill on the small chains of MCData. *)
EXTENDS ParallelBackfill, MCData

MCChain == <<"a1", "a2", "a3">>
=============================================================================
