---------------------------- MODULE MCSequential ----------------------------
(* SequentialIndexer on the small chains of MCData. *)
EXTENDS SequentialIndexer, MCData
=============================================================================
