------------------------------ MODULE Archive ------------------------------
(***************************************************************************)
(* What all indexing paths have in common for whoever reads their tables,   *)
(* the poller, the worker pool, the parallel backfill and the C# service,   *)
(* whether they store a block in one database transaction or in five.       *)
(* A step is about one block.  It adds the transactions of the block, or    *)
(* none; it changes no output but those the block creates and spends, and   *)
(* it does so, or records the block as the last one, only when all the      *)
(* transactions of the block are there.  Nothing is ever taken out again.   *)
(***************************************************************************)
CONSTANTS Block, NoBlock, TxsOf, OutPoint, Creator, Vin

VARIABLES
    stored,     \* the transactions that are there
    outputs,    \* "none", "unspent" or "spent" for each output
    progress    \* the block recorded as the last one, or NoBlock

archive == <<stored, outputs, progress>>

Init ==
    /\ stored = {}
    /\ outputs = [o \in OutPoint |-> "none"]
    /\ progress = NoBlock

Creates(b, o) == Creator[o] \in TxsOf[b]
Spends(b, o) == \E t \in TxsOf[b] : o \in Vin[t]

(* An output the block creates becomes unspent; one it spends becomes spent *)
(* if it is there, or is created in the same step.                          *)
RecordOutput(b, o) ==
    \/ outputs'[o] = outputs[o]
    \/ outputs'[o] = "unspent" /\ Creates(b, o)
    \/ outputs'[o] = "spent" /\ Spends(b, o) /\ (outputs[o] # "none" \/ Creates(b, o))

Record(b) ==
    /\ stored' \in {stored, stored \cup TxsOf[b]}
    /\ outputs' \in [OutPoint -> {"none", "unspent", "spent"}]
    /\ \A o \in OutPoint : RecordOutput(b, o)
    /\ progress' \in {progress, NoBlock, b}
    /\ outputs' # outputs \/ progress' = b => TxsOf[b] \subseteq stored'

Next == \E b \in Block : Record(b)

Spec == Init /\ [][Next]_archive
=============================================================================
