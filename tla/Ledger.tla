------------------------------- MODULE Ledger -------------------------------
(***************************************************************************)
(* What the block poller promises to everybody who reads its tables: blocks *)
(* are taken over whole and in one step each, at ascending heights; a block *)
(* spends what it finds unspent and adds its outputs; the height on record  *)
(* is the height of the last block taken over or announces the next one,    *)
(* and a height once announced is not returned to.  The steps in which the  *)
(* code does it, its caches, failures, crashes and restarts are not there.  *)
(***************************************************************************)
EXTENDS Integers

CONSTANTS Block, HeightOf, TxsOf, OutPoint, Creator, Vin

VARIABLES
    indexed,    \* the blocks taken over
    tip,        \* the height on record
    outputs     \* "none", "unspent" or "spent" for each output

ledger == <<indexed, tip, outputs>>

Init ==
    /\ indexed = {}
    /\ tip = 0
    /\ outputs = [o \in OutPoint |-> "none"]

(* The next height is announced before its block is there. *)
Announce ==
    /\ tip' = tip + 1
    /\ UNCHANGED <<indexed, outputs>>

SpentBy(b, o) == outputs[o] = "unspent" /\ \E t \in TxsOf[b] : o \in Vin[t]

(* A block above all others is taken over, at the height on record or next. *)
TakeOver(b) ==
    /\ HeightOf[b] \in {tip, tip + 1}
    /\ \A a \in indexed : HeightOf[a] < HeightOf[b]
    /\ indexed' = indexed \cup {b}
    /\ tip' = HeightOf[b]
    /\ outputs' = [o \in OutPoint |->
                     IF SpentBy(b, o) THEN "spent"
                     ELSE IF Creator[o] \in TxsOf[b] THEN "unspent" ELSE outputs[o]]

Next == Announce \/ \E b \in Block : TakeOver(b)

Spec == Init /\ [][Next]_ledger
=============================================================================
