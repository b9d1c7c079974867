----------------------------- MODULE Blockchain -----------------------------
(***************************************************************************)
(* The data a Bitcoin node serves over RPC, as the indexer sees it: blocks, *)
(* the transactions they hold, the outputs those create and spend, and the  *)
(* chains the node may have as its active chain.  The node is external to   *)
(* the repository; it is modelled from the calls of bitcoin/rpc.go          *)
(* (getblockcount, getblockhash, getblock).  The order of transactions in a *)
(* block and of outputs in a transaction is not kept, because               *)
(* ParseBlockWithCache looks up every input before it handles any           *)
(* transaction.                                                             *)
(***************************************************************************)
EXTENDS Integers, Sequences, FiniteSets

CONSTANTS
    Block,      \* block hashes
    Genesis,    \* the block of height 0; the Go poller starts at height 1
    Tx,         \* transaction ids
    OutPoint,   \* (txid, vout) pairs
    Script,     \* scriptPubKey hex strings
    Address,    \* what ExtractAddressFromScriptPubKey returns
    NoBlock,    \* a NULL or empty block hash
    NoTx,       \* a NULL spent_by_txid
    HeightOf,   \* [Block -> Nat]
    TxsOf,      \* [Block -> SUBSET Tx]
    Coinbase,   \* [Block -> Tx]: the transaction only that block can hold
    Vin,        \* [Tx -> SUBSET OutPoint]: the outputs a transaction spends
    Creator,    \* [OutPoint -> Tx]
    ScriptOf,   \* [OutPoint -> Script]
    AddressOf,  \* [Script -> Address]
    SortKey,    \* [OutPoint -> Nat]: the (txid, vout) order of the database
    Chains      \* the active chains the node may go through, without genesis

(* getblockhash: the block of a chain at a height. *)
BlockAt(c, h) == IF h = 0 THEN Genesis ELSE c[h]

OutputsOf(t) == {o \in OutPoint : Creator[o] = t}

(* Blocks hold transactions and transactions spend and create outputs. *)
ASSUME DataAssumption ==
    /\ Genesis \in Block
    /\ HeightOf \in [Block -> Nat]
    /\ HeightOf[Genesis] = 0
    /\ TxsOf \in [Block -> SUBSET Tx]
    /\ Coinbase \in [Block -> Tx]
    /\ Vin \in [Tx -> SUBSET OutPoint]
    /\ Creator \in [OutPoint -> Tx]
    /\ ScriptOf \in [OutPoint -> Script]
    /\ AddressOf \in [Script -> Address]
    /\ SortKey \in [OutPoint -> Nat]
    /\ NoBlock \notin Block
    /\ NoTx \notin Tx

(* A coinbase belongs to one block only and spends no output. *)
ASSUME CoinbaseAssumption ==
    /\ \A b \in Block : Coinbase[b] \in TxsOf[b]
    /\ \A b \in Block : Vin[Coinbase[b]] = {}
    /\ \A a, b \in Block : Coinbase[a] \in TxsOf[b] => a = b

(* Every transaction pays somebody. *)
ASSUME OutputsAssumption == \A t \in Tx : OutputsOf(t) # {}

(* A block and a transaction have finitely many of everything. *)
ASSUME FinitenessAssumption ==
    /\ \A b \in Block : IsFiniteSet(TxsOf[b])
    /\ \A t \in Tx : IsFiniteSet(Vin[t]) /\ IsFiniteSet(OutputsOf(t))

(* No two outputs have the same (txid, vout). *)
ASSUME SortKeyAssumption ==
    \A o, p \in OutPoint : SortKey[o] = SortKey[p] => o = p

(* The position of a block in a chain is its height. *)
ASSUME ChainsAssumption ==
    /\ Chains \subseteq Seq(Block)
    /\ << >> \in Chains
    /\ \A c \in Chains : \A h \in 1..Len(c) : HeightOf[c[h]] = h

(* A node only serves chains in which no transaction is repeated, no output *)
(* is spent twice and an output exists when it is spent.                    *)
ASSUME ConsensusAssumption ==
    \A c \in Chains : \A g, h \in 1..Len(c) : \A s \in TxsOf[c[g]], t \in TxsOf[c[h]] :
        /\ g # h => s # t
        /\ s # t => Vin[s] \cap Vin[t] = {}
        /\ \A o \in Vin[t] : \E k \in 1..h : Creator[o] \in TxsOf[c[k]]

(* The node's chain only ever grows: of two chains one continues the other. *)
NeverReorganised ==
    \A c, d \in Chains : \A h \in 1..Len(c) : h <= Len(d) => c[h] = d[h]
=============================================================================
