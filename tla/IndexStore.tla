----------------------------- MODULE IndexStore -----------------------------
(***************************************************************************)
(* The PostgreSQL tables of the indexer as values, the statements of        *)
(* internal/database/database.go as operators on those values, and the      *)
(* block parser of internal/parser/parser.go.  A table is a total function  *)
(* whose value NoRow (or NoBlock) means that the row does not exist.        *)
(***************************************************************************)
EXTENDS Blockchain

CONSTANT SpendBatch     \* rows per UPDATE of bulkMarkUTXOsSpentInTx (1000)

ASSUME SpendBatchAssumption == SpendBatch \in Nat \ {0}

Status == {"none", "mempool", "confirmed", "spent"}
Direction == {"in", "out"}

(* A row of table utxo; address, script and value are functions of its key. *)
Row == [status : Status, block : Block \cup {NoBlock}, spentBy : Tx \cup {NoTx}]
NoRow == [status |-> "none", block |-> NoBlock, spentBy |-> NoTx]

(* A row of tx_reference is its unique key (txid, address, direction). *)
RefKey == Tx \X Address \X Direction

(* InitSchema creates the tables, and nothing is in them. *)
TablesEmpty(transaction, utxo, tx_reference) ==
    /\ transaction = [t \in Tx |-> NoBlock]
    /\ utxo = [o \in OutPoint |-> NoRow]
    /\ tx_reference = {}

(* A reference the parser built: its key and the output it was built for. *)
Ref == [key : RefKey, via : OutPoint]

(* What ParseBlockWithCache returns: newUTXOs, spentUTXOs, txReferences. *)
Work == [new : SUBSET OutPoint, spent : SUBSET OutPoint, refs : SUBSET Ref]
NoWork == [new |-> {}, spent |-> {}, refs |-> {}]

-----------------------------------------------------------------------------
(* Statements on the tables *)

(* Mutant: only unconfirmed rows can be spent. *)
SpendableMempoolOnly == {"mempool"}

(* The rows an input lookup sees: BatchGetUTXOs filters out spent rows. *)
Spendable == {"confirmed", "mempool"}
BatchGetUTXOs(utxo, S) == {o \in S : utxo[o].status \in Spendable}

(* INSERT ... ON CONFLICT (txid) DO NOTHING: the first block keeps the row. *)
BatchStoreTransactions(transaction, b) ==
    [t \in Tx |-> IF t \in TxsOf[b] /\ transaction[t] = NoBlock THEN b ELSE transaction[t]]

(* INSERT ... ON CONFLICT DO UPDATE status, block_height, block_hash: the   *)
(* columns spent_at and spent_by_txid of an existing row stay as they were. *)
BulkUpsertUTXOs(utxo, S, b) ==
    [o \in OutPoint |->
        IF o \in S THEN [utxo[o] EXCEPT !.status = "confirmed", !.block = b] ELSE utxo[o]]

(* The transaction of block b that spends output o. *)
Spender(b, o) == CHOOSE t \in TxsOf[b] : o \in Vin[t]

(* The UPDATE of bulkMarkUTXOsSpentInTx that handles o: the rows are sorted *)
(* by (txid, vout) and cut into pieces of SpendBatch rows.                  *)
SortIndex(S, o) == Cardinality({p \in S : SortKey[p] < SortKey[o]})
BatchOf(S, o) == {p \in S : SortIndex(S, p) \div SpendBatch = SortIndex(S, o) \div SpendBatch}
FirstOf(S) == CHOOSE p \in S : \A q \in S : SortKey[p] <= SortKey[q]

(* Every row of an UPDATE receives batch[0].SpentByTxid. *)
BulkMarkUTXOsSpent(utxo, S, b) ==
    [o \in OutPoint |->
        IF o \in S /\ utxo[o].status # "none"
        THEN [utxo[o] EXCEPT !.status = "spent", !.spentBy = Spender(b, FirstOf(BatchOf(S, o)))]
        ELSE utxo[o]]

(* One INSERT ... ON CONFLICT DO UPDATE may not hit a row twice: PostgreSQL *)
(* rejects the statement, and the transaction it is part of is rolled back. *)
RefsRejected(refs) == \E r, s \in refs : r # s /\ r.key = s.key

-----------------------------------------------------------------------------
(* The parser *)

(* The outputs whose rows STEP 1 of ParseBlockWithCache collects. *)
InputsOf(b) == UNION {Vin[t] : t \in TxsOf[b]}

(* References of one transaction: "in" for each output that pays a watched  *)
(* script, "out" for each found input that paid one.                        *)
RefsOfTx(t, found, watched) ==
    {[key |-> <<t, AddressOf[ScriptOf[o]], "in">>, via |-> o] :
        o \in {p \in OutputsOf(t) : ScriptOf[p] \in watched}}
    \cup
    {[key |-> <<t, AddressOf[ScriptOf[o]], "out">>, via |-> o] :
        o \in {p \in Vin[t] \cap found : ScriptOf[p] \in watched}}

(* Mutant: only the outputs that pay a watched script become rows. *)
ParseWatchedOnly(b, utxo, watched) ==
    LET found == BatchGetUTXOs(utxo, InputsOf(b)) IN
    [new   |-> {o \in OutPoint : Creator[o] \in TxsOf[b] /\ ScriptOf[o] \in watched},
     spent |-> found,
     refs  |-> UNION {RefsOfTx(t, found, watched) : t \in TxsOf[b]}]

(* The rows of the inputs are read once, before any output of the block is  *)
(* inserted; every output becomes a new row, every input found becomes spent. *)
ParseBlockWithCache(b, utxo, watched) ==
    LET found == BatchGetUTXOs(utxo, InputsOf(b)) IN
    [new   |-> {o \in OutPoint : Creator[o] \in TxsOf[b]},
     spent |-> found,
     refs  |-> UNION {RefsOfTx(t, found, watched) : t \in TxsOf[b]}]

-----------------------------------------------------------------------------
(* What the tables say *)

Stored(transaction, t) == transaction[t] # NoBlock
HasRow(utxo, o) == utxo[o].status # "none"
StoredTxs(transaction) == {t \in Tx : Stored(transaction, t)}

(* Each output as its row shows it: confirmed or not, it can be spent. *)
OutputStates(utxo) ==
    [o \in OutPoint |-> IF utxo[o].status \in Spendable THEN "unspent" ELSE utxo[o].status]

(* A block is indexed when the row of its coinbase names it. *)
Indexed(transaction, b) == transaction[Coinbase[b]] = b

(* A transaction row names a block that holds the transaction. *)
RowsNameHolder(transaction) ==
    \A t \in Tx : Stored(transaction, t) => t \in TxsOf[transaction[t]]

(* A block is in the tables completely or not at all: a transaction row     *)
(* names an indexed block, all transactions of an indexed block have a row, *)
(* and an output has a row exactly when the transaction creating it has.    *)
TablesAtomic(transaction, utxo) ==
    /\ \A t \in Tx : Stored(transaction, t) => Indexed(transaction, transaction[t])
    /\ \A b \in Block : Indexed(transaction, b) => \A t \in TxsOf[b] : Stored(transaction, t)
    /\ \A o \in OutPoint : HasRow(utxo, o) <=> Stored(transaction, Creator[o])

(* An output is marked spent only on account of a stored transaction that   *)
(* spends it, and spent_by_txid then names a stored transaction.            *)
SpendsEvidenced(transaction, utxo) ==
    \A o \in OutPoint : utxo[o].status = "spent" =>
        /\ \E t \in Tx : Stored(transaction, t) /\ o \in Vin[t]
        /\ utxo[o].spentBy \in Tx /\ Stored(transaction, utxo[o].spentBy)
=============================================================================
