-------------------------- MODULE SequentialIndexer --------------------------
(***************************************************************************)
(* The block poller of internal/indexer/indexer.go on its sequential path:  *)
(* processBlocks -> processBlockChunk -> processBlockWithCache, with the     *)
(* reorganisation check, the watched-script cache and the database           *)
(* transaction that stores a block.  The node moves its chain, RPC calls and *)
(* statements fail, and the process crashes and restarts at any point.       *)
(***************************************************************************)
EXTENDS IndexStore

CONSTANTS
    ChunkSize,          \* const chunkSize = 10 of processBlocks
    InitialScripts,     \* scripts in watched_script before indexing begins
    MaxFaults           \* how many failures and crashes a behaviour may have

ASSUME SequentialAssumption ==
    /\ ChunkSize \in Nat \ {0}
    /\ InitialScripts \subseteq Script
    /\ MaxFaults \in Nat

VARIABLES
    active,             \* the node's active chain
    transaction,        \* table transaction: the block_hash of each row
    utxo,               \* table utxo
    tx_reference,       \* table tx_reference: the keys of its rows
    index_progress,     \* the one row of index_progress; height 0 if absent
    watched_script,     \* table watched_script: the scripts of its rows
    cache,              \* Indexer.watchedScriptsCache
    cacheFresh,         \* time.Now().Before(Indexer.cacheExpiry)
    pc,                 \* where the block poller is
    currentHeight,      \* local of processBlocks
    height,             \* local of processBlockChunk
    endHeight,          \* local of processBlocks: the end of the chunk
    watchedScriptMap,   \* local of processBlockChunk
    blockHash,          \* local of processBlockWithCache
    work,               \* what ParseBlockWithCache returned
    faults              \* failures and crashes so far

database == <<transaction, utxo, tx_reference, index_progress>>
scripts == <<watched_script, cache, cacheFresh>>
locals == <<currentHeight, height, endHeight, watchedScriptMap, blockHash, work>>
vars == <<active, database, scripts, pc, locals, faults>>

PC == {"down", "idle", "chunk", "hash", "reorg", "block", "commit"}
Busy == PC \ {"down", "idle"}

Progress == [height : Nat, hash : Block \cup {NoBlock}]

Lower(m, n) == IF m <= n THEN m ELSE n

Init ==
    /\ active = << >>
    /\ TablesEmpty(transaction, utxo, tx_reference)
    /\ index_progress = [height |-> 0, hash |-> NoBlock]
    /\ watched_script = InitialScripts
    /\ cache = {} /\ cacheFresh = FALSE
    /\ pc = "idle"
    /\ currentHeight = 0 /\ height = 0 /\ endHeight = 0
    /\ watchedScriptMap = {} /\ blockHash = NoBlock /\ work = NoWork
    /\ faults = 0

-----------------------------------------------------------------------------
(* The environment *)

(* The node follows the longest chain: an extension or a reorganisation.    *)
NodeAdvances ==
    /\ \E c \in Chains : Len(c) > Len(active) /\ active' = c
    /\ UNCHANGED <<database, scripts, pc, locals, faults>>

(* AddWatchedScript: a row is added to watched_script (by an operator: the  *)
(* program has no caller of it either); the cache does not learn of it,     *)
(* because invalidateCache is never called.                                 *)
AddWatchedScript(s) ==
    /\ watched_script' = watched_script \cup {s}
    /\ UNCHANGED <<active, database, cache, cacheFresh, pc, locals, faults>>

(* Five minutes pass since the cache was loaded. *)
CacheExpires ==
    /\ cacheFresh
    /\ cacheFresh' = FALSE
    /\ UNCHANGED <<active, database, watched_script, cache, pc, locals, faults>>

-----------------------------------------------------------------------------
(* The block poller *)

(* processBlocks returns: its locals are gone and the next tick polls again. *)
ReturnTo(p) ==
    /\ pc' = p
    /\ currentHeight' = 0 /\ height' = 0 /\ endHeight' = 0
    /\ watchedScriptMap' = {} /\ blockHash' = NoBlock /\ work' = NoWork

(* Mutant: the last height is processed again. *)
FirstHeightInclusive == IF index_progress.height = 0 THEN 1 ELSE index_progress.height

(* The height at which processBlocks continues. *)
FirstHeight == index_progress.height + 1

(* Mutant: the tip itself is not polled for. *)
ProcessBlocksBelowTip ==
    /\ pc = "idle"
    /\ FirstHeight < Len(active)
    /\ currentHeight' = Len(active)
    /\ height' = FirstHeight
    /\ pc' = "chunk"
    /\ UNCHANGED <<active, database, scripts, endHeight, watchedScriptMap, blockHash, work, faults>>

(* A tick: getblockcount, then the progress row.  Nothing to do, no step.   *)
ProcessBlocks ==
    /\ pc = "idle"
    /\ FirstHeight <= Len(active)
    /\ currentHeight' = Len(active)
    /\ height' = FirstHeight
    /\ pc' = "chunk"
    /\ UNCHANGED <<active, database, scripts, endHeight, watchedScriptMap, blockHash, work, faults>>

(* getWatchedScriptsMap trusts a cache that is neither expired nor empty.   *)
CacheValid == cacheFresh /\ cache # {}

(* Mutant: the map handed to the chunk is the one from before the reload. *)
ProcessBlockChunkOldMap ==
    /\ pc = "chunk"
    /\ endHeight' = Lower(height + ChunkSize - 1, currentHeight)
    /\ cache' = IF CacheValid THEN cache ELSE watched_script
    /\ cacheFresh' = TRUE
    /\ watchedScriptMap' = cache
    /\ pc' = "hash"
    /\ UNCHANGED <<active, database, watched_script, currentHeight, height, blockHash, work, faults>>

(* A chunk begins: its end, and one watched-script map for all its blocks.  *)
ProcessBlockChunk ==
    /\ pc = "chunk"
    /\ endHeight' = Lower(height + ChunkSize - 1, currentHeight)
    /\ cache' = IF CacheValid THEN cache ELSE watched_script
    /\ cacheFresh' = TRUE
    /\ watchedScriptMap' = cache'
    /\ pc' = "hash"
    /\ UNCHANGED <<active, database, watched_script, currentHeight, height, blockHash, work, faults>>

GetBlockHash ==
    /\ pc = "hash"
    /\ blockHash' = BlockAt(active, height)
    /\ pc' = "reorg"
    /\ UNCHANGED <<active, database, scripts, currentHeight, height, endHeight, watchedScriptMap, work, faults>>

(* checkReorg compares the hash of the new block with the hash stored for   *)
(* the block below it.                                                      *)
ReorgSuspected ==
    /\ height > index_progress.height
    /\ index_progress.height # 0
    /\ height = index_progress.height + 1
    /\ blockHash # index_progress.hash

(* Mutant: the rollback records the hash of the block not yet stored. *)
CheckReorgWithHash ==
    /\ pc = "reorg"
    /\ index_progress' = IF ReorgSuspected THEN [height |-> height, hash |-> blockHash]
                         ELSE index_progress
    /\ pc' = "block"
    /\ UNCHANGED <<active, transaction, utxo, tx_reference, scripts, locals, faults>>

(* Mutant: the progress is moved back while the rows of the block stay. *)
CheckReorgBack ==
    /\ pc = "reorg"
    /\ index_progress' = IF ReorgSuspected THEN [height |-> index_progress.height - 1, hash |-> NoBlock]
                         ELSE index_progress
    /\ pc' = "block"
    /\ UNCHANGED <<active, transaction, utxo, tx_reference, scripts, locals, faults>>

(* checkReorg; handleReorg and rollbackUTXOs leave the tables of rows alone *)
(* and move the progress to the block that is about to be processed.        *)
CheckReorg ==
    /\ pc = "reorg"
    /\ index_progress' = IF ReorgSuspected THEN [height |-> height, hash |-> NoBlock]
                         ELSE index_progress
    /\ pc' = "block"
    /\ UNCHANGED <<active, transaction, utxo, tx_reference, scripts, locals, faults>>

(* getblock and the parser; both only read. *)
GetAndParseBlock ==
    /\ pc = "block"
    /\ work' = ParseBlockWithCache(blockHash, utxo, watchedScriptMap)
    /\ pc' = "commit"
    /\ UNCHANGED <<active, database, scripts, currentHeight, height, endHeight, watchedScriptMap, blockHash, faults>>

(* Mutant: the progress jumps to the end of the range. *)
StoreBlockRange ==
    /\ transaction' = BatchStoreTransactions(transaction, blockHash)
    /\ utxo' = BulkMarkUTXOsSpent(BulkUpsertUTXOs(utxo, work.new, blockHash), work.spent, blockHash)
    /\ tx_reference' = tx_reference \cup {r.key : r \in work.refs}
    /\ index_progress' = [height |-> currentHeight, hash |-> blockHash]

(* The statements of processBlockDataInSingleTransaction, committed.        *)
StoreBlock ==
    /\ transaction' = BatchStoreTransactions(transaction, blockHash)
    /\ utxo' = BulkMarkUTXOsSpent(BulkUpsertUTXOs(utxo, work.new, blockHash), work.spent, blockHash)
    /\ tx_reference' = tx_reference \cup {r.key : r \in work.refs}
    /\ index_progress' = [height |-> height, hash |-> blockHash]

(* Mutant: the loop of a chunk leaves a block out. *)
NextHeightOffByOne ==
    /\ height' = IF height < endHeight /\ height + 2 <= currentHeight THEN height + 2 ELSE height + 1
    /\ pc' = IF height < endHeight THEN "hash" ELSE "chunk"
    /\ blockHash' = NoBlock /\ work' = NoWork
    /\ UNCHANGED <<currentHeight, endHeight, watchedScriptMap>>

(* The loops of processBlockChunk and processBlocks go on to the next block. *)
NextHeight ==
    /\ height' = height + 1
    /\ pc' = IF height < endHeight THEN "hash" ELSE "chunk"
    /\ blockHash' = NoBlock /\ work' = NoWork
    /\ UNCHANGED <<currentHeight, endHeight, watchedScriptMap>>

CommitBlock ==
    /\ pc = "commit"
    /\ ~RefsRejected(work.refs)
    /\ StoreBlock
    /\ IF height < currentHeight THEN NextHeight ELSE ReturnTo("idle")
    /\ UNCHANGED <<active, scripts, faults>>

(* PostgreSQL refuses the tx_reference statement: rollback, error return.   *)
RejectBlock ==
    /\ pc = "commit"
    /\ RefsRejected(work.refs)
    /\ ReturnTo("idle")
    /\ UNCHANGED <<active, database, scripts, faults>>

-----------------------------------------------------------------------------
(* Failures *)

Fault == faults < MaxFaults /\ faults' = faults + 1

(* Mutant: rows are marked spent outside the transaction that fails. *)
ErrorReturnMarksKept ==
    /\ pc \in Busy
    /\ Fault
    /\ ReturnTo("idle")
    /\ utxo' = BulkMarkUTXOsSpent(utxo, work.spent, blockHash)
    /\ UNCHANGED <<active, transaction, tx_reference, index_progress, scripts>>

(* An RPC call or a statement fails, or the code panics and recovers: every *)
(* such path returns an error to blockPoller, which logs it.                *)
ErrorReturn ==
    /\ pc \in Busy
    /\ Fault
    /\ ReturnTo("idle")
    /\ UNCHANGED <<active, database, scripts>>

(* The connection breaks after PostgreSQL has committed: tx.Commit fails.   *)
CommitUnacknowledged ==
    /\ pc = "commit"
    /\ ~RefsRejected(work.refs)
    /\ Fault
    /\ StoreBlock
    /\ ReturnTo("idle")
    /\ UNCHANGED <<active, scripts>>

(* The process dies with its cache; the database and the node stay. *)
Crash ==
    /\ pc # "down"
    /\ Fault
    /\ ReturnTo("down")
    /\ cache' = {} /\ cacheFresh' = FALSE
    /\ UNCHANGED <<active, database, watched_script>>

Restart ==
    /\ pc = "down"
    /\ pc' = "idle"
    /\ UNCHANGED <<active, database, scripts, locals, faults>>

Poller ==
    \/ ProcessBlocks \/ ProcessBlockChunk \/ GetBlockHash \/ CheckReorg
    \/ GetAndParseBlock \/ CommitBlock \/ RejectBlock \/ Restart

Next ==
    \/ NodeAdvances
    \/ \E s \in Script : AddWatchedScript(s)
    \/ CacheExpires
    \/ Poller
    \/ ErrorReturn \/ CommitUnacknowledged \/ Crash

Spec == Init /\ [][Next]_vars

(* The goroutine runs whenever it can, and a dead process is restarted.  The *)
(* node, the failures and the clock have no fairness.                        *)
FairSpec == Spec /\ WF_vars(Poller)
-----------------------------------------------------------------------------
(* Properties *)

(* Every variable keeps its type, through failures and crashes. *)
TypeOK ==
    /\ active \in Chains
    /\ transaction \in [Tx -> Block \cup {NoBlock}]
    /\ utxo \in [OutPoint -> Row]
    /\ tx_reference \subseteq RefKey
    /\ index_progress \in Progress
    /\ watched_script \subseteq Script /\ cache \subseteq Script /\ cacheFresh \in BOOLEAN
    /\ pc \in PC
    /\ currentHeight \in Nat /\ height \in Nat /\ endHeight \in Nat
    /\ watchedScriptMap \subseteq Script
    /\ blockHash \in Block \cup {NoBlock}
    /\ work \in Work
    /\ faults \in 0..MaxFaults

(* A block is in the tables completely or not at all, whatever failed and   *)
(* whenever the process died (the single database transaction of            *)
(* processBlockDataInSingleTransaction).                                    *)
BlockAtomic == TablesAtomic(transaction, utxo)

(* No height is indexed twice: neither a retry, nor a commit whose answer   *)
(* was lost, nor a reorganisation makes processBlocks store a second block  *)
(* at a height it has stored.                                               *)
HeightIndexedOnce ==
    \A a, b \in Block :
        Indexed(transaction, a) /\ Indexed(transaction, b) /\ HeightOf[a] = HeightOf[b] => a = b

(* index_progress never understates or misnames what is stored: no indexed  *)
(* block is above its height, and a non-empty last_block_hash is the hash   *)
(* of a fully indexed block of exactly last_height.                         *)
ProgressIsTruthful ==
    /\ \A b \in Block : Indexed(transaction, b) => HeightOf[b] <= index_progress.height
    /\ index_progress.hash # NoBlock =>
          /\ Indexed(transaction, index_progress.hash)
          /\ HeightOf[index_progress.hash] = index_progress.height

(* No failure leaves an output marked spent, or spent_by_txid filled in,    *)
(* without a stored transaction to account for it.                          *)
SpentOnEvidence == SpendsEvidenced(transaction, utxo)

(* On a chain that is never reorganised, an output of an earlier indexed    *)
(* block is marked spent as soon as a transaction spending it is stored,    *)
(* even when blocks between the two were skipped.                           *)
EarlierOutputsSpent ==
    \A t \in Tx : \A o \in Vin[t] :
        /\ Stored(transaction, t) /\ Stored(transaction, Creator[o])
        /\ HeightOf[transaction[Creator[o]]] < HeightOf[transaction[t]]
        => utxo[o].status = "spent"

(* A script that was watched before indexing began is followed without a    *)
(* gap: each stored payment to it and each recorded spend from it has its   *)
(* tx_reference, through cache expiry, reloads, crashes and scripts added   *)
(* later; and no reference exists for a transaction that is not stored.     *)
InitialScriptsFollowed ==
    /\ \A o \in OutPoint : ScriptOf[o] \in InitialScripts =>
          /\ HasRow(utxo, o) => <<Creator[o], AddressOf[ScriptOf[o]], "in">> \in tx_reference
          /\ utxo[o].status = "spent" =>
                \E t \in Tx : o \in Vin[t] /\ <<t, AddressOf[ScriptOf[o]], "out">> \in tx_reference
    /\ \A r \in tx_reference : Stored(transaction, r[1])

(* What holds of the poller's locals: the height in hand is above every     *)
(* indexed block and next to the progress row, the block in hand has that   *)
(* height, and what was parsed is what the tables still say at the commit.  *)
LocalsInv ==
    /\ pc \in Busy =>
          /\ height \in 1..currentHeight /\ currentHeight <= Len(active)
          /\ \A b \in Block : Indexed(transaction, b) => HeightOf[b] < height
    /\ pc \in {"chunk", "hash", "reorg"} => height = index_progress.height + 1
    /\ pc \in {"block", "commit"} => height \in {index_progress.height, index_progress.height + 1}
    /\ pc \in {"reorg", "block", "commit"} => blockHash \in Block /\ HeightOf[blockHash] = height
    /\ pc = "commit" => work = ParseBlockWithCache(blockHash, utxo, watchedScriptMap)

(* A loaded cache, and the map of a running chunk, hold the initial scripts. *)
ScriptsInv ==
    /\ InitialScripts \subseteq watched_script
    /\ cache # {} => InitialScripts \subseteq cache
    /\ pc \in {"hash", "reorg", "block", "commit"} => InitialScripts \subseteq watchedScriptMap

(* What holds of the tables of rows. *)
TablesInv ==
    /\ BlockAtomic
    /\ RowsNameHolder(transaction)
    /\ HeightIndexedOnce
    /\ SpentOnEvidence
    /\ InitialScriptsFollowed

(* The inductive invariant: the properties above hold because the poller    *)
(* works strictly upwards from the progress row and stores what it parsed.  *)
IInv == TypeOK /\ TablesInv /\ ProgressIsTruthful /\ LocalsInv /\ ScriptsInv

(* The progress row moves by one height at a time and never back, so every  *)
(* height is at least attempted.                                            *)
ProgressByOne ==
    [][index_progress'.height \in {index_progress.height, index_progress.height + 1}]_vars

(* The poller as a ledger: which blocks it has taken over, the height on    *)
(* record and what its table of outputs says.                               *)
L == INSTANCE Ledger WITH
        indexed <- {b \in Block : Indexed(transaction, b)},
        tip <- index_progress.height,
        outputs <- OutputStates(utxo)

(* Through its seven steps per block, with a map of scripts read at the     *)
(* first, rows read at the sixth and a node, failures and crashes between   *)
(* any two, the poller implements the ledger: what one block does to the    *)
(* tables of rows happens at once, completely and in ascending order.       *)
ImplementsLedger == L!Spec

(* The poller as an archive, the promise it shares with the other paths. *)
Arch == INSTANCE Archive WITH
        stored <- StoredTxs(transaction),
        outputs <- OutputStates(utxo),
        progress <- index_progress.hash

(* The hash that the poller blanks before a block is stored, and the rows   *)
(* that a reorganisation leaves behind, are within that promise too: at no  *)
(* time does the progress name a block without its transactions.            *)
ImplementsArchive == Arch!Spec

(* Between two polls the block named by last_height is the last good block: *)
(* it is stored.  rollbackToLastGoodBlock (indexer.go:1146) relies on it.   *)
ProgressIsLastGoodBlock ==
    pc \in {"idle", "down"} /\ index_progress.height > 0 =>
        \E b \in Block : Indexed(transaction, b) /\ HeightOf[b] = index_progress.height

(* Two outputs or two inputs of a transaction belong to one address. *)
PaysTwice(b) == RefsRejected(UNION {RefsOfTx(t, Vin[t], Script) : t \in TxsOf[b]})

(* As long as nothing has failed, the only height that may be left out is   *)
(* one whose block PostgreSQL can refuse, reorganisations included.         *)
NoGap ==
    pc \in {"idle", "down"} /\ faults = 0 =>
        \A h \in 1..index_progress.height :
            \E b \in Block : HeightOf[b] = h /\ (Indexed(transaction, b) \/ PaysTwice(b))

(* When the node stops moving, the poller reaches the tip and stays there,  *)
(* whatever failed on the way.                                              *)
CatchesUp == <>[](index_progress.height = Len(active))

(* README.md:31 promises recovery from reorganisations: confirmed rows of   *)
(* a block the node has abandoned must eventually disappear.                *)
OnActiveChain(b) == \E h \in 1..Len(active) : active[h] = b
ReorgRecovery ==
    []<>(\A o \in OutPoint : utxo[o].status = "confirmed" => OnActiveChain(utxo[o].block))

(* parser.go:219 says that all spent outputs are handled: the output that a *)
(* stored transaction spends is not left in the table as unspent.           *)
AllSpendsMarked ==
    \A t \in Tx : \A o \in Vin[t] :
        Stored(transaction, t) /\ HasRow(utxo, o) => utxo[o].status = "spent"

(* README.md:26: spent_by_txid is the transaction that spent the output.    *)
SpentByIsSpender ==
    \A o \in OutPoint : utxo[o].status = "spent" => o \in Vin[utxo[o].spentBy]
=============================================================================
