-------------------------- MODULE ParallelBackfill --------------------------
(***************************************************************************)
(* ProcessBlocksParallel of internal/indexer/indexer.go: goroutines take    *)
(* heights from a channel and run processBlockWithRPCPool, which stores a   *)
(* block in five database transactions instead of one; a collector gathers  *)
(* the errors and the caller looks at them once the workers are done.  The  *)
(* metrics collector counts the blocks and writes its counts to a file; of  *)
(* its figures only the number of blocks is kept.                           *)
(***************************************************************************)
EXTENDS IndexStore

CONSTANTS
    Worker,             \* the maxWorkers goroutines
    Chain,              \* the node's chain, which stays as it is
    StartHeight,        \* the first of the heights; the last is the tip
    Watched,            \* what getWatchedScriptsMap returns
    RangeInterval,      \* blocks per entry of the metrics (10000)
    MaxFaults           \* how many calls may fail

ASSUME BackfillAssumption ==
    /\ Worker # {} /\ IsFiniteSet(Worker)
    /\ Chain \in Chains
    /\ StartHeight \in 1..Len(Chain)
    /\ Watched \subseteq Script
    /\ RangeInterval \in Nat \ {0}
    /\ MaxFaults \in Nat

VARIABLES
    transaction, utxo, tx_reference, index_progress,    \* the tables
    nextHeight,         \* what the dispatching goroutine sends next
    blockChan, blockClosed,
    worker,             \* each worker: its stage, its height and its parse result
    errorChan,          \* heights whose error waits for the collector
    errors,             \* heights whose error the collector has appended
    failedBlocks,       \* the heights logFailedBlock wrote to failed_blocks.json
    rangeMetrics,       \* BlockCount of each range; 0 if it has no entry
    savers,             \* goroutines that are about to run SaveMetrics
    metricsFile,        \* the counts in indexer_metrics.json, << >> if cut off
    saveFailed,         \* an error of SaveMetrics was logged
    stopChan,           \* Indexer.stopChan has been closed
    stopped,            \* Indexer.Stop has returned
    caller,             \* what ProcessBlocksParallel has returned
    faults

database == <<transaction, utxo, tx_reference, index_progress>>
dispatch == <<nextHeight, blockChan, blockClosed>>
report == <<errorChan, errors, failedBlocks, caller>>
metrics == <<rangeMetrics, savers, metricsFile, saveFailed>>
stopping == <<stopChan, stopped>>
vars == <<database, dispatch, worker, report, metrics, stopping, faults>>

Heights == StartHeight..Len(Chain)

(* The range a block is counted in, named by its first height. *)
RangeOf(h) == (h \div RangeInterval) * RangeInterval
Ranges == {RangeOf(h) : h \in Heights}
NoMetrics == [r \in Ranges |-> 0]

(* Mutant: the progress is updated before the outputs are stored. *)
StagesProgressFirst ==
    <<"fetch", "transactions", "parse", "progress", "outputs", "spends", "references">>

(* Mutant: the outputs of a block are stored before its transactions. *)
StagesOutputsFirst ==
    <<"fetch", "parse", "outputs", "transactions", "spends", "references", "progress">>

(* The stages of processBlockWithRPCPool, in its order. *)
Stages == <<"fetch", "transactions", "parse", "outputs", "spends", "references", "progress">>
Stage == {Stages[i] : i \in DOMAIN Stages}
After(stage) ==
    LET i == CHOOSE j \in DOMAIN Stages : Stages[j] = stage IN
    IF i = Len(Stages) THEN "metrics" ELSE Stages[i + 1]

WorkerState == [at : Stage \cup {"range", "metrics", "error", "done"}, height : {0} \cup Heights, work : Work]
Waiting == [at |-> "range", height |-> 0, work |-> NoWork]

Init ==
    /\ TablesEmpty(transaction, utxo, tx_reference)
    /\ index_progress = [height |-> 0, hash |-> NoBlock]
    /\ nextHeight = StartHeight /\ blockChan = << >> /\ blockClosed = FALSE
    /\ worker = [w \in Worker |-> Waiting]
    /\ errorChan = << >> /\ errors = {} /\ failedBlocks = {}
    /\ rangeMetrics = NoMetrics /\ savers = 0 /\ metricsFile = << >> /\ saveFailed = FALSE
    /\ stopChan = FALSE /\ stopped = FALSE
    /\ caller = "waiting"
    /\ faults = 0

-----------------------------------------------------------------------------
(* The goroutine that dispatches the heights *)

Dispatch ==
    /\ ~blockClosed /\ nextHeight <= Len(Chain)
    /\ Len(blockChan) < 2 * Cardinality(Worker)
    /\ blockChan' = Append(blockChan, nextHeight)
    /\ nextHeight' = nextHeight + 1
    /\ UNCHANGED <<database, blockClosed, worker, report, metrics, stopping, faults>>

(* Mutant: the channel is left open after a stop. *)
CloseBlocksUnlessStopped ==
    /\ ~blockClosed
    /\ nextHeight > Len(Chain) /\ ~stopChan
    /\ blockClosed' = TRUE
    /\ UNCHANGED <<database, nextHeight, blockChan, worker, report, metrics, stopping, faults>>

(* The loop is over, or select takes the case of a closed stopChan.         *)
CloseBlocks ==
    /\ ~blockClosed
    /\ nextHeight > Len(Chain) \/ stopChan
    /\ blockClosed' = TRUE
    /\ UNCHANGED <<database, nextHeight, blockChan, worker, report, metrics, stopping, faults>>

(* Indexer.Stop closes stopChan. *)
StopRequested ==
    /\ ~stopChan
    /\ stopChan' = TRUE
    /\ UNCHANGED <<database, dispatch, worker, report, metrics, stopped, faults>>

-----------------------------------------------------------------------------
(* The workers *)

Receive(w) ==
    /\ worker[w].at = "range"
    /\ blockChan # << >> \/ blockClosed
    /\ worker' = [worker EXCEPT ![w] =
                    IF blockChan # << >>
                    THEN [at |-> "fetch", height |-> Head(blockChan), work |-> NoWork]
                    ELSE [Waiting EXCEPT !.at = "done"]]
    /\ blockChan' = IF blockChan # << >> THEN Tail(blockChan) ELSE << >>
    /\ UNCHANGED <<database, nextHeight, blockClosed, report, metrics, stopping, faults>>

(* ON CONFLICT (txid) DO UPDATE: here the last block takes the row.         *)
BatchUpsertTransactions(S, b) ==
    /\ transaction' = [t \in Tx |-> IF t \in S THEN b ELSE transaction[t]]
    /\ UNCHANGED <<utxo, tx_reference, index_progress>>

(* The rows of all transactions of the block, with its height and hash.     *)
ProcessTransactionsBatch(b) == BatchUpsertTransactions(TxsOf[b], b)

(* BatchUpsertUTXOs: row by row the same upsert as the sequential path's.   *)
UpsertOutputs(S, b) ==
    /\ utxo' = BulkUpsertUTXOs(utxo, S, b)
    /\ UNCHANGED <<transaction, tx_reference, index_progress>>

(* Mutant: one UPDATE for a whole batch, as on the sequential path. *)
BatchMarkInBulk(u, S, b) == BulkMarkUTXOsSpent(u, S, b)

(* BatchMarkUTXOsSpent updates row by row, each with its own spent_by_txid. *)
BatchMarkUTXOsSpent(u, S, b) ==
    [o \in OutPoint |->
        IF o \in S /\ u[o].status # "none"
        THEN [u[o] EXCEPT !.status = "spent", !.spentBy = Spender(b, o)]
        ELSE u[o]]

MarkSpends(S, b) ==
    /\ utxo' = BatchMarkUTXOsSpent(utxo, S, b)
    /\ UNCHANGED <<transaction, tx_reference, index_progress>>

(* References go in one by one, so no statement meets a row twice. *)
UpsertReferences(refs) ==
    /\ tx_reference' = tx_reference \cup {r.key : r \in refs}
    /\ UNCHANGED <<transaction, utxo, index_progress>>

UpdateIndexProgress(h, b) ==
    /\ index_progress' = [height |-> h, hash |-> b]
    /\ UNCHANGED <<transaction, utxo, tx_reference>>

(* What a stage commits: ProcessTransactionsBatch, the three transactions   *)
(* of ProcessUTXOs and UpdateIndexProgress; "fetch" and "parse" only read.  *)
Effect(stage, h, work) ==
    LET b == BlockAt(Chain, h) IN
    \/ stage \in {"fetch", "parse"} /\ UNCHANGED database
    \/ stage = "transactions" /\ ProcessTransactionsBatch(b)
    \/ stage = "outputs" /\ UpsertOutputs(work.new, b)
    \/ stage = "spends" /\ MarkSpends(work.spent, b)
    \/ stage = "references" /\ UpsertReferences(work.refs)
    \/ stage = "progress" /\ UpdateIndexProgress(h, b)

ProcessStage(w) ==
    LET s == worker[w] IN
    /\ s.at \in Stage
    /\ Effect(s.at, s.height, s.work)
    /\ worker' = [worker EXCEPT ![w] =
                    [s EXCEPT !.at = After(s.at),
                              !.work = IF s.at = "parse"
                                       THEN ParseBlockWithCache(BlockAt(Chain, s.height), utxo, Watched)
                                       ELSE @]]
    /\ UNCHANGED <<dispatch, report, metrics, stopping, faults>>

(* executeWithRetry: a transaction is committed, but the connection breaks   *)
(* before the answer is there; after a pause it is run once more.  (A retry *)
(* of a transaction that was rolled back changes nothing.)                  *)
RetryStage(w) ==
    LET s == worker[w] IN
    /\ s.at \in {"transactions", "outputs", "spends", "references"}
    /\ faults < MaxFaults /\ faults' = faults + 1
    /\ Effect(s.at, s.height, s.work)
    /\ UNCHANGED <<dispatch, worker, report, metrics, stopping>>

(* Mutant: only the channel learns of the failure. *)
StageFailsUnlogged(w) ==
    LET s == worker[w] IN
    /\ s.at \in Stage
    /\ faults < MaxFaults /\ faults' = faults + 1
    /\ Effect(s.at, s.height, s.work) \/ UNCHANGED database
    /\ worker' = [worker EXCEPT ![w].at = "error"]
    /\ UNCHANGED <<dispatch, report, metrics, stopping>>

(* A stage fails for good, before or (the answer being lost) after its      *)
(* commit; what earlier stages committed stays.  logFailedBlock writes the  *)
(* height to the file.                                                      *)
StageFails(w) ==
    LET s == worker[w] IN
    /\ s.at \in Stage
    /\ faults < MaxFaults /\ faults' = faults + 1
    /\ Effect(s.at, s.height, s.work) \/ UNCHANGED database
    /\ failedBlocks' = failedBlocks \cup {s.height}
    /\ worker' = [worker EXCEPT ![w].at = "error"]
    /\ UNCHANGED <<dispatch, errorChan, errors, caller, metrics, stopping>>

(* errorChan <- fmt.Errorf(...), which blocks while the channel is full. *)
SendError(w) ==
    /\ worker[w].at = "error"
    /\ Len(errorChan) < Cardinality(Worker)
    /\ errorChan' = Append(errorChan, worker[w].height)
    /\ worker' = [worker EXCEPT ![w] = Waiting]
    /\ UNCHANGED <<database, dispatch, errors, failedBlocks, caller, metrics, stopping, faults>>

-----------------------------------------------------------------------------
(* The metrics collector *)

(* AddBlockMetrics, under the lock; the last block of a range starts a      *)
(* goroutine that saves the metrics.                                        *)
AddBlockMetrics(w) ==
    LET h == worker[w].height IN
    /\ worker[w].at = "metrics"
    /\ rangeMetrics' = [rangeMetrics EXCEPT ![RangeOf(h)] = @ + 1]
    /\ savers' = IF (h + 1) % RangeInterval = 0 THEN savers + 1 ELSE savers
    /\ worker' = [worker EXCEPT ![w] = Waiting]
    /\ UNCHANGED <<database, dispatch, report, metricsFile, saveFailed, stopping, faults>>

(* saveMetricsInternal holds the read lock while it writes, so that the     *)
(* file gets the counts of one moment.  An error is only logged: the file   *)
(* is as it was, or truncated by os.Create and not filled.                  *)
WriteMetrics ==
    \/ metricsFile' = rangeMetrics /\ UNCHANGED <<saveFailed, faults>>
    \/ /\ faults < MaxFaults /\ faults' = faults + 1
       /\ metricsFile' \in {metricsFile, << >>} /\ saveFailed' = TRUE

SaveMetrics ==
    /\ savers > 0
    /\ savers' = savers - 1
    /\ WriteMetrics
    /\ UNCHANGED <<database, dispatch, worker, report, rangeMetrics, stopping>>

(* Mutant: the metrics are saved before the poller has finished. *)
FinishStopEarly ==
    /\ stopChan /\ ~stopped
    /\ stopped' = TRUE
    /\ WriteMetrics
    /\ UNCHANGED <<database, dispatch, worker, report, rangeMetrics, savers, stopChan>>

(* The end of Indexer.Stop, after i.wg.Wait for the poller. *)
FinishStop ==
    /\ stopChan /\ ~stopped
    /\ caller # "waiting"
    /\ stopped' = TRUE
    /\ WriteMetrics
    /\ UNCHANGED <<database, dispatch, worker, report, rangeMetrics, savers, stopChan>>

-----------------------------------------------------------------------------
(* The collector and the caller *)

(* The channel is closed only by the collector's own defer, so the loop     *)
(* never ends.                                                              *)
CollectError ==
    /\ errorChan # << >>
    /\ errors' = errors \cup {Head(errorChan)}
    /\ errorChan' = Tail(errorChan)
    /\ UNCHANGED <<database, dispatch, worker, failedBlocks, caller, metrics, stopping, faults>>

(* wg.Wait, then len(errors).  Nothing orders that read after the appends   *)
(* of the collector: it may see the slice as it was before any of them.     *)
Return ==
    /\ caller = "waiting"
    /\ \A w \in Worker : worker[w].at = "done"
    /\ \E seen \in {errors, {}} : caller' = IF seen = {} THEN "nil" ELSE "error"
    /\ UNCHANGED <<database, dispatch, worker, errorChan, errors, failedBlocks, metrics, stopping, faults>>

Next ==
    \/ Dispatch \/ CloseBlocks \/ StopRequested
    \/ \E w \in Worker : Receive(w) \/ ProcessStage(w) \/ RetryStage(w) \/ StageFails(w) \/ SendError(w)
                            \/ AddBlockMetrics(w)
    \/ SaveMetrics \/ FinishStop
    \/ CollectError \/ Return

Spec == Init /\ [][Next]_vars

(* Every goroutine runs; a sender blocked on errorChan is served in turn.   *)
(* Nothing makes a stop or a failure happen.                                *)
FairSpec ==
    /\ Spec
    /\ WF_vars(Dispatch) /\ WF_vars(CloseBlocks) /\ WF_vars(CollectError) /\ WF_vars(Return)
    /\ \A w \in Worker : WF_vars(Receive(w) \/ ProcessStage(w) \/ AddBlockMetrics(w)) /\ SF_vars(SendError(w))

-----------------------------------------------------------------------------
(* Properties *)

(* The types of the variables and the capacities of the channels. *)
TypeOK ==
    /\ transaction \in [Tx -> Block \cup {NoBlock}]
    /\ utxo \in [OutPoint -> Row]
    /\ tx_reference \subseteq RefKey
    /\ index_progress \in [height : {0} \cup Heights, hash : Block \cup {NoBlock}]
    /\ nextHeight \in StartHeight..(Len(Chain) + 1)
    /\ blockChan \in Seq(Heights) /\ Len(blockChan) <= 2 * Cardinality(Worker)
    /\ errorChan \in Seq(Heights) /\ Len(errorChan) <= Cardinality(Worker)
    /\ blockClosed \in BOOLEAN /\ stopChan \in BOOLEAN /\ stopped \in BOOLEAN
    /\ rangeMetrics \in [Ranges -> Nat] /\ metricsFile \in [Ranges -> Nat] \cup {<< >>}
    /\ savers \in Nat /\ saveFailed \in BOOLEAN
    /\ worker \in [Worker -> WorkerState]
    /\ errors \subseteq Heights /\ failedBlocks \subseteq Heights
    /\ caller \in {"waiting", "nil", "error"}
    /\ faults \in 0..MaxFaults

(* All transactions of a block are stored and all its outputs have rows. *)
Complete(b) ==
    /\ \A t \in TxsOf[b] : Stored(transaction, t)
    /\ \A o \in OutPoint : Creator[o] \in TxsOf[b] => HasRow(utxo, o)

(* Although a block is not stored atomically, index_progress only ever      *)
(* names a block whose transactions and outputs are all there.              *)
ProgressNamesComplete ==
    index_progress.hash # NoBlock =>
        Complete(index_progress.hash) /\ HeightOf[index_progress.hash] = index_progress.height

(* The order of the five transactions keeps the tables explainable whatever *)
(* stage fails: an output row has its transaction, and a spent row names a  *)
(* stored transaction that really spends it.                                *)
RowsExplained ==
    \A o \in OutPoint :
        /\ HasRow(utxo, o) => Stored(transaction, Creator[o])
        /\ utxo[o].status = "spent" =>
              /\ utxo[o].spentBy \in Tx /\ Stored(transaction, utxo[o].spentBy)
              /\ o \in Vin[utxo[o].spentBy]

(* When ProcessBlocksParallel returns, each height is completely stored,    *)
(* was never dispatched because of a stop, or is in failed_blocks.json.     *)
FailuresOnFile ==
    caller # "waiting" =>
        \A h \in Heights :
            \/ Complete(BlockAt(Chain, h))
            \/ h \in failedBlocks
            \/ h >= nextHeight /\ stopChan

(* When ProcessBlocksParallel returns, the metrics have counted every block *)
(* that was dispatched and did not fail, once and in its range, whoever     *)
(* processed it; and once Stop has returned and no saver is left, the file  *)
(* holds these counts, unless a save has failed.                            *)
MetricsComplete ==
    /\ caller # "waiting" =>
          \A r \in Ranges :
              rangeMetrics[r] =
                  Cardinality({h \in Heights : RangeOf(h) = r /\ h < nextHeight /\ h \notin failedBlocks})
    /\ stopped /\ savers = 0 /\ ~saveFailed => metricsFile = rangeMetrics

(* Whatever fails and whenever it is told to stop, ProcessBlocksParallel    *)
(* returns: no worker stays blocked on a full errorChan.                    *)
Returns == <>(caller # "waiting")

(* The tables as an archive (module Archive). *)
Arch == INSTANCE Archive WITH
        stored <- StoredTxs(transaction),
        outputs <- OutputStates(utxo),
        progress <- index_progress.hash

(* Five transactions per block, those of several workers in any order, some *)
(* repeated and some failed: each is still a step about one block, no       *)
(* output or progress of which is recorded before its transactions are.     *)
ImplementsArchive == Arch!Spec
=============================================================================
