----------------------------- MODULE WorkerPool -----------------------------
(***************************************************************************)
(* The backfill of internal/workers: a goroutine queues the heights of the  *)
(* range, RPC workers fetch and parse blocks, DB workers store them, and    *)
(* ProcessBlocks and processResults both receive from the result channel.   *)
(* Go channels are sequences of at most QueueSize elements with a flag that *)
(* says whether they are closed; receiving from a closed, drained channel   *)
(* of integers yields 0.  One step of the model is one channel operation,   *)
(* one fetch-and-parse or one database transaction.  Workers load an empty  *)
(* watched-script map (updateWatchedScripts), so they build no references.  *)
(***************************************************************************)
EXTENDS IndexStore

CONSTANTS
    RPCWorkers, DBWorkers,  \* goroutines of each kind
    QueueSize,              \* WorkerConfig.QueueSize
    Chain,                  \* the node's chain, which stays as it is
    MaxFaults               \* how many calls fail or time out, and crashes

ASSUME PoolAssumption ==
    /\ RPCWorkers # {} /\ DBWorkers # {}
    /\ IsFiniteSet(RPCWorkers) /\ IsFiniteSet(DBWorkers)
    /\ QueueSize \in Nat \ {0}
    /\ Chain \in Chains /\ Chain # << >>
    /\ MaxFaults \in Nat

VARIABLES
    transaction, utxo, tx_reference, index_progress,    \* the tables
    startHeight,    \* the first height of the range; the last is the tip
    nextHeight,     \* what the queueing goroutine sends next
    heightChan, heightClosed,
    workQueue,
    resultChan, resultClosed,
    rpc,            \* each RPC worker: where it is, its height and its item
    dbw,            \* each DB worker: where it is, its item and its outcome
    caller,         \* the goroutine in ProcessBlocks
    failed,         \* ProcessBlocks has counted a failed block
    settled,        \* heights stored or reported as failed since the pool started
    faults

database == <<transaction, utxo, tx_reference, index_progress>>
heights == <<startHeight, nextHeight, heightChan, heightClosed>>
results == <<resultChan, resultClosed, caller, failed>>
vars == <<database, heights, workQueue, results, rpc, dbw, settled, faults>>

Heights == 1..Len(Chain)
Item == [height : {0} \cup Heights, block : Block, work : Work]
NoItem == [height |-> 0, block |-> Genesis, work |-> NoWork]
RPCState == [at : {"select", "fetch", "send", "dead"}, height : {0} \cup Heights, item : Item]
DBState == [at : {"select", "store", "send", "dead"}, item : Item, success : BOOLEAN]

RPCWorkersAt(place) == [w \in RPCWorkers |-> [at |-> place, height |-> 0, item |-> NoItem]]
DBWorkersAt(place) == [d \in DBWorkers |-> [at |-> place, item |-> NoItem, success |-> FALSE]]

Init ==
    /\ TablesEmpty(transaction, utxo, tx_reference)
    /\ index_progress = [height |-> 0, hash |-> NoBlock]
    /\ startHeight = 1 /\ nextHeight = 1 /\ heightChan = << >> /\ heightClosed = FALSE
    /\ workQueue = << >>
    /\ resultChan = << >> /\ resultClosed = FALSE
    /\ rpc = RPCWorkersAt("select") /\ dbw = DBWorkersAt("select")
    /\ caller = "range" /\ failed = FALSE
    /\ settled = {}
    /\ faults = 0

Fault == faults < MaxFaults /\ faults' = faults + 1

-----------------------------------------------------------------------------
(* The goroutine that queues the heights *)

(* Mutant: the heights are sent from the tip downwards. *)
SendHeightTopDown ==
    /\ nextHeight <= Len(Chain)
    /\ Len(heightChan) < QueueSize
    /\ heightChan' = Append(heightChan, startHeight + Len(Chain) - nextHeight)
    /\ nextHeight' = nextHeight + 1
    /\ UNCHANGED <<database, startHeight, heightClosed, workQueue, results, rpc, dbw, settled, faults>>

(* Mutant: the last height is left out. *)
SendHeightBelowTip ==
    /\ nextHeight < Len(Chain)
    /\ Len(heightChan) < QueueSize
    /\ heightChan' = Append(heightChan, nextHeight)
    /\ nextHeight' = nextHeight + 1
    /\ UNCHANGED <<database, startHeight, heightClosed, workQueue, results, rpc, dbw, settled, faults>>

(* One send of the loop in ProcessBlocks. *)
SendHeight ==
    /\ nextHeight <= Len(Chain)
    /\ Len(heightChan) < QueueSize
    /\ heightChan' = Append(heightChan, nextHeight)
    /\ nextHeight' = nextHeight + 1
    /\ UNCHANGED <<database, startHeight, heightClosed, workQueue, results, rpc, dbw, settled, faults>>

(* defer close(wp.heightChan) *)
CloseHeights ==
    /\ nextHeight > Len(Chain)
    /\ ~heightClosed
    /\ heightClosed' = TRUE
    /\ UNCHANGED <<database, startHeight, nextHeight, heightChan, workQueue, results, rpc, dbw, settled, faults>>

-----------------------------------------------------------------------------
(* RPC workers *)

RPCWaits(w) == rpc' = [rpc EXCEPT ![w] = [at |-> "select", height |-> 0, item |-> NoItem]]

(* case height := <-heightChan: the second result of the receive, which     *)
(* would tell that the channel is closed, is not looked at.                 *)
RPCReceive(w) ==
    /\ rpc[w].at = "select"
    /\ heightChan # << >> \/ heightClosed
    /\ LET h == IF heightChan # << >> THEN Head(heightChan) ELSE 0 IN
         rpc' = [rpc EXCEPT ![w].at = "fetch", ![w].height = h]
    /\ heightChan' = IF heightChan # << >> THEN Tail(heightChan) ELSE << >>
    /\ UNCHANGED <<database, startHeight, nextHeight, heightClosed, workQueue, results, dbw, settled, faults>>

(* GetBlockHash, GetBlock and the parser, which reads the committed rows.   *)
RPCFetch(w) ==
    /\ rpc[w].at = "fetch"
    /\ LET b == BlockAt(Chain, rpc[w].height) IN
         rpc' = [rpc EXCEPT ![w].at = "send",
                   ![w].item = [height |-> rpc[w].height, block |-> b,
                                work |-> ParseBlockWithCache(b, utxo, {})]]
    /\ UNCHANGED <<database, heights, workQueue, results, dbw, settled, faults>>

RPCSend(w) ==
    /\ rpc[w].at = "send"
    /\ Len(workQueue) < QueueSize
    /\ workQueue' = Append(workQueue, rpc[w].item)
    /\ RPCWaits(w)
    /\ UNCHANGED <<database, heights, results, dbw, settled, faults>>

(* Mutant: the block is forgotten without a word. *)
RPCGivesUpSilently(w) ==
    /\ \/ rpc[w].at = "fetch"
       \/ rpc[w].at = "send" /\ Len(workQueue) = QueueSize
    /\ Fault
    /\ RPCWaits(w)
    /\ UNCHANGED <<database, heights, workQueue, results, dbw, settled>>

(* A call fails, or the queue stays full for 30 seconds: the worker logs    *)
(* the height and goes on with the next one.                                *)
RPCGivesUp(w) ==
    /\ \/ rpc[w].at = "fetch"
       \/ rpc[w].at = "send" /\ Len(workQueue) = QueueSize
    /\ Fault
    /\ settled' = settled \cup {rpc[w].height}
    /\ RPCWaits(w)
    /\ UNCHANGED <<database, heights, workQueue, results, dbw>>

-----------------------------------------------------------------------------
(* DB workers *)

DBReceive(d) ==
    /\ dbw[d].at = "select"
    /\ workQueue # << >>
    /\ dbw' = [dbw EXCEPT ![d].at = "store", ![d].item = Head(workQueue)]
    /\ workQueue' = Tail(workQueue)
    /\ UNCHANGED <<database, heights, results, rpc, settled, faults>>

(* The single transaction of processBlockData; the lock on the row of       *)
(* index_progress orders concurrent commits.                                *)
StoreItem(item) ==
    /\ transaction' = BatchStoreTransactions(transaction, item.block)
    /\ utxo' = BulkMarkUTXOsSpent(BulkUpsertUTXOs(utxo, item.work.new, item.block),
                                  item.work.spent, item.block)
    /\ tx_reference' = tx_reference \cup {r.key : r \in item.work.refs}
    /\ index_progress' = [height |-> item.height, hash |-> item.block]

DBStore(d) ==
    /\ dbw[d].at = "store"
    /\ StoreItem(dbw[d].item)
    /\ settled' = settled \cup {dbw[d].item.height}
    /\ dbw' = [dbw EXCEPT ![d].at = "send", ![d].success = TRUE]
    /\ UNCHANGED <<heights, workQueue, results, rpc, faults>>

(* Mutant: the spends are marked outside the transaction. *)
DBStoreFailsMarksKept(d) ==
    /\ dbw[d].at = "store"
    /\ Fault
    /\ utxo' = BulkMarkUTXOsSpent(utxo, dbw[d].item.work.spent, dbw[d].item.block)
    /\ settled' = settled \cup {dbw[d].item.height}
    /\ dbw' = [dbw EXCEPT ![d].at = "send", ![d].success = FALSE]
    /\ UNCHANGED <<transaction, tx_reference, index_progress, heights, workQueue, results, rpc>>

(* The transaction fails and is rolled back, or only its answer is lost.    *)
DBStoreFails(d) ==
    /\ dbw[d].at = "store"
    /\ Fault
    /\ StoreItem(dbw[d].item) \/ UNCHANGED database
    /\ settled' = settled \cup {dbw[d].item.height}
    /\ dbw' = [dbw EXCEPT ![d].at = "send", ![d].success = FALSE]
    /\ UNCHANGED <<heights, workQueue, results, rpc>>

DBWaits(d) == dbw' = [dbw EXCEPT ![d] = [at |-> "select", item |-> NoItem, success |-> FALSE]]

DBSendResult(d) ==
    /\ dbw[d].at = "send"
    /\ Len(resultChan) < QueueSize
    /\ resultChan' = Append(resultChan, dbw[d].success)
    /\ DBWaits(d)
    /\ UNCHANGED <<database, heights, workQueue, resultClosed, caller, failed, rpc, settled, faults>>

(* The result channel stays full for 10 seconds: the result is dropped.     *)
DBDropsResult(d) ==
    /\ dbw[d].at = "send"
    /\ Len(resultChan) = QueueSize
    /\ Fault
    /\ DBWaits(d)
    /\ UNCHANGED <<database, heights, workQueue, results, rpc, settled>>

-----------------------------------------------------------------------------
(* The receivers of results *)

(* for result := range wp.resultChan.  The loop ends when the channel is    *)
(* closed and drained; only the deferred Stop, which runs after the loop,   *)
(* closes it, and Stop panics if heightChan has been closed before.         *)
RangeResults ==
    /\ caller = "range"
    /\ resultChan # << >> \/ resultClosed
    /\ IF resultChan # << >>
       THEN /\ resultChan' = Tail(resultChan)
            /\ failed' = (failed \/ ~Head(resultChan))
            /\ UNCHANGED <<resultClosed, caller>>
       ELSE /\ caller' = IF heightClosed THEN "panic" ELSE "returned"
            /\ resultClosed' = TRUE
            /\ UNCHANGED <<resultChan, failed>>
    /\ UNCHANGED <<database, heights, workQueue, rpc, dbw, settled, faults>>

(* processResults takes results from the same channel for its statistics.   *)
ProcessResults ==
    /\ resultChan # << >>
    /\ resultChan' = Tail(resultChan)
    /\ UNCHANGED <<database, heights, workQueue, resultClosed, caller, failed, rpc, dbw, settled, faults>>

-----------------------------------------------------------------------------
(* Crash and restart *)

(* The process dies: goroutines and channels are gone, the tables stay.     *)
Crash ==
    /\ caller # "down"
    /\ Fault
    /\ caller' = "down"
    /\ nextHeight' = Len(Chain) + 1 /\ heightChan' = << >> /\ heightClosed' = TRUE
    /\ workQueue' = << >> /\ resultChan' = << >>
    /\ rpc' = RPCWorkersAt("dead") /\ dbw' = DBWorkersAt("dead")
    /\ settled' = {}
    /\ UNCHANGED <<database, startHeight, resultClosed, failed>>

(* processBlocks of the new process: a pool from last_height + 1 to the tip *)
(* (ranges of at most 1000 blocks go to the sequential path instead); at    *)
(* the tip there is nothing to do.                                          *)
Restart ==
    /\ caller = "down"
    /\ index_progress.height < Len(Chain)
    /\ caller' = "range" /\ failed' = FALSE /\ resultClosed' = FALSE
    /\ startHeight' = index_progress.height + 1
    /\ nextHeight' = startHeight' /\ heightClosed' = FALSE
    /\ rpc' = RPCWorkersAt("select") /\ dbw' = DBWorkersAt("select")
    /\ UNCHANGED <<database, heightChan, workQueue, resultChan, settled, faults>>

-----------------------------------------------------------------------------

RPCNext(w) == RPCReceive(w) \/ RPCFetch(w) \/ RPCSend(w) \/ RPCGivesUp(w)
DBNext(d) == DBReceive(d) \/ DBStore(d) \/ DBStoreFails(d) \/ DBSendResult(d) \/ DBDropsResult(d)

Next ==
    \/ SendHeight \/ CloseHeights
    \/ \E w \in RPCWorkers : RPCNext(w)
    \/ \E d \in DBWorkers : DBNext(d)
    \/ RangeResults \/ ProcessResults
    \/ Crash \/ Restart

Spec == Init /\ [][Next]_vars

(* Goroutines run when they can.  A goroutine blocked in a channel send is   *)
(* served in its turn (the runtime queues senders), hence strong fairness.   *)
(* A process that died is started again.  Nothing makes a failure happen.    *)
Fairness ==
    /\ WF_vars(SendHeight) /\ WF_vars(CloseHeights)
    /\ WF_vars(RangeResults) /\ WF_vars(ProcessResults) /\ WF_vars(Restart)
    /\ \A w \in RPCWorkers : WF_vars(RPCReceive(w) \/ RPCFetch(w)) /\ SF_vars(RPCSend(w))
    /\ \A d \in DBWorkers : WF_vars(DBReceive(d) \/ DBStore(d)) /\ SF_vars(DBSendResult(d))

FairSpec == Spec /\ Fairness

-----------------------------------------------------------------------------
(* Properties *)

(* The types of all variables, and the capacities of the three channels. *)
TypeOK ==
    /\ transaction \in [Tx -> Block \cup {NoBlock}]
    /\ utxo \in [OutPoint -> Row]
    /\ tx_reference \subseteq RefKey
    /\ index_progress \in [height : {0} \cup Heights, hash : Block \cup {NoBlock}]
    /\ startHeight \in Heights /\ nextHeight \in startHeight..(Len(Chain) + 1)
    /\ heightChan \in Seq(Heights) /\ Len(heightChan) <= QueueSize
    /\ workQueue \in Seq(Item) /\ Len(workQueue) <= QueueSize
    /\ resultChan \in Seq(BOOLEAN) /\ Len(resultChan) <= QueueSize
    /\ heightClosed \in BOOLEAN /\ resultClosed \in BOOLEAN /\ failed \in BOOLEAN
    /\ rpc \in [RPCWorkers -> RPCState]
    /\ dbw \in [DBWorkers -> DBState]
    /\ caller \in {"range", "returned", "panic", "down"}
    /\ settled \subseteq {0} \cup Heights
    /\ faults \in 0..MaxFaults

IndexedAt(h) == Indexed(transaction, BlockAt(Chain, h))

(* Where the pool holds height h: unsent, in a channel or with a worker. *)
Holders(h) ==
    {<<"sender", 0>> : x \in {0} \cap {IF h >= nextHeight THEN 0 ELSE 1}}
    \cup {<<"heightChan", i>> : i \in {j \in DOMAIN heightChan : heightChan[j] = h}}
    \cup {<<"rpc", w>> : w \in {v \in RPCWorkers : rpc[v].at # "select" /\ rpc[v].height = h}}
    \cup {<<"workQueue", i>> : i \in {j \in DOMAIN workQueue : workQueue[j].height = h}}
    \cup {<<"db", d>> : d \in {e \in DBWorkers : dbw[e].at = "store" /\ dbw[e].item.height = h}}

(* A height of the range is never lost and never handled twice: exactly one *)
(* goroutine or channel holds it until its block is stored or its failure   *)
(* has been logged, whatever fails, times out or overtakes what, and again  *)
(* after a restart.                                                         *)
HeightInOnePlace ==
    caller = "range" =>
        \A h \in startHeight..Len(Chain) :
            IF h \in settled THEN Holders(h) = {} ELSE Cardinality(Holders(h)) = 1

(* DB workers write index_progress in the order in which they finish, so    *)
(* blocks below it may be missing.  Those are blocks a worker or the work   *)
(* queue holds, never heights still to be fetched: a crash, after which the *)
(* pool resumes above them, loses less than one block per worker and place. *)
GapInFlight ==
    LET gap == {h \in startHeight..index_progress.height : h \notin settled} IN
    caller = "range" =>
        /\ \A h \in gap : \E place \in Holders(h) : place[1] \in {"rpc", "workQueue", "db"}
        /\ Cardinality(gap) < Cardinality(RPCWorkers) + QueueSize + Cardinality(DBWorkers)
        /\ index_progress.hash # NoBlock =>
              /\ Indexed(transaction, index_progress.hash)
              /\ HeightOf[index_progress.hash] = index_progress.height

(* With any number of DB workers, some of them storing the same block 0     *)
(* again and again, a block is stored completely or not at all.             *)
BlockAtomic == TablesAtomic(transaction, utxo)

(* However workers overtake each other, an output is marked spent only when *)
(* a transaction that spends it is stored.                                  *)
SpentOnEvidence == SpendsEvidenced(transaction, utxo)

(* The tables as an archive (module Archive). *)
Arch == INSTANCE Archive WITH
        stored <- StoredTxs(transaction),
        outputs <- OutputStates(utxo),
        progress <- index_progress.hash

(* With workers that parse from stale rows, overtake each other, fail    *)
(* half-way and lose answers, every step a reader can see still records one *)
(* block whose transactions are all there, and nothing of another one.      *)
ImplementsArchive == Arch!Spec

(* Every block of the range is eventually stored or its failure logged,     *)
(* even though the workers keep flooding the queues with block 0, and a     *)
(* restarted pool settles the range it started with.                        *)
RangeSettled == <>[](caller = "range" => \A h \in startHeight..Len(Chain) : h \in settled)

(* worker_pool.go:166 announces the end of the backfill: ProcessBlocks      *)
(* must return once the range has been processed.                           *)
BackfillReturns == <>(caller = "returned")

=============================================================================
