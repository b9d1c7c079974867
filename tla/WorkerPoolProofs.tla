-------------------------- MODULE WorkerPoolProofs --------------------------
(***************************************************************************)
(* The worker pool with any number of goroutines, any queue size, any chain *)
(* and any number of faults.                                                *)
(***************************************************************************)
EXTENDS WorkerPool, IndexStoreProofs, FunctionTheorems, FiniteSetTheorems, SequenceTheorems

(* What an RPC worker puts into an item: the block of the height and what   *)
(* the parser made of it.                                                   *)
ItemOK(i) ==
    /\ i \in Item
    /\ i.block = BlockAt(Chain, i.height)
    /\ i.work.new = {o \in OutPoint : Creator[o] \in TxsOf[i.block]}
    /\ i.work.spent \subseteq InputsOf(i.block)

(* Wherever an item travels, it is what was fetched and parsed.             *)
ItemsInv ==
    /\ \A w \in RPCWorkers : rpc[w].at = "send" => ItemOK(rpc[w].item) /\ rpc[w].item.height = rpc[w].height
    /\ \A i \in 1..Len(workQueue) : ItemOK(workQueue[i])
    /\ \A d \in DBWorkers : dbw[d].at = "store" => ItemOK(dbw[d].item)

(* The tables, and the block the progress row names.                        *)
StoreInv ==
    /\ BlockAtomic
    /\ RowsNameHolder(transaction)
    /\ SpentOnEvidence
    /\ index_progress.hash # NoBlock =>
          /\ Indexed(transaction, index_progress.hash)
          /\ HeightOf[index_progress.hash] = index_progress.height

TablesType ==
    /\ transaction \in [Tx -> Block \cup {NoBlock}]
    /\ utxo \in [OutPoint -> Row]
    /\ tx_reference \subseteq RefKey
    /\ index_progress \in [height : {0} \cup Heights, hash : Block \cup {NoBlock}]

ChannelsType ==
    /\ startHeight \in Heights /\ nextHeight \in startHeight..(Len(Chain) + 1)
    /\ heightChan \in Seq(Heights) /\ Len(heightChan) <= QueueSize
    /\ workQueue \in Seq(Item) /\ Len(workQueue) <= QueueSize
    /\ resultChan \in Seq(BOOLEAN) /\ Len(resultChan) <= QueueSize
    /\ heightClosed \in BOOLEAN /\ resultClosed \in BOOLEAN /\ failed \in BOOLEAN

WorkersType ==
    /\ rpc \in [RPCWorkers -> RPCState]
    /\ dbw \in [DBWorkers -> DBState]
    /\ caller \in {"range", "returned", "panic", "down"}
    /\ settled \subseteq {0} \cup Heights
    /\ faults \in 0..MaxFaults

(* The first height no RPC worker has received. *)
Unfetched == nextHeight - Len(heightChan)

(* The channel holds consecutive heights, in ascending order, and the       *)
(* progress row names nothing that has not been received from it.           *)
FetchOrder ==
    /\ startHeight <= Unfetched
    /\ \A i \in 1..Len(heightChan) : heightChan[i] = Unfetched + i - 1
    /\ index_progress.height < Unfetched

(* Height h is with an RPC worker, in the work queue, with a DB worker.     *)
WithRPC(w, h) == rpc[w].at # "select" /\ rpc[w].height = h
InQueue(i, h) == workQueue[i].height = h
WithDB(d, h) == dbw[d].at = "store" /\ dbw[d].item.height = h
Carried(h) ==
    \/ \E w \in RPCWorkers : WithRPC(w, h)
    \/ \E i \in 1..Len(workQueue) : InQueue(i, h)
    \/ \E d \in DBWorkers : WithDB(d, h)

(* At most one goroutine or queue place carries height h. *)
CarriedOnce(h) ==
    /\ \A v, w \in RPCWorkers : WithRPC(v, h) /\ WithRPC(w, h) => v = w
    /\ \A i, j \in 1..Len(workQueue) : InQueue(i, h) /\ InQueue(j, h) => i = j
    /\ \A d, e \in DBWorkers : WithDB(d, h) /\ WithDB(e, h) => d = e
    /\ \A w \in RPCWorkers, i \in 1..Len(workQueue) : ~(WithRPC(w, h) /\ InQueue(i, h))
    /\ \A w \in RPCWorkers, d \in DBWorkers : ~(WithRPC(w, h) /\ WithDB(d, h))
    /\ \A i \in 1..Len(workQueue), d \in DBWorkers : ~(InQueue(i, h) /\ WithDB(d, h))

(* Once received, a height is carried until it is settled. *)
Placed(h) ==
    /\ CarriedOnce(h)
    /\ Carried(h) <=> h < Unfetched /\ h \notin settled
    /\ h \in settled => h < Unfetched

Gap == {h \in startHeight..index_progress.height : h \notin settled}
GapBound == Cardinality(RPCWorkers) + QueueSize + Cardinality(DBWorkers)

RangeInv ==
    caller = "range" =>
        /\ FetchOrder
        /\ \A h \in startHeight..Len(Chain) : Placed(h)
        /\ Cardinality(Gap) < GapBound

(* A dead process has no goroutines and no channels. *)
DownInv ==
    caller = "down" =>
        /\ heightChan = << >> /\ workQueue = << >> /\ settled = {}
        /\ nextHeight = Len(Chain) + 1
        /\ \A w \in RPCWorkers : rpc[w].at = "dead"
        /\ \A d \in DBWorkers : dbw[d].at = "dead"

WInv == TypeOK /\ ItemsInv /\ StoreInv /\ DownInv /\ RangeInv

(* The three parts of TypeOK. *)
LEMMA TypeParts == TypeOK <=> TablesType /\ ChannelsType /\ WorkersType
BY DEF TypeOK, TablesType, ChannelsType, WorkersType

(* The chain of the node: a block of the right height at every height.      *)
LEMMA ChainFacts ==
    /\ Len(Chain) \in Nat /\ Len(Chain) >= 1
    /\ \A h \in {0} \cup Heights : BlockAt(Chain, h) \in Block /\ HeightOf[BlockAt(Chain, h)] = h
<1>1. Chain \in Seq(Block) /\ Chain # << >> /\ Chain \in Chains
  BY PoolAssumption, ChainsAssumption
<1>2. Len(Chain) \in Nat /\ Len(Chain) >= 1 /\ Chain \in [1..Len(Chain) -> Block]
  BY <1>1
<1>3. ASSUME NEW h \in {0} \cup Heights
      PROVE  BlockAt(Chain, h) \in Block /\ HeightOf[BlockAt(Chain, h)] = h
  <2>1. CASE h = 0
    BY <2>1, DataAssumption DEF BlockAt
  <2>2. CASE h \in Heights /\ h # 0
    BY <1>1, <1>2, <2>2, ChainsAssumption DEF BlockAt, Heights
  <2> QED BY <1>2, <2>1, <2>2 DEF Heights
<1> QED BY <1>2, <1>3

(* An RPC worker that waits, and a DB worker that waits, have no item.      *)
LEMMA IdleWorkers ==
    /\ NoItem \in Item
    /\ \A at \in {"select", "dead"} : RPCWorkersAt(at) \in [RPCWorkers -> RPCState]
    /\ \A at \in {"select", "dead"} : DBWorkersAt(at) \in [DBWorkers -> DBState]
<1>1. NoWork \in Work
  BY DEF NoWork, Work
<1>2. NoItem \in Item
  BY <1>1, DataAssumption DEF NoItem, Item
<1> QED BY <1>2 DEF RPCWorkersAt, DBWorkersAt, RPCState, DBState

(* What is fetched and parsed is a proper item.                             *)
LEMMA FetchedItem ==
    ASSUME TablesType, NEW h \in {0} \cup Heights, NEW i,
           i = [height |-> h, block |-> BlockAt(Chain, h),
                work |-> ParseBlockWithCache(BlockAt(Chain, h), utxo, {})]
    PROVE  ItemOK(i) /\ i.height = h
<1>1. BlockAt(Chain, h) \in Block
  BY ChainFacts
<1> DEFINE b == BlockAt(Chain, h)
           k == ParseBlockWithCache(b, utxo, {})
<1>2. /\ k \in Work
      /\ k.new = {o \in OutPoint : Creator[o] \in TxsOf[b]}
      /\ k.spent \subseteq InputsOf(b)
  <2>1. {} \in SUBSET Script /\ utxo \in [OutPoint -> Row]
    BY DEF TablesType
  <2> QED BY <1>1, <2>1, ParseResult
<1> HIDE DEF b, k
<1>3. i = [height |-> h, block |-> b, work |-> k] /\ b \in Block
  BY <1>1 DEF b, k
<1>4. i.block = BlockAt(Chain, i.height)
  BY <1>3 DEF b
<1> QED BY <1>2, <1>3, <1>4 DEF ItemOK, Item

(* The one database transaction of a DB worker. *)
LEMMA StoreItemKeeps ==
    ASSUME TablesType, StoreInv, NEW i, ItemOK(i), StoreItem(i)
    PROVE  TablesType' /\ StoreInv' /\ index_progress'.height = i.height
<1> DEFINE b == i.block
           N == i.work.new
           S == i.work.spent
<1>1. /\ i.height \in {0} \cup Heights /\ b \in Block /\ i.work \in Work
      /\ HeightOf[b] = i.height
  <2>1. i.height \in {0} \cup Heights /\ b \in Block /\ i.work \in Work /\ b = BlockAt(Chain, i.height)
    BY DEF ItemOK, Item
  <2> QED BY <2>1, ChainFacts
<1>2. /\ transaction' = BatchStoreTransactions(transaction, b)
      /\ utxo' = BulkMarkUTXOsSpent(BulkUpsertUTXOs(utxo, N, b), S, b)
      /\ tx_reference' = tx_reference \cup {r.key : r \in i.work.refs}
      /\ index_progress' = [height |-> i.height, hash |-> b]
  BY DEF StoreItem
<1>3. /\ N = {o \in OutPoint : Creator[o] \in TxsOf[b]} /\ N \in SUBSET OutPoint
      /\ S \in SUBSET InputsOf(b)
      /\ i.work.refs \subseteq Ref
  BY <1>1 DEF ItemOK, Work
<1>4. /\ transaction \in [Tx -> Block \cup {NoBlock}] /\ utxo \in [OutPoint -> Row]
      /\ tx_reference \subseteq RefKey
  BY DEF TablesType
<1>5. TablesAtomic(transaction, utxo) /\ RowsNameHolder(transaction) /\ SpendsEvidenced(transaction, utxo)
  BY DEF StoreInv, BlockAtomic, SpentOnEvidence
<1> HIDE DEF b, N, S
<1>6. transaction' \in [Tx -> Block \cup {NoBlock}]
  BY <1>1, <1>2, <1>4, StoreTransactions
<1>7. utxo' \in [OutPoint -> Row]
  BY <1>1, <1>2, <1>3, <1>4, StoreOutputs
<1>8. tx_reference' \subseteq RefKey
  BY <1>2, <1>3, <1>4 DEF Ref
<1>9. TablesType'
  BY <1>1, <1>2, <1>6, <1>7, <1>8 DEF TablesType, Heights
<1>10. /\ TablesAtomic(transaction', utxo') /\ RowsNameHolder(transaction')
       /\ Indexed(transaction', b)
  BY <1>1, <1>2, <1>3, <1>4, <1>5, StoreKeepsAtomic
<1>11. SpendsEvidenced(transaction', utxo')
  BY <1>1, <1>2, <1>3, <1>4, <1>5, StoreKeepsEvidence
<1> QED BY <1>1, <1>2, <1>9, <1>10, <1>11 DEF StoreInv, BlockAtomic, SpentOnEvidence
(* An RPC worker moves on, the others stay.                                 *)
LEMMA RPCUpdate ==
    ASSUME WorkersType, NEW w \in RPCWorkers, NEW s \in RPCState, rpc' = [rpc EXCEPT ![w] = s]
    PROVE  /\ rpc' \in [RPCWorkers -> RPCState]
           /\ rpc'[w] = s
           /\ \A v \in RPCWorkers : v # w => rpc'[v] = rpc[v]
BY DEF WorkersType

(* The same for a DB worker. *)
LEMMA DBUpdate ==
    ASSUME WorkersType, NEW d \in DBWorkers, NEW s \in DBState, dbw' = [dbw EXCEPT ![d] = s]
    PROVE  /\ dbw' \in [DBWorkers -> DBState]
           /\ dbw'[d] = s
           /\ \A e \in DBWorkers : e # d => dbw'[e] = dbw[e]
BY DEF WorkersType

(* What the steps of the workers do to the worker that takes them. *)
LEMMA RPCReceiveEffect ==
    ASSUME ChannelsType, WorkersType, NEW w \in RPCWorkers, RPCReceive(w)
    PROVE  \E s \in RPCState :
              /\ rpc' = [rpc EXCEPT ![w] = s] /\ s.at = "fetch"
              /\ \/ heightChan # << >> /\ s.height = Head(heightChan) /\ heightChan' = Tail(heightChan)
                 \/ heightChan = << >> /\ s.height = 0 /\ heightChan' = << >>
<1> DEFINE h == IF heightChan # << >> THEN Head(heightChan) ELSE 0
           s == [rpc[w] EXCEPT !.at = "fetch", !.height = h]
<1>1. h \in {0} \cup Heights
  BY DEF ChannelsType
<1>2. rpc[w] \in RPCState
  BY DEF WorkersType
<1>3. rpc' = [rpc EXCEPT ![w].at = "fetch", ![w].height = h]
  BY DEF RPCReceive
<1>4. heightChan' = IF heightChan # << >> THEN Tail(heightChan) ELSE << >>
  BY DEF RPCReceive
<1>5. h = IF heightChan # << >> THEN Head(heightChan) ELSE 0
  OBVIOUS
<1> HIDE DEF h
<1>6. rpc' = [rpc EXCEPT ![w] = s]
  BY <1>3 DEF WorkersType, RPCState
<1>7. s \in RPCState /\ s.at = "fetch" /\ s.height = h
  BY <1>1, <1>2 DEF RPCState
<1> HIDE DEF s
<1> QED BY <1>4, <1>5, <1>6, <1>7

(* rpcWorker's fetch and parse leave the worker about to send an item that is the
   parse of the block of the height it holds. *)
LEMMA RPCFetchEffect ==
    ASSUME TablesType, WorkersType, NEW w \in RPCWorkers, RPCFetch(w)
    PROVE  \E s \in RPCState :
              /\ rpc' = [rpc EXCEPT ![w] = s] /\ s.at = "send" /\ s.height = rpc[w].height
              /\ ItemOK(s.item) /\ s.item.height = s.height
<1> DEFINE h == rpc[w].height
           i == [height |-> h, block |-> BlockAt(Chain, h),
                 work |-> ParseBlockWithCache(BlockAt(Chain, h), utxo, {})]
           s == [rpc[w] EXCEPT !.at = "send", !.item = i]
<1>1. rpc[w] \in RPCState /\ h \in {0} \cup Heights
  BY DEF WorkersType, RPCState
<1>2. ItemOK(i) /\ i.height = h
  BY <1>1, FetchedItem
<1>3. rpc' = [rpc EXCEPT ![w].at = "send", ![w].item = i]
  BY DEF RPCFetch
<1>4. i \in Item
  BY <1>2 DEF ItemOK
<1> HIDE DEF i
<1>5. rpc' = [rpc EXCEPT ![w] = s]
  BY <1>3 DEF WorkersType, RPCState
<1>6. s \in RPCState /\ s.at = "send" /\ s.height = rpc[w].height /\ s.item = i
  BY <1>1, <1>4 DEF RPCState
<1> HIDE DEF s
<1> QED BY <1>2, <1>5, <1>6

(* A worker that has sent or dropped its item waits for a height again, with empty
   hands. *)
LEMMA RPCWaitsEffect ==
    ASSUME WorkersType, NEW w \in RPCWorkers, RPCWaits(w)
    PROVE  \E s \in RPCState : rpc' = [rpc EXCEPT ![w] = s] /\ s.at = "select" /\ s.height = 0
<1> DEFINE s == [at |-> "select", height |-> 0, item |-> NoItem]
<1>1. s \in RPCState /\ s.at = "select" /\ s.height = 0
  BY IdleWorkers DEF RPCState
<1>2. rpc' = [rpc EXCEPT ![w] = s]
  BY DEF RPCWaits
<1> HIDE DEF s
<1> QED BY <1>1, <1>2

(* dbWorker's receive hands the worker the head of workQueue. *)
LEMMA DBReceiveEffect ==
    ASSUME ChannelsType, WorkersType, NEW d \in DBWorkers, DBReceive(d)
    PROVE  \E s \in DBState : /\ dbw' = [dbw EXCEPT ![d] = s]
                              /\ s.at = "store" /\ s.item = Head(workQueue)
<1> DEFINE s == [dbw[d] EXCEPT !.at = "store", !.item = Head(workQueue)]
<1>1. dbw[d] \in DBState /\ Head(workQueue) \in Item
  BY DEF WorkersType, ChannelsType, DBReceive
<1>2. dbw' = [dbw EXCEPT ![d] = s]
  BY DEF DBReceive, WorkersType, DBState
<1>3. s \in DBState /\ s.at = "store" /\ s.item = Head(workQueue)
  BY <1>1 DEF DBState
<1> HIDE DEF s
<1> QED BY <1>2, <1>3

(* The transaction of a DB worker, committed or failed, leaves the worker about to
   send its result. *)
LEMMA DBStoredEffect ==
    ASSUME WorkersType, NEW d \in DBWorkers, NEW ok \in BOOLEAN,
           dbw' = [dbw EXCEPT ![d].at = "send", ![d].success = ok]
    PROVE  \E s \in DBState : dbw' = [dbw EXCEPT ![d] = s] /\ s.at = "send"
<1> DEFINE s == [dbw[d] EXCEPT !.at = "send", !.success = ok]
<1>1. dbw[d] \in DBState
  BY DEF WorkersType
<1>2. dbw' = [dbw EXCEPT ![d] = s]
  BY DEF WorkersType, DBState
<1>3. s \in DBState /\ s.at = "send"
  BY <1>1 DEF DBState
<1> HIDE DEF s
<1> QED BY <1>2, <1>3

(* A DB worker that has sent or dropped its result waits for an item again. *)
LEMMA DBWaitsEffect ==
    ASSUME WorkersType, NEW d \in DBWorkers, DBWaits(d)
    PROVE  \E s \in DBState : dbw' = [dbw EXCEPT ![d] = s] /\ s.at = "select"
<1> DEFINE s == [at |-> "select", item |-> NoItem, success |-> FALSE]
<1>1. s \in DBState /\ s.at = "select"
  BY IdleWorkers DEF DBState
<1>2. dbw' = [dbw EXCEPT ![d] = s]
  BY DEF DBWaits
<1> HIDE DEF s
<1> QED BY <1>1, <1>2
-----------------------------------------------------------------------------
(* Types, items and tables *)

(* Every step keeps the types, the items and the tables. *)
LEMMA NextBase ==
    ASSUME TypeOK, ItemsInv, StoreInv, [Next]_vars
    PROVE  TypeOK' /\ ItemsInv' /\ StoreInv'
<1>1. TablesType /\ ChannelsType /\ WorkersType
  BY TypeParts
<1>2. SUFFICES TablesType' /\ ChannelsType' /\ WorkersType' /\ ItemsInv' /\ StoreInv'
  BY DEF TypeOK, TablesType, ChannelsType, WorkersType
<1>3. ASSUME UNCHANGED database
      PROVE  TablesType' /\ StoreInv'
  <2>1. UNCHANGED <<transaction, utxo, tx_reference, index_progress>>
    BY <1>3 DEF database
  <2> QED BY <1>1, <2>1 DEF TablesType, StoreInv, BlockAtomic, SpentOnEvidence, TablesAtomic,
                            RowsNameHolder, SpendsEvidenced, Indexed, Stored, HasRow, Heights
<1>4. ASSUME UNCHANGED <<workQueue, rpc, dbw>>
      PROVE  ItemsInv'
  BY <1>4 DEF ItemsInv
<1>5. Len(Chain) \in Nat /\ Len(Chain) >= 1 /\ QueueSize \in Nat /\ QueueSize >= 1
  BY ChainFacts, PoolAssumption
<1>6. CASE SendHeight
  <2>1. nextHeight \in Heights /\ startHeight \in Nat
    BY <1>1, <1>5, <1>6 DEF SendHeight, ChannelsType, Heights
  <2>2. heightChan' \in Seq(Heights) /\ Len(heightChan') = Len(heightChan) + 1
    BY <1>1, <1>6, <2>1 DEF SendHeight, ChannelsType
  <2>3. Len(heightChan') <= QueueSize
    BY <1>1, <1>5, <1>6, <2>2 DEF SendHeight, ChannelsType
  <2>4. nextHeight' \in startHeight..(Len(Chain) + 1)
    BY <1>1, <1>5, <1>6, <2>1 DEF SendHeight, ChannelsType, Heights
  <2>5. ChannelsType'
    BY <1>1, <1>6, <2>2, <2>3, <2>4 DEF SendHeight, ChannelsType, results, Heights
  <2> QED BY <1>1, <1>3, <1>4, <1>6, <2>5 DEF SendHeight, results, WorkersType
<1>7. CASE CloseHeights
  BY <1>1, <1>3, <1>4, <1>7 DEF CloseHeights, results, ChannelsType, WorkersType
<1>8. ASSUME NEW w \in RPCWorkers, RPCReceive(w)
      PROVE  TablesType' /\ ChannelsType' /\ WorkersType' /\ ItemsInv' /\ StoreInv'
  <2>1. PICK s \in RPCState :
              /\ rpc' = [rpc EXCEPT ![w] = s] /\ s.at = "fetch"
              /\ \/ heightChan # << >> /\ s.height = Head(heightChan) /\ heightChan' = Tail(heightChan)
                 \/ heightChan = << >> /\ s.height = 0 /\ heightChan' = << >>
    BY <1>1, <1>8, RPCReceiveEffect
  <2>2. heightChan' \in Seq(Heights) /\ Len(heightChan') <= QueueSize
    <3>1. heightChan \in Seq(Heights) /\ Len(heightChan) <= QueueSize
      BY <1>1 DEF ChannelsType
    <3>2. CASE heightChan # << >> /\ heightChan' = Tail(heightChan)
      BY <1>5, <3>1, <3>2
    <3>3. CASE heightChan' = << >>
      BY <1>5, <3>3
    <3> QED BY <2>1, <3>2, <3>3
  <2>3. ChannelsType'
    BY <1>1, <1>8, <2>2 DEF RPCReceive, ChannelsType, results
  <2>4. WorkersType' /\ ItemsInv'
    BY <1>1, <1>8, <2>1, RPCUpdate DEF RPCReceive, WorkersType, results, ItemsInv
  <2> QED BY <1>3, <1>8, <2>3, <2>4 DEF RPCReceive
<1>9. ASSUME NEW w \in RPCWorkers, RPCFetch(w)
      PROVE  TablesType' /\ ChannelsType' /\ WorkersType' /\ ItemsInv' /\ StoreInv'
  <2>1. PICK s \in RPCState :
              /\ rpc' = [rpc EXCEPT ![w] = s] /\ s.at = "send" /\ s.height = rpc[w].height
              /\ ItemOK(s.item) /\ s.item.height = s.height
    BY <1>1, <1>9, RPCFetchEffect
  <2>2. ChannelsType'
    BY <1>1, <1>9 DEF RPCFetch, ChannelsType, results, heights
  <2>3. WorkersType' /\ ItemsInv'
    BY <1>1, <1>9, <2>1, RPCUpdate DEF RPCFetch, WorkersType, results, ItemsInv
  <2> QED BY <1>3, <1>9, <2>2, <2>3 DEF RPCFetch
<1>10. ASSUME NEW w \in RPCWorkers, RPCSend(w)
       PROVE  TablesType' /\ ChannelsType' /\ WorkersType' /\ ItemsInv' /\ StoreInv'
  <2>1. PICK s \in RPCState : rpc' = [rpc EXCEPT ![w] = s] /\ s.at = "select" /\ s.height = 0
    BY <1>1, <1>10, RPCWaitsEffect DEF RPCSend
  <2>2. ItemOK(rpc[w].item) /\ rpc[w].item \in Item
    BY <1>10 DEF RPCSend, ItemsInv, ItemOK
  <2>3. /\ workQueue' \in Seq(Item) /\ Len(workQueue') = Len(workQueue) + 1
        /\ \A i \in 1..Len(workQueue) : workQueue'[i] = workQueue[i]
        /\ workQueue'[Len(workQueue) + 1] = rpc[w].item
    BY <1>1, <1>10, <2>2 DEF RPCSend, ChannelsType
  <2>4. ChannelsType'
    BY <1>1, <1>5, <1>10, <2>3 DEF RPCSend, ChannelsType, results, heights
  <2>5. \A i \in 1..Len(workQueue') : ItemOK(workQueue'[i])
    BY <1>1, <2>2, <2>3 DEF ItemsInv, ChannelsType
  <2>6. WorkersType' /\ ItemsInv'
    BY <1>1, <1>10, <2>1, <2>5, RPCUpdate DEF RPCSend, WorkersType, results, ItemsInv
  <2> QED BY <1>3, <1>10, <2>4, <2>6 DEF RPCSend
<1>11. ASSUME NEW w \in RPCWorkers, RPCGivesUp(w)
       PROVE  TablesType' /\ ChannelsType' /\ WorkersType' /\ ItemsInv' /\ StoreInv'
  <2>1. PICK s \in RPCState : rpc' = [rpc EXCEPT ![w] = s] /\ s.at = "select" /\ s.height = 0
    BY <1>1, <1>11, RPCWaitsEffect DEF RPCGivesUp
  <2>2. ChannelsType'
    BY <1>1, <1>11 DEF RPCGivesUp, ChannelsType, results, heights
  <2>3. settled' \subseteq {0} \cup Heights
    BY <1>1, <1>11 DEF RPCGivesUp, WorkersType, RPCState
  <2>4. faults' \in 0..MaxFaults
    BY <1>1, <1>11, PoolAssumption DEF RPCGivesUp, Fault, WorkersType
  <2>5. WorkersType' /\ ItemsInv'
    BY <1>1, <1>11, <2>1, <2>3, <2>4, RPCUpdate DEF RPCGivesUp, WorkersType, results, ItemsInv
  <2> QED BY <1>3, <1>11, <2>2, <2>5 DEF RPCGivesUp
<1>12. ASSUME NEW d \in DBWorkers, DBReceive(d)
       PROVE  TablesType' /\ ChannelsType' /\ WorkersType' /\ ItemsInv' /\ StoreInv'
  <2>1. PICK s \in DBState : dbw' = [dbw EXCEPT ![d] = s] /\ s.at = "store" /\ s.item = Head(workQueue)
    BY <1>1, <1>12, DBReceiveEffect
  <2>2. /\ workQueue' \in Seq(Item) /\ Len(workQueue') = Len(workQueue) - 1 /\ Len(workQueue) >= 1
        /\ \A i \in 1..Len(workQueue') : workQueue'[i] = workQueue[i + 1]
        /\ Head(workQueue) = workQueue[1]
    BY <1>1, <1>12 DEF DBReceive, ChannelsType
  <2>3. ChannelsType'
    BY <1>1, <1>5, <1>12, <2>2 DEF DBReceive, ChannelsType, results, heights
  <2>4. ItemOK(Head(workQueue)) /\ \A i \in 1..Len(workQueue') : ItemOK(workQueue'[i])
    BY <1>1, <2>2 DEF ItemsInv, ChannelsType
  <2>5. WorkersType' /\ ItemsInv'
    BY <1>1, <1>12, <2>1, <2>4, DBUpdate DEF DBReceive, WorkersType, results, ItemsInv
  <2> QED BY <1>3, <1>12, <2>3, <2>5 DEF DBReceive
<1>13. ASSUME NEW d \in DBWorkers, DBStore(d) \/ DBStoreFails(d)
       PROVE  TablesType' /\ ChannelsType' /\ WorkersType' /\ ItemsInv' /\ StoreInv'
  <2>1. PICK s \in DBState : dbw' = [dbw EXCEPT ![d] = s] /\ s.at = "send"
    BY <1>1, <1>13, DBStoredEffect DEF DBStore, DBStoreFails
  <2>2. ItemOK(dbw[d].item)
    BY <1>13 DEF DBStore, DBStoreFails, ItemsInv
  <2>3. TablesType' /\ StoreInv'
    BY <1>1, <1>3, <1>13, <2>2, StoreItemKeeps DEF DBStore, DBStoreFails
  <2>4. ChannelsType'
    BY <1>1, <1>13 DEF DBStore, DBStoreFails, ChannelsType, results, heights
  <2>5. settled' \subseteq {0} \cup Heights
    BY <1>1, <1>13, <2>2 DEF DBStore, DBStoreFails, WorkersType, ItemOK, Item
  <2>6. faults' \in 0..MaxFaults
    BY <1>1, <1>13, PoolAssumption DEF DBStore, DBStoreFails, Fault, WorkersType
  <2>7. WorkersType' /\ ItemsInv'
    BY <1>1, <1>13, <2>1, <2>5, <2>6, DBUpdate DEF DBStore, DBStoreFails, WorkersType, results, ItemsInv
  <2> QED BY <2>3, <2>4, <2>7
<1>14. ASSUME NEW d \in DBWorkers, DBSendResult(d) \/ DBDropsResult(d)
       PROVE  TablesType' /\ ChannelsType' /\ WorkersType' /\ ItemsInv' /\ StoreInv'
  <2>1. PICK s \in DBState : dbw' = [dbw EXCEPT ![d] = s] /\ s.at = "select"
    BY <1>1, <1>14, DBWaitsEffect DEF DBSendResult, DBDropsResult
  <2>2. dbw[d].success \in BOOLEAN
    BY <1>1 DEF WorkersType, DBState
  <2>3. resultChan' \in Seq(BOOLEAN) /\ Len(resultChan') <= QueueSize
    <3>1. resultChan \in Seq(BOOLEAN) /\ Len(resultChan) <= QueueSize /\ Len(resultChan) \in Nat
      BY <1>1, LenProperties DEF ChannelsType
    <3>2. CASE DBSendResult(d)
      <4>1. resultChan' = Append(resultChan, dbw[d].success) /\ Len(resultChan) < QueueSize
        BY <3>2 DEF DBSendResult
      <4>2. resultChan' \in Seq(BOOLEAN) /\ Len(resultChan') = Len(resultChan) + 1
        BY <2>2, <3>1, <4>1, AppendProperties
      <4> QED BY <1>5, <3>1, <4>1, <4>2
    <3>3. CASE DBDropsResult(d)
      BY <3>1, <3>3 DEF DBDropsResult, results
    <3> QED BY <1>14, <3>2, <3>3
  <2>4. ChannelsType'
    BY <1>1, <1>14, <2>3 DEF DBSendResult, DBDropsResult, ChannelsType, results, heights
  <2>5. faults' \in 0..MaxFaults
    BY <1>1, <1>14, PoolAssumption DEF DBSendResult, DBDropsResult, Fault, WorkersType
  <2>6. WorkersType' /\ ItemsInv'
    BY <1>1, <1>14, <2>1, <2>5, DBUpdate DEF DBSendResult, DBDropsResult, WorkersType, results, ItemsInv
  <2> QED BY <1>3, <1>14, <2>4, <2>6 DEF DBSendResult, DBDropsResult
<1>15. CASE RangeResults \/ ProcessResults
  <2>1. resultChan' \in Seq(BOOLEAN) /\ Len(resultChan') <= QueueSize
    <3>1. resultChan \in Seq(BOOLEAN) /\ Len(resultChan) <= QueueSize /\ Len(resultChan) \in Nat
      BY <1>1, LenProperties DEF ChannelsType
    <3>2. \/ resultChan # << >> /\ resultChan' = Tail(resultChan)
          \/ resultChan' = resultChan
      BY <1>15 DEF RangeResults, ProcessResults
    <3>3. CASE resultChan # << >> /\ resultChan' = Tail(resultChan)
      <4>1. resultChan' \in Seq(BOOLEAN) /\ Len(resultChan') = Len(resultChan) - 1
        BY <3>1, <3>3, HeadTailProperties
      <4> QED BY <1>5, <3>1, <4>1
    <3> QED BY <3>1, <3>2, <3>3
  <2>2. failed' \in BOOLEAN /\ resultClosed' \in BOOLEAN
    BY <1>1, <1>15 DEF RangeResults, ProcessResults, ChannelsType
  <2>3. ChannelsType'
    BY <1>1, <1>15, <2>1, <2>2 DEF RangeResults, ProcessResults, ChannelsType, heights
  <2>4. caller' \in {"range", "returned", "panic", "down"}
    BY <1>1, <1>15 DEF RangeResults, ProcessResults, WorkersType
  <2>5. WorkersType'
    BY <1>1, <1>15, <2>4 DEF RangeResults, ProcessResults, WorkersType
  <2> QED BY <1>3, <1>4, <1>15, <2>3, <2>5 DEF RangeResults, ProcessResults
<1>16. CASE Crash
  <2>1. rpc' \in [RPCWorkers -> RPCState] /\ dbw' \in [DBWorkers -> DBState]
    BY <1>16, IdleWorkers DEF Crash
  <2>2. faults' \in 0..MaxFaults
    BY <1>1, <1>16, PoolAssumption DEF Crash, Fault, WorkersType
  <2>3. ChannelsType'
    BY <1>1, <1>5, <1>16 DEF Crash, ChannelsType, Heights
  <2>4. WorkersType'
    BY <1>16, <2>1, <2>2 DEF Crash, WorkersType
  <2>5. ItemsInv'
    BY <1>16 DEF Crash, ItemsInv, RPCWorkersAt, DBWorkersAt
  <2> QED BY <1>3, <1>16, <2>3, <2>4, <2>5 DEF Crash
<1>17. CASE Restart
  <2>1. rpc' \in [RPCWorkers -> RPCState] /\ dbw' \in [DBWorkers -> DBState]
    BY <1>17, IdleWorkers DEF Restart
  <2>2. startHeight' \in Heights /\ nextHeight' \in startHeight'..(Len(Chain) + 1)
    BY <1>1, <1>5, <1>17 DEF Restart, TablesType, Heights
  <2>3. ChannelsType'
    BY <1>1, <1>17, <2>2 DEF Restart, ChannelsType
  <2>4. WorkersType'
    BY <1>1, <1>17, <2>1 DEF Restart, WorkersType
  <2>5. ItemsInv'
    BY <1>17 DEF Restart, ItemsInv, RPCWorkersAt, DBWorkersAt
  <2> QED BY <1>3, <1>17, <2>3, <2>4, <2>5 DEF Restart
<1>18. CASE UNCHANGED vars
  BY <1>1, <1>3, <1>4, <1>18 DEF vars, heights, results, ChannelsType, WorkersType
<1> QED BY <1>6, <1>7, <1>8, <1>9, <1>10, <1>11, <1>12, <1>13, <1>14, <1>15, <1>16, <1>17, <1>18
        DEF Next, RPCNext, DBNext
-----------------------------------------------------------------------------
(* Where the heights are *)

(* A step that moves no height. *)
LEMMA PlacedStays ==
    ASSUME NEW h, Placed(h), UNCHANGED <<workQueue, settled, Unfetched>>,
           \A w \in RPCWorkers : WithRPC(w, h)' <=> WithRPC(w, h),
           \A d \in DBWorkers : WithDB(d, h)' <=> WithDB(d, h)
    PROVE  Placed(h)'
<1>1. \A i \in 1..Len(workQueue) : InQueue(i, h)' <=> InQueue(i, h)
  BY DEF InQueue
<1>2. Carried(h)' <=> Carried(h)
  BY <1>1 DEF Carried
<1>3. CarriedOnce(h)'
  BY <1>1 DEF Placed, CarriedOnce
<1> QED BY <1>2, <1>3 DEF Placed

(* An RPC worker receives: the lowest height of the channel moves to it. *)
LEMMA PlacedReceive ==
    ASSUME TypeOK, FetchOrder, NEW h \in startHeight..Len(Chain), Placed(h),
           NEW w \in RPCWorkers, RPCReceive(w)
    PROVE  Placed(h)' /\ FetchOrder'
<1>1. TablesType /\ ChannelsType /\ WorkersType
  BY TypeParts
<1>2. PICK s \in RPCState :
              /\ rpc' = [rpc EXCEPT ![w] = s] /\ s.at = "fetch"
              /\ \/ heightChan # << >> /\ s.height = Head(heightChan) /\ heightChan' = Tail(heightChan)
                 \/ heightChan = << >> /\ s.height = 0 /\ heightChan' = << >>
  BY <1>1, RPCReceiveEffect
<1>3. /\ rpc'[w] = s
      /\ \A v \in RPCWorkers : v # w => rpc'[v] = rpc[v]
      /\ rpc[w].at = "select"
      /\ UNCHANGED <<workQueue, dbw, settled, nextHeight, startHeight, index_progress>>
  BY <1>1, <1>2, RPCUpdate DEF RPCReceive, database
<1>4. h \in Nat /\ h >= 1 /\ nextHeight \in Nat /\ startHeight \in Nat /\ index_progress.height \in Nat
  BY <1>1, ChainFacts DEF ChannelsType, TablesType, Heights
<1>5. heightChan \in Seq(Heights) /\ Len(heightChan) \in Nat
  BY <1>1 DEF ChannelsType
<1>6. /\ \A v \in RPCWorkers : WithRPC(v, h)' <=> IF v = w THEN s.height = h ELSE WithRPC(v, h)
      /\ ~WithRPC(w, h)
  BY <1>2, <1>3 DEF WithRPC
<1>7. /\ \A i \in 1..Len(workQueue) : InQueue(i, h)' <=> InQueue(i, h)
      /\ \A d \in DBWorkers : WithDB(d, h)' <=> WithDB(d, h)
      /\ Len(workQueue)' = Len(workQueue)
  BY <1>3 DEF InQueue, WithDB
<1>8. CASE heightChan = << >>
  <2>1. s.height = 0 /\ heightChan' = << >>
    BY <1>2, <1>8
  <2>2. UNCHANGED Unfetched
    BY <1>3, <1>8, <2>1 DEF Unfetched
  <2>3. Placed(h)'
    BY <1>3, <1>4, <1>6, <1>7, <2>1, <2>2, PlacedStays
  <2> QED BY <1>3, <1>8, <2>1, <2>2, <2>3 DEF FetchOrder
<1>9. CASE heightChan # << >>
  <2>1. /\ s.height = heightChan[1] /\ Len(heightChan) >= 1 /\ Len(heightChan') = Len(heightChan) - 1
        /\ \A i \in 1..Len(heightChan') : heightChan'[i] = heightChan[i + 1]
    <3>1. s.height = Head(heightChan) /\ heightChan' = Tail(heightChan)
      BY <1>2, <1>9
    <3>2. Head(heightChan) = heightChan[1] /\ Len(heightChan) >= 1
      BY <1>5, <1>9
    <3> QED BY <1>5, <1>9, <3>1, <3>2, HeadTailProperties
  <2>2. s.height = Unfetched /\ Unfetched \in Int /\ Unfetched' = Unfetched + 1
    BY <1>3, <1>4, <1>5, <2>1 DEF FetchOrder, Unfetched
  <2>3. FetchOrder'
    <3>1. \A i \in 1..Len(heightChan') : heightChan'[i] = Unfetched' + i - 1
      BY <1>5, <2>1, <2>2 DEF FetchOrder
    <3> QED BY <1>3, <1>4, <2>2, <3>1 DEF FetchOrder
  <2> HIDE DEF Unfetched
  <2>4. CASE h = s.height
    <3>1. ~Carried(h) /\ h \notin settled
      BY <1>4, <2>2, <2>4 DEF Placed
    <3>2. /\ \A v \in RPCWorkers : WithRPC(v, h)' <=> v = w
          /\ \A i \in 1..Len(workQueue)' : ~InQueue(i, h)'
          /\ \A d \in DBWorkers : ~WithDB(d, h)'
      BY <1>6, <1>7, <2>4, <3>1 DEF Carried
    <3>3. CarriedOnce(h)' /\ Carried(h)'
      BY <3>2 DEF CarriedOnce, Carried
    <3> QED BY <1>3, <1>4, <2>2, <2>3, <2>4, <3>1, <3>3 DEF Placed
  <2>5. CASE h # s.height
    <3>1. \A v \in RPCWorkers : WithRPC(v, h)' <=> WithRPC(v, h)
      BY <1>6, <2>5
    <3>2. Carried(h)' <=> Carried(h)
      BY <1>7, <3>1 DEF Carried
    <3>3. CarriedOnce(h)'
      BY <1>7, <3>1 DEF Placed, CarriedOnce
    <3>4. h < Unfetched' <=> h < Unfetched
      BY <1>4, <2>2, <2>5
    <3> QED BY <1>3, <2>3, <3>2, <3>3, <3>4 DEF Placed
  <2> QED BY <2>4, <2>5
<1> QED BY <1>8, <1>9
(* An RPC worker sends: its height moves to the end of the work queue. *)
LEMMA PlacedSend ==
    ASSUME TypeOK, ItemsInv, NEW h, Placed(h), NEW w \in RPCWorkers, RPCSend(w)
    PROVE  Placed(h)'
<1>1. TablesType /\ ChannelsType /\ WorkersType
  BY TypeParts
<1>2. PICK s \in RPCState : rpc' = [rpc EXCEPT ![w] = s] /\ s.at = "select" /\ s.height = 0
  BY <1>1, RPCWaitsEffect DEF RPCSend
<1>3. /\ rpc'[w] = s
      /\ \A v \in RPCWorkers : v # w => rpc'[v] = rpc[v]
      /\ rpc[w].at = "send"
      /\ UNCHANGED <<dbw, settled, nextHeight, heightChan>>
  BY <1>1, <1>2, RPCUpdate DEF RPCSend, heights
<1>4. rpc[w].item \in Item /\ rpc[w].item.height = rpc[w].height
  BY <1>3 DEF ItemsInv, ItemOK
<1>5. /\ Len(workQueue) \in Nat /\ Len(workQueue') = Len(workQueue) + 1
      /\ \A i \in 1..Len(workQueue) : workQueue'[i] = workQueue[i]
      /\ workQueue'[Len(workQueue) + 1] = rpc[w].item
  BY <1>1, <1>4 DEF RPCSend, ChannelsType
<1>6. UNCHANGED Unfetched
  BY <1>3 DEF Unfetched
<1>7. PICK n \in Nat : n = Len(workQueue)
  BY <1>5
<1>8. \A v \in RPCWorkers : WithRPC(v, h)' <=> v # w /\ WithRPC(v, h)
  BY <1>2, <1>3 DEF WithRPC
<1>9. /\ \A i \in 1..n : InQueue(i, h)' <=> InQueue(i, h)
      /\ InQueue(n + 1, h)' <=> WithRPC(w, h)
  BY <1>7, <1>3, <1>4, <1>5 DEF InQueue, WithRPC
<1>10. \A d \in DBWorkers : WithDB(d, h)' <=> WithDB(d, h)
  BY <1>3 DEF WithDB
<1>11. 1..Len(workQueue)' = 1..n \cup {n + 1}
  BY <1>7, <1>5
<1>12. n + 1 \notin 1..n
  BY <1>5
<1>13. Carried(h)' <=> Carried(h)
  BY <1>7, <1>8, <1>9, <1>10, <1>11 DEF Carried
<1>14. CarriedOnce(h)'
  BY <1>7, <1>8, <1>9, <1>10, <1>11, <1>12 DEF Placed, CarriedOnce
<1> QED BY <1>3, <1>6, <1>13, <1>14 DEF Placed

(* A DB worker receives: the first height of the work queue moves to it. *)
LEMMA PlacedDBReceive ==
    ASSUME TypeOK, NEW h, Placed(h), NEW d \in DBWorkers, DBReceive(d)
    PROVE  Placed(h)'
<1>1. TablesType /\ ChannelsType /\ WorkersType
  BY TypeParts
<1>2. PICK s \in DBState : dbw' = [dbw EXCEPT ![d] = s] /\ s.at = "store" /\ s.item = Head(workQueue)
  BY <1>1, DBReceiveEffect
<1>3. /\ dbw'[d] = s
      /\ \A e \in DBWorkers : e # d => dbw'[e] = dbw[e]
      /\ dbw[d].at = "select"
      /\ UNCHANGED <<rpc, settled, nextHeight, heightChan>>
  BY <1>1, <1>2, DBUpdate DEF DBReceive, heights
<1> DEFINE n == Len(workQueue)
<1>4. /\ n \in Nat /\ n >= 1 /\ Len(workQueue') = n - 1
      /\ \A i \in 1..(n - 1) : workQueue'[i] = workQueue[i + 1]
      /\ Head(workQueue) = workQueue[1]
  BY <1>1 DEF DBReceive, ChannelsType
<1>5. UNCHANGED Unfetched
  BY <1>3 DEF Unfetched
<1>6. \A v \in RPCWorkers : WithRPC(v, h)' <=> WithRPC(v, h)
  BY <1>3 DEF WithRPC
<1>7. \A i \in 1..(n - 1) : InQueue(i, h)' <=> InQueue(i + 1, h)
  BY <1>4 DEF InQueue
<1>8. /\ \A e \in DBWorkers : WithDB(e, h)' <=> IF e = d THEN InQueue(1, h) ELSE WithDB(e, h)
      /\ ~WithDB(d, h)
  BY <1>2, <1>3, <1>4 DEF WithDB, InQueue
<1>9. Len(workQueue)' = n - 1 /\ 1 \in 1..n
  BY <1>4
<1>10. ASSUME NEW i \in 1..(n - 1)
       PROVE  i + 1 \in 1..n /\ i + 1 # 1
  BY <1>4
<1>11. ASSUME NEW i \in 1..n
       PROVE  i = 1 \/ \E j \in 1..(n - 1) : i = j + 1
  <2>1. CASE i # 1
    <3>1. i - 1 \in 1..(n - 1) /\ i = (i - 1) + 1
      BY <1>4, <2>1
    <3> QED BY <3>1
  <2> QED BY <2>1
<1>12. \A i, j \in 1..(n - 1) : i + 1 = j + 1 => i = j
  BY <1>4
<1> HIDE DEF n
<1>13. Carried(h)' <=> Carried(h)
  <2>1. (\E i \in 1..(n - 1) : InQueue(i, h)') \/ InQueue(1, h) <=> \E i \in 1..n : InQueue(i, h)
    BY <1>7, <1>9, <1>10, <1>11
  <2> QED BY <1>6, <1>8, <1>9, <2>1 DEF Carried, n
<1>14. CarriedOnce(h)'
  BY <1>6, <1>7, <1>8, <1>9, <1>10, <1>12 DEF Placed, CarriedOnce, n
<1> QED BY <1>3, <1>5, <1>13, <1>14 DEF Placed

(* A worker settles its height g, by logging or by storing it. *)
LEMMA PlacedSettle ==
    ASSUME NEW h, Placed(h), NEW g, settled' = settled \cup {g}, UNCHANGED <<workQueue, Unfetched>>,
           \/ \E w \in RPCWorkers :
                 /\ \A v \in RPCWorkers : WithRPC(v, h)' <=> v # w /\ WithRPC(v, h)
                 /\ \A d \in DBWorkers : WithDB(d, h)' <=> WithDB(d, h)
                 /\ WithRPC(w, h) <=> h = g
           \/ \E d \in DBWorkers :
                 /\ \A v \in RPCWorkers : WithRPC(v, h)' <=> WithRPC(v, h)
                 /\ \A e \in DBWorkers : WithDB(e, h)' <=> e # d /\ WithDB(e, h)
                 /\ WithDB(d, h) <=> h = g
    PROVE  Placed(h)'
<1>1. /\ \A i \in 1..Len(workQueue) : InQueue(i, h)' <=> InQueue(i, h)
      /\ Len(workQueue)' = Len(workQueue)
  BY DEF InQueue
<1>2. CarriedOnce(h)'
  BY <1>1 DEF Placed, CarriedOnce
<1>3. Carried(h)' <=> Carried(h) /\ h # g
  BY <1>1 DEF Placed, CarriedOnce, Carried
<1>4. h = g => Carried(h)
  BY DEF Carried
<1> QED BY <1>2, <1>3, <1>4 DEF Placed
(* A set whose elements have distinct marks in a finite set is no larger. *)
LEMMA MarkedSet ==
    ASSUME NEW S, NEW T, IsFiniteSet(T), NEW f \in [S -> T],
           \A a, b \in S : f[a] = f[b] => a = b
    PROVE  IsFiniteSet(S) /\ Cardinality(S) \in Nat /\ Cardinality(S) <= Cardinality(T)
<1>1. f \in Injection(S, T)
  BY Fun_IsInj
<1> QED BY <1>1, FS_Injection, FS_CardinalityType

(* Heights below the progress row that are not settled are carried, each by *)
(* a goroutine or queue place of its own; a DB worker that has just stored  *)
(* its block carries none.                                                  *)
LEMMA GapAfterStore ==
    ASSUME TypeOK', FetchOrder', \A h \in startHeight'..Len(Chain) : Placed(h)',
           NEW d \in DBWorkers, dbw'[d].at # "store"
    PROVE  (Cardinality(Gap) < GapBound)'
<1>1. /\ startHeight' \in Nat /\ nextHeight' \in Nat /\ nextHeight' <= Len(Chain) + 1
      /\ Len(heightChan') \in Nat /\ index_progress'.height \in Nat
      /\ workQueue' \in Seq(Item) /\ Len(workQueue') \in Nat /\ Len(workQueue') <= QueueSize
  BY ChainFacts DEF TypeOK, Heights
<1>2. Len(Chain) \in Nat /\ QueueSize \in Nat
  BY ChainFacts, PoolAssumption
<1> DEFINE G == Gap'
           GR == {h \in G : \E w \in RPCWorkers : WithRPC(w, h)'}
           GQ == {h \in G : \E i \in 1..Len(workQueue') : InQueue(i, h)'}
           GD == {h \in G : \E e \in DBWorkers : WithDB(e, h)'}
<1>3. ASSUME NEW h \in G
      PROVE  h \in GR \/ h \in GQ \/ h \in GD
  <2>1. h \in startHeight'..index_progress'.height /\ h \notin settled'
    BY DEF Gap
  <2>2. h < Unfetched' /\ h \in startHeight'..Len(Chain)
    <3>1. index_progress'.height < nextHeight' - Len(heightChan')
      BY DEF FetchOrder, Unfetched
    <3> QED BY <1>1, <1>2, <2>1, <3>1 DEF Unfetched
  <2>3. Carried(h)'
    BY <2>1, <2>2 DEF Placed
  <2> QED BY <2>3 DEF Carried
<1>4. IsFiniteSet(GR) /\ Cardinality(GR) \in Nat /\ Cardinality(GR) <= Cardinality(RPCWorkers)
  <2> DEFINE f == [h \in GR |-> CHOOSE w \in RPCWorkers : WithRPC(w, h)']
  <2>1. \A h \in GR : f[h] \in RPCWorkers /\ rpc'[f[h]].height = h
    BY DEF WithRPC
  <2>2. f \in [GR -> RPCWorkers]
    BY <2>1
  <2> HIDE DEF f, GR
  <2>3. \A a, b \in GR : f[a] = f[b] => a = b
    BY <2>1
  <2> QED BY <2>2, <2>3, MarkedSet, PoolAssumption
<1>5. IsFiniteSet(GQ) /\ Cardinality(GQ) \in Nat /\ Cardinality(GQ) <= QueueSize
  <2> DEFINE f == [h \in GQ |-> CHOOSE i \in 1..Len(workQueue') : InQueue(i, h)']
  <2>1. \A h \in GQ : f[h] \in 1..Len(workQueue') /\ workQueue'[f[h]].height = h
    BY DEF InQueue
  <2>2. f \in [GQ -> 1..Len(workQueue')]
    BY <2>1
  <2> HIDE DEF f, GQ
  <2>3. \A a, b \in GQ : f[a] = f[b] => a = b
    BY <2>1
  <2>4. IsFiniteSet(1..Len(workQueue')) /\ Cardinality(1..Len(workQueue')) <= QueueSize
    <3>1. PICK n \in Nat : n = Len(workQueue') /\ n <= QueueSize
      BY <1>1
    <3>2. 1 \in Int /\ n \in Int
      OBVIOUS
    <3>3. IsFiniteSet(1..n) /\ Cardinality(1..n) = IF 1 > n THEN 0 ELSE n - 1 + 1
      BY <3>2, FS_Interval
    <3> QED BY <1>2, <3>1, <3>3
  <2>5. Cardinality(1..Len(workQueue')) \in Nat
    BY <2>4, FS_CardinalityType
  <2>6. IsFiniteSet(GQ) /\ Cardinality(GQ) \in Nat /\ Cardinality(GQ) <= Cardinality(1..Len(workQueue'))
    BY <2>2, <2>3, <2>4, MarkedSet
  <2> QED BY <1>2, <2>4, <2>5, <2>6
<1>6. IsFiniteSet(GD) /\ Cardinality(GD) \in Nat /\ Cardinality(GD) <= Cardinality(DBWorkers) - 1
  <2> DEFINE f == [h \in GD |-> CHOOSE e \in DBWorkers : WithDB(e, h)']
             D == DBWorkers \ {d}
  <2>1. \A h \in GD : f[h] \in DBWorkers /\ dbw'[f[h]].at = "store" /\ dbw'[f[h]].item.height = h
    BY DEF WithDB
  <2>2. f \in [GD -> D]
    BY <2>1
  <2>3. IsFiniteSet(D) /\ Cardinality(D) = Cardinality(DBWorkers) - 1
    BY PoolAssumption, FS_RemoveElement
  <2> HIDE DEF f, GD, D
  <2>4. \A a, b \in GD : f[a] = f[b] => a = b
    BY <2>1
  <2> QED BY <2>2, <2>3, <2>4, MarkedSet
<1>7. G = (GR \cup GQ) \cup GD
  BY <1>3
<1> HIDE DEF G, GR, GQ, GD
<1>8. /\ IsFiniteSet(GR \cup GQ) /\ Cardinality(GR \cup GQ) \in Nat
      /\ Cardinality(GR \cup GQ) <= Cardinality(GR) + Cardinality(GQ)
  <2>1. /\ IsFiniteSet(GR \cup GQ)
        /\ Cardinality(GR \cup GQ) = Cardinality(GR) + Cardinality(GQ) - Cardinality(GR \cap GQ)
    BY <1>4, <1>5, FS_Union
  <2>2. Cardinality(GR \cap GQ) \in Nat
    BY <1>4, FS_Intersection, FS_CardinalityType
  <2> QED BY <1>4, <1>5, <2>1, <2>2, FS_CardinalityType
<1>9. Cardinality(G) \in Nat /\ Cardinality(G) <= Cardinality(GR \cup GQ) + Cardinality(GD)
  <2>1. /\ IsFiniteSet(G)
        /\ Cardinality(G) = Cardinality(GR \cup GQ) + Cardinality(GD) - Cardinality((GR \cup GQ) \cap GD)
    BY <1>6, <1>7, <1>8, FS_Union
  <2>2. Cardinality((GR \cup GQ) \cap GD) \in Nat
    BY <1>6, FS_Intersection, FS_CardinalityType
  <2> QED BY <1>6, <1>8, <2>1, <2>2, FS_CardinalityType
<1>10. Cardinality(RPCWorkers) \in Nat /\ Cardinality(DBWorkers) \in Nat
  BY PoolAssumption, FS_CardinalityType
<1>11. Cardinality(G) < Cardinality(RPCWorkers) + QueueSize + Cardinality(DBWorkers)
  BY <1>2, <1>4, <1>5, <1>6, <1>8, <1>9, <1>10
<1> QED BY <1>11 DEF GapBound, G
-----------------------------------------------------------------------------
(* The range that is being processed *)

(* A step that stores nothing leaves no larger gap. *)
LEMMA GapShrinks ==
    ASSUME TypeOK, Cardinality(Gap) < GapBound, settled \subseteq settled',
           UNCHANGED <<startHeight, index_progress>>
    PROVE  (Cardinality(Gap) < GapBound)'
<1>1. startHeight \in Int /\ index_progress.height \in Int
  BY ChainFacts DEF TypeOK, Heights
<1>2. IsFiniteSet(startHeight..index_progress.height)
  BY <1>1, FS_Interval
<1>3. Gap \subseteq startHeight..index_progress.height /\ Gap' \subseteq Gap
  BY DEF Gap
<1>4. IsFiniteSet(Gap)
  BY <1>2, <1>3, FS_Subset
<1>5. Cardinality(Gap') <= Cardinality(Gap) /\ IsFiniteSet(Gap')
  BY <1>3, <1>4, FS_Subset
<1>6. Cardinality(Gap') \in Nat /\ Cardinality(Gap) \in Nat
  BY <1>4, <1>5, FS_CardinalityType
<1>7. GapBound \in Int
  BY PoolAssumption, FS_CardinalityType DEF GapBound
<1> QED BY <1>5, <1>6, <1>7 DEF GapBound

(* A new range: nothing is carried or settled yet. *)
RangeStart ==
    /\ TypeOK
    /\ heightChan = << >> /\ workQueue = << >> /\ settled = {}
    /\ nextHeight = startHeight /\ startHeight = index_progress.height + 1
    /\ \A w \in RPCWorkers : rpc[w].at = "select"
    /\ \A d \in DBWorkers : dbw[d].at = "select"

(* The invariant holds when a range begins, at first and after a restart. *)
LEMMA RangeBegins == RangeStart => RangeInv
<1> SUFFICES ASSUME RangeStart PROVE RangeInv
  OBVIOUS
<1> USE DEF RangeStart
<1>1. startHeight \in Nat /\ index_progress.height \in Nat
  BY ChainFacts DEF TypeOK, Heights
<1>2. Len(heightChan) = 0 /\ Len(workQueue) = 0 /\ Unfetched = startHeight
  BY <1>1 DEF Unfetched
<1>3. FetchOrder
  BY <1>1, <1>2 DEF FetchOrder
<1>4. ASSUME NEW h \in startHeight..Len(Chain)
      PROVE  Placed(h)
  <2>1. /\ \A w \in RPCWorkers : ~WithRPC(w, h)
        /\ \A d \in DBWorkers : ~WithDB(d, h)
        /\ \A i \in 1..Len(workQueue) : FALSE
    BY <1>2 DEF WithRPC, WithDB
  <2>2. ~(h < Unfetched)
    BY <1>1, <1>2, ChainFacts
  <2> QED BY <2>1, <2>2 DEF Placed, CarriedOnce, Carried
<1>5. Gap = {}
  BY <1>1 DEF Gap
<1>6. Cardinality(Gap) < GapBound
  <2>1. Cardinality(RPCWorkers) \in Nat /\ Cardinality(DBWorkers) \in Nat /\ QueueSize \in Nat \ {0}
    BY PoolAssumption, FS_CardinalityType
  <2> QED BY <1>5, <2>1, FS_EmptySet DEF GapBound
<1> QED BY <1>3, <1>4, <1>6 DEF RangeInv
(* Every step keeps the range in order. *)
LEMMA NextRange ==
    ASSUME WInv, [Next]_vars, TypeOK'
    PROVE  DownInv' /\ RangeInv'
<1>1. TypeOK /\ ItemsInv /\ DownInv /\ RangeInv /\ TablesType /\ ChannelsType /\ WorkersType
  BY TypeParts DEF WInv
<1>2. /\ Len(Chain) \in Nat /\ startHeight \in Nat /\ startHeight >= 1 /\ nextHeight \in Nat
      /\ Len(heightChan) \in Nat /\ index_progress.height \in Nat /\ heightChan \in Seq(Heights)
  BY <1>1, ChainFacts DEF ChannelsType, TablesType, Heights
<1>3. CASE Crash
  BY <1>3 DEF Crash, DownInv, RangeInv, RPCWorkersAt, DBWorkersAt
<1>4. CASE Restart
  <2>1. RangeStart'
    BY <1>1, <1>2, <1>4 DEF RangeStart, Restart, DownInv, RPCWorkersAt, DBWorkersAt, database
  <2>2. (RangeStart => RangeInv)'
    BY RangeBegins, PTL
  <2> QED BY <1>4, <2>1, <2>2 DEF Restart, DownInv
<1>5. ASSUME caller = "range", FetchOrder', UNCHANGED <<startHeight, index_progress, caller>>,
             \A h \in startHeight..Len(Chain) : Placed(h)', settled \subseteq settled'
      PROVE  DownInv' /\ RangeInv'
  <2>1. (Cardinality(Gap) < GapBound)'
    BY <1>1, <1>5, GapShrinks DEF RangeInv
  <2> QED BY <1>5, <2>1 DEF DownInv, RangeInv
<1>6. ASSUME caller # "range", UNCHANGED <<heightChan, workQueue, settled, nextHeight, rpc, dbw, caller>>
      PROVE  DownInv' /\ RangeInv'
  BY <1>1, <1>6 DEF DownInv, RangeInv
<1>7. CASE SendHeight
  <2>1. UNCHANGED <<startHeight, index_progress, caller, workQueue, rpc, dbw, settled>>
    BY <1>7 DEF SendHeight, database, results
  <2>2. CASE caller = "range"
    <3>1. /\ Len(heightChan') = Len(heightChan) + 1 /\ nextHeight' = nextHeight + 1
          /\ \A i \in 1..Len(heightChan) : heightChan'[i] = heightChan[i]
          /\ heightChan'[Len(heightChan) + 1] = nextHeight
      <4>1. nextHeight \in Heights
        BY <1>1, <1>2, <1>7 DEF SendHeight, ChannelsType, Heights
      <4> QED BY <1>2, <1>7, <4>1 DEF SendHeight
    <3>2. UNCHANGED Unfetched
      BY <1>2, <3>1 DEF Unfetched
    <3>3. FetchOrder'
      <4>1. \A i \in 1..Len(heightChan') : heightChan'[i] = Unfetched' + i - 1
        BY <1>1, <1>2, <2>2, <3>1, <3>2 DEF RangeInv, FetchOrder, Unfetched
      <4> QED BY <1>1, <2>1, <2>2, <3>2, <4>1 DEF RangeInv, FetchOrder
    <3>4. ASSUME NEW h \in startHeight..Len(Chain)
          PROVE  Placed(h)'
      BY <1>1, <2>1, <2>2, <3>2, PlacedStays DEF RangeInv, WithRPC, WithDB
    <3> QED BY <1>5, <2>1, <2>2, <3>3, <3>4
  <2>3. CASE caller # "range"
    BY <1>1, <1>2, <1>7, <2>1, <2>3 DEF SendHeight, DownInv, RangeInv
  <2> QED BY <2>2, <2>3
<1>8. CASE CloseHeights \/ RangeResults \/ ProcessResults \/ UNCHANGED vars
  <2>1. UNCHANGED <<heightChan, nextHeight, startHeight, index_progress, workQueue, rpc, dbw, settled>>
    BY <1>8 DEF CloseHeights, RangeResults, ProcessResults, vars, database, heights
  <2>2. caller' = caller \/ (caller = "range" /\ caller' \in {"panic", "returned"})
    BY <1>8 DEF CloseHeights, RangeResults, ProcessResults, vars, results
  <2>3. CASE caller' = caller /\ caller = "range"
    <3>1. UNCHANGED Unfetched
      BY <2>1 DEF Unfetched
    <3>2. FetchOrder'
      BY <1>1, <2>1, <2>3, <3>1 DEF RangeInv, FetchOrder
    <3>3. ASSUME NEW h \in startHeight..Len(Chain)
          PROVE  Placed(h)'
      BY <1>1, <2>1, <2>3, <3>1, PlacedStays DEF RangeInv, WithRPC, WithDB
    <3> QED BY <1>5, <2>1, <2>3, <3>2, <3>3
  <2>4. CASE caller' = caller /\ caller # "range"
    BY <1>6, <2>1, <2>4
  <2>5. CASE caller' \in {"panic", "returned"}
    BY <2>5 DEF DownInv, RangeInv
  <2> QED BY <2>2, <2>3, <2>4, <2>5
<1>9. ASSUME NEW w \in RPCWorkers, RPCNext(w)
      PROVE  DownInv' /\ RangeInv'
  <2>1. UNCHANGED <<caller, startHeight, nextHeight, index_progress, dbw>> /\ rpc[w].at # "dead"
    BY <1>9 DEF RPCNext, RPCReceive, RPCFetch, RPCSend, RPCGivesUp, database, heights, results
  <2>2. CASE caller # "range"
    BY <1>1, <2>1, <2>2 DEF DownInv, RangeInv
  <2>3. ASSUME caller = "range", UNCHANGED heightChan
        PROVE  FetchOrder' /\ UNCHANGED Unfetched
    <3>1. UNCHANGED Unfetched
      BY <2>1, <2>3 DEF Unfetched
    <3> QED BY <1>1, <2>1, <2>3, <3>1 DEF RangeInv, FetchOrder
  <2>4. CASE caller = "range" /\ RPCReceive(w)
    <3>1. \A h \in startHeight..Len(Chain) : Placed(h)' /\ FetchOrder'
      BY <1>1, <2>4, PlacedReceive DEF RangeInv
    <3>2. FetchOrder'
      <4>1. startHeight \in startHeight..Len(Chain)
        BY <1>1, <1>2 DEF ChannelsType, Heights
      <4> QED BY <3>1, <4>1
    <3>3. settled \subseteq settled'
      BY <2>4 DEF RPCReceive
    <3> QED BY <1>5, <2>1, <2>4, <3>1, <3>2, <3>3
  <2>5. CASE caller = "range" /\ RPCFetch(w)
    <3>1. UNCHANGED <<heightChan, workQueue, settled>>
      BY <2>5 DEF RPCFetch, heights
    <3>2. PICK s \in RPCState :
              /\ rpc' = [rpc EXCEPT ![w] = s] /\ s.at = "send" /\ s.height = rpc[w].height
      BY <1>1, <2>5, RPCFetchEffect
    <3>3. \A h : \A v \in RPCWorkers : WithRPC(v, h)' <=> WithRPC(v, h)
      BY <1>1, <2>5, <3>2, RPCUpdate DEF RPCFetch, WithRPC
    <3>4. ASSUME NEW h \in startHeight..Len(Chain)
          PROVE  Placed(h)'
      BY <1>1, <2>1, <2>3, <2>5, <3>1, <3>3, PlacedStays DEF RangeInv, WithDB
    <3> QED BY <1>5, <2>1, <2>3, <2>5, <3>1, <3>4
  <2>6. CASE caller = "range" /\ RPCSend(w)
    <3>1. UNCHANGED <<heightChan, settled>>
      BY <2>6 DEF RPCSend, heights
    <3>2. \A h \in startHeight..Len(Chain) : Placed(h)'
      BY <1>1, <2>6, PlacedSend DEF RangeInv
    <3> QED BY <1>5, <2>1, <2>3, <2>6, <3>1, <3>2
  <2>7. CASE caller = "range" /\ RPCGivesUp(w)
    <3>1. UNCHANGED <<heightChan, workQueue>> /\ settled' = settled \cup {rpc[w].height}
          /\ rpc[w].at # "select"
      BY <2>7 DEF RPCGivesUp, heights
    <3>2. PICK s \in RPCState : rpc' = [rpc EXCEPT ![w] = s] /\ s.at = "select" /\ s.height = 0
      BY <1>1, <2>7, RPCWaitsEffect DEF RPCGivesUp
    <3>3. ASSUME NEW h \in startHeight..Len(Chain)
          PROVE  Placed(h)'
      <4>1. /\ \A v \in RPCWorkers : WithRPC(v, h)' <=> v # w /\ WithRPC(v, h)
            /\ \A d \in DBWorkers : WithDB(d, h)' <=> WithDB(d, h)
            /\ WithRPC(w, h) <=> h = rpc[w].height
        BY <1>1, <2>1, <3>1, <3>2, RPCUpdate DEF WithRPC, WithDB
      <4>2. PICK g : g = rpc[w].height
        OBVIOUS
      <4> QED BY <1>1, <2>3, <2>7, <3>1, <4>1, <4>2, PlacedSettle DEF RangeInv
    <3> QED BY <1>5, <2>1, <2>3, <2>7, <3>1, <3>3
  <2> QED BY <1>1, <1>9, <2>2, <2>4, <2>5, <2>6, <2>7 DEF RPCNext
<1>10. ASSUME NEW d \in DBWorkers, DBNext(d)
       PROVE  DownInv' /\ RangeInv'
  <2>1. UNCHANGED <<caller, startHeight, nextHeight, heightChan, rpc>> /\ dbw[d].at # "dead"
    BY <1>10 DEF DBNext, DBReceive, DBStore, DBStoreFails, DBSendResult, DBDropsResult, heights, results
  <2>2. CASE caller # "range"
    BY <1>1, <2>1, <2>2 DEF DownInv, RangeInv
  <2>3. UNCHANGED Unfetched
    BY <2>1 DEF Unfetched
  <2>4. ASSUME caller = "range", UNCHANGED index_progress
        PROVE  FetchOrder'
    BY <1>1, <2>1, <2>3, <2>4 DEF RangeInv, FetchOrder
  <2>5. CASE caller = "range" /\ DBReceive(d)
    <3>1. UNCHANGED <<index_progress, settled>>
      BY <2>5 DEF DBReceive, database
    <3>2. \A h \in startHeight..Len(Chain) : Placed(h)'
      BY <1>1, <2>5, PlacedDBReceive DEF RangeInv
    <3> QED BY <1>5, <2>1, <2>4, <2>5, <3>1, <3>2
  <2>6. CASE caller = "range" /\ (DBSendResult(d) \/ DBDropsResult(d))
    <3>1. UNCHANGED <<index_progress, settled, workQueue>> /\ dbw[d].at = "send"
      BY <2>6 DEF DBSendResult, DBDropsResult, database
    <3>2. PICK s \in DBState : dbw' = [dbw EXCEPT ![d] = s] /\ s.at = "select"
      BY <1>1, <2>6, DBWaitsEffect DEF DBSendResult, DBDropsResult
    <3>3. \A h : \A e \in DBWorkers : WithDB(e, h)' <=> WithDB(e, h)
      BY <1>1, <3>1, <3>2, DBUpdate DEF WithDB
    <3>4. ASSUME NEW h \in startHeight..Len(Chain)
          PROVE  Placed(h)'
      BY <1>1, <2>1, <2>3, <2>6, <3>1, <3>3, PlacedStays DEF RangeInv, WithRPC
    <3> QED BY <1>5, <2>1, <2>4, <2>6, <3>1, <3>4
  <2>7. CASE caller = "range" /\ (DBStore(d) \/ DBStoreFails(d))
    <3>1. UNCHANGED workQueue /\ settled' = settled \cup {dbw[d].item.height} /\ dbw[d].at = "store"
      BY <2>7 DEF DBStore, DBStoreFails
    <3>2. PICK s \in DBState : dbw' = [dbw EXCEPT ![d] = s] /\ s.at = "send"
      BY <1>1, <2>7, DBStoredEffect DEF DBStore, DBStoreFails
    <3>3. PICK g : g = dbw[d].item.height
      OBVIOUS
    <3>4. ASSUME NEW h \in startHeight..Len(Chain)
          PROVE  Placed(h)'
      <4>1. /\ \A v \in RPCWorkers : WithRPC(v, h)' <=> WithRPC(v, h)
            /\ \A e \in DBWorkers : WithDB(e, h)' <=> e # d /\ WithDB(e, h)
            /\ WithDB(d, h) <=> h = g
        BY <1>1, <2>1, <3>1, <3>2, <3>3, DBUpdate DEF WithRPC, WithDB
      <4> QED BY <1>1, <2>3, <2>7, <3>1, <3>3, <4>1, PlacedSettle DEF RangeInv
    <3>5. CASE UNCHANGED index_progress
      BY <1>5, <2>1, <2>4, <2>7, <3>1, <3>4, <3>5
    <3>6. CASE index_progress'.height = g
      <4>1. g \in Nat /\ g <= Len(Chain) /\ Unfetched \in Int
        BY <1>1, <1>2, <3>1, <3>3 DEF ItemsInv, ItemOK, Item, Heights, Unfetched
      <4>2. g < Unfetched
        <5>1. CASE g >= startHeight
          <6>1. g \in startHeight..Len(Chain) /\ WithDB(d, g)
            BY <1>2, <3>1, <3>3, <4>1, <5>1 DEF WithDB
          <6> QED BY <1>1, <2>7, <6>1 DEF RangeInv, Placed, Carried
        <5>2. CASE g < startHeight
          BY <1>1, <1>2, <2>7, <4>1, <5>2 DEF RangeInv, FetchOrder
        <5> QED BY <1>2, <4>1, <5>1, <5>2
      <4>3. FetchOrder'
        BY <1>1, <2>1, <2>3, <2>7, <3>6, <4>2 DEF RangeInv, FetchOrder
      <4>4. dbw'[d].at # "store"
        BY <1>1, <3>2, DBUpdate
      <4>5. (Cardinality(Gap) < GapBound)'
        BY <2>1, <3>4, <4>3, <4>4, GapAfterStore
      <4> QED BY <2>1, <2>7, <3>4, <4>3, <4>5 DEF DownInv, RangeInv
    <3>7. UNCHANGED index_progress \/ index_progress'.height = g
      BY <2>7, <3>3 DEF DBStore, DBStoreFails, StoreItem, database
    <3> QED BY <3>5, <3>6, <3>7
  <2> QED BY <1>1, <1>10, <2>2, <2>5, <2>6, <2>7 DEF DBNext
<1> QED BY <1>3, <1>4, <1>7, <1>8, <1>9, <1>10 DEF Next
-----------------------------------------------------------------------------
(* The theorems *)

(* Init satisfies the invariant. *)
LEMMA InitWInv == Init => WInv
<1> SUFFICES ASSUME Init PROVE WInv
  OBVIOUS
<1>1. Len(Chain) \in Nat /\ Len(Chain) >= 1 /\ QueueSize \in Nat /\ MaxFaults \in Nat
  BY ChainFacts, PoolAssumption
<1>2. TablesType
  BY DataAssumption DEF Init, TablesEmpty, TablesType, NoRow, Row, Status
<1>3. ChannelsType
  <2>1. startHeight \in Heights /\ nextHeight \in startHeight..(Len(Chain) + 1)
    BY <1>1 DEF Init, Heights
  <2>2. heightClosed \in BOOLEAN /\ resultClosed \in BOOLEAN /\ failed \in BOOLEAN
    BY Zenon DEF Init
  <2>3. /\ heightChan \in Seq(Heights) /\ workQueue \in Seq(Item) /\ resultChan \in Seq(BOOLEAN)
        /\ Len(heightChan) = 0 /\ Len(workQueue) = 0 /\ Len(resultChan) = 0
    BY EmptySeq DEF Init
  <2> QED BY <1>1, <2>1, <2>2, <2>3 DEF ChannelsType
<1>4. WorkersType
  BY <1>1, IdleWorkers DEF Init, WorkersType
<1>5. TypeOK
  BY <1>2, <1>3, <1>4, TypeParts
<1>6. /\ \A w \in RPCWorkers : rpc[w].at = "select"
      /\ \A d \in DBWorkers : dbw[d].at = "select"
      /\ workQueue = << >>
  BY DEF Init, RPCWorkersAt, DBWorkersAt
<1>7. ItemsInv
  BY <1>6 DEF ItemsInv
<1>8. StoreInv
  <2>1. /\ \A t \in Tx : ~Stored(transaction, t)
        /\ \A o \in OutPoint : ~HasRow(utxo, o) /\ utxo[o].status # "spent"
        /\ index_progress.hash = NoBlock
    BY DEF Init, TablesEmpty, Stored, HasRow, NoRow
  <2>2. \A b \in Block : ~Indexed(transaction, b)
    BY <2>1, DataAssumption DEF Indexed, Stored
  <2> QED BY <2>1, <2>2, DataAssumption DEF StoreInv, BlockAtomic, TablesAtomic, RowsNameHolder,
                                             SpentOnEvidence, SpendsEvidenced
<1>9. DownInv
  BY DEF Init, DownInv
<1>10. RangeStart
  BY <1>5, <1>6 DEF Init, RangeStart
<1> QED BY <1>5, <1>7, <1>8, <1>9, <1>10, RangeBegins DEF WInv

(* Every step keeps it. *)
LEMMA NextWInv == WInv /\ [Next]_vars => WInv'
BY NextBase, NextRange DEF WInv

(* The invariant of the worker pool. *)
THEOREM PoolInvariance == Spec => []WInv
BY InitWInv, NextWInv, PTL DEF Spec

(* The variables keep their types, and no channel holds more than it can.   *)
THEOREM PoolType == Spec => []TypeOK
<1>1. WInv => TypeOK
  BY DEF WInv
<1> QED BY PoolInvariance, <1>1, PTL

(* processBlockData is atomic with any number of DB workers: a block is     *)
(* stored completely or not at all.                                         *)
THEOREM PoolBlockAtomic == Spec => []BlockAtomic
<1>1. WInv => BlockAtomic
  BY DEF WInv, StoreInv
<1> QED BY PoolInvariance, <1>1, PTL

(* DB workers mark an output spent only for a stored transaction.           *)
THEOREM PoolSpentOnEvidence == Spec => []SpentOnEvidence
<1>1. WInv => SpentOnEvidence
  BY DEF WInv, StoreInv
<1> QED BY PoolInvariance, <1>1, PTL

(* A height that is placed is held once, or settled and held by nobody.     *)
LEMMA PlacedHeld ==
    ASSUME TypeOK, FetchOrder, NEW h \in startHeight..Len(Chain), Placed(h)
    PROVE  /\ h \in settled => Holders(h) = {}
           /\ h \notin settled => \E p : Holders(h) = {p}
           /\ Carried(h) => \E p \in Holders(h) : p[1] \in {"rpc", "workQueue", "db"}
<1> DEFINE HS == {<<"sender", 0>> : x \in {0} \cap {IF h >= nextHeight THEN 0 ELSE 1}}
           HC == {<<"heightChan", i>> : i \in {j \in DOMAIN heightChan : heightChan[j] = h}}
           HR == {<<"rpc", w>> : w \in {v \in RPCWorkers : WithRPC(v, h)}}
           HQ == {<<"workQueue", i>> : i \in {j \in DOMAIN workQueue : InQueue(j, h)}}
           HD == {<<"db", d>> : d \in {e \in DBWorkers : WithDB(e, h)}}
<1>1. Holders(h) = HS \cup HC \cup HR \cup HQ \cup HD
  BY DEF Holders, WithRPC, InQueue, WithDB
<1>2. /\ h \in Nat /\ startHeight \in Nat /\ nextHeight \in Nat /\ Len(heightChan) \in Nat
      /\ DOMAIN heightChan = 1..Len(heightChan) /\ DOMAIN workQueue = 1..Len(workQueue)
  BY ChainFacts DEF TypeOK, Heights
<1>3. /\ h >= nextHeight => HS = {<<"sender", 0>>}
      /\ h < nextHeight => HS = {}
  <2>1. CASE h >= nextHeight
    <3>1. {0} \cap {IF h >= nextHeight THEN 0 ELSE 1} = {0}
      BY <2>1
    <3> QED BY <1>2, <2>1, <3>1
  <2>2. CASE h < nextHeight
    <3>1. {0} \cap {IF h >= nextHeight THEN 0 ELSE 1} = {}
      BY <1>2, <2>2
    <3> QED BY <1>2, <2>2, <3>1
  <2> QED BY <1>2, <2>1, <2>2
<1>4. \A i \in 1..Len(heightChan) : heightChan[i] = nextHeight - Len(heightChan) + i - 1
  BY DEF FetchOrder, Unfetched
<1>5. CASE h < Unfetched
  <2>1. HC = {} /\ HS = {}
    BY <1>2, <1>3, <1>4, <1>5 DEF Unfetched
  <2> HIDE DEF HC, HS
  <2>2. CASE h \in settled
    <3>1. HR = {} /\ HQ = {} /\ HD = {}
      BY <1>2, <2>2 DEF Placed, Carried
    <3>2. ~Carried(h)
      BY <2>2 DEF Placed
    <3> QED BY <1>1, <2>1, <2>2, <3>1, <3>2
  <2>3. CASE h \notin settled
    <3>1. Carried(h) /\ CarriedOnce(h)
      BY <1>5, <2>3 DEF Placed
    <3>2. CASE \E w \in RPCWorkers : WithRPC(w, h)
      <4>1. PICK w \in RPCWorkers : WithRPC(w, h)
        BY <3>2
      <4>2. HR = {<<"rpc", w>>} /\ HQ = {} /\ HD = {}
        BY <1>2, <3>1, <4>1 DEF CarriedOnce
      <4>3. Holders(h) = {<<"rpc", w>>} /\ <<"rpc", w>>[1] = "rpc"
        BY <1>1, <2>1, <4>2
      <4> QED BY <2>3, <4>3
    <3>3. CASE \E i \in 1..Len(workQueue) : InQueue(i, h)
      <4>1. PICK i \in 1..Len(workQueue) : InQueue(i, h)
        BY <3>3
      <4>2. HR = {} /\ HQ = {<<"workQueue", i>>} /\ HD = {}
        BY <1>2, <3>1, <4>1 DEF CarriedOnce
      <4>3. Holders(h) = {<<"workQueue", i>>} /\ <<"workQueue", i>>[1] = "workQueue"
        BY <1>1, <2>1, <4>2
      <4> QED BY <2>3, <4>3
    <3>4. CASE \E d \in DBWorkers : WithDB(d, h)
      <4>1. PICK d \in DBWorkers : WithDB(d, h)
        BY <3>4
      <4>2. HR = {} /\ HQ = {} /\ HD = {<<"db", d>>}
        BY <1>2, <3>1, <4>1 DEF CarriedOnce
      <4>3. Holders(h) = {<<"db", d>>} /\ <<"db", d>>[1] = "db"
        BY <1>1, <2>1, <4>2
      <4> QED BY <2>3, <4>3
    <3> QED BY <3>1, <3>2, <3>3, <3>4 DEF Carried
  <2> QED BY <2>2, <2>3
<1>6. CASE ~(h < Unfetched)
  <2>1. ~Carried(h) /\ h \notin settled
    BY <1>6 DEF Placed
  <2>2. HR = {} /\ HQ = {} /\ HD = {}
    BY <1>2, <2>1 DEF Carried
  <2>3. CASE h >= nextHeight
    <3>1. HC = {}
      BY <1>2, <1>4, <2>3
    <3>2. HS = {<<"sender", 0>>}
      BY <1>3, <2>3
    <3> HIDE DEF HS, HC, HR, HQ, HD
    <3>3. Holders(h) = {<<"sender", 0>>}
      BY <1>1, <2>2, <3>1, <3>2
    <3> QED BY <2>1, <3>3
  <2>4. CASE h < nextHeight
    <3>1. PICK i \in 1..Len(heightChan) : i = h - Unfetched + 1
      <4>1. h - Unfetched + 1 \in 1..Len(heightChan)
        BY <1>2, <1>6, <2>4 DEF Unfetched
      <4> QED BY <4>1
    <3>2. \A j \in 1..Len(heightChan) : heightChan[j] = h <=> j = i
      BY <1>2, <1>4, <3>1 DEF Unfetched
    <3>3. HC = {<<"heightChan", i>>}
      BY <1>2, <3>2
    <3>4. HS = {}
      BY <1>3, <2>4
    <3> HIDE DEF HS, HC, HR, HQ, HD
    <3>5. Holders(h) = {<<"heightChan", i>>}
      BY <1>1, <2>2, <3>3, <3>4
    <3> QED BY <2>1, <3>5
  <2>5. h >= nextHeight \/ h < nextHeight
    BY <1>2
  <2> HIDE DEF HS, HC, HR, HQ, HD
  <2> QED BY <2>3, <2>4, <2>5
<1> QED BY <1>5, <1>6

(* ProcessBlocks loses no height and hands none to two goroutines.          *)
THEOREM PoolHeightInOnePlace == Spec => []HeightInOnePlace
<1>1. ASSUME WInv PROVE HeightInOnePlace
  <2>1. SUFFICES ASSUME caller = "range", NEW h \in startHeight..Len(Chain)
                 PROVE  IF h \in settled THEN Holders(h) = {} ELSE Cardinality(Holders(h)) = 1
    BY DEF HeightInOnePlace
  <2>2. /\ h \in settled => Holders(h) = {}
        /\ h \notin settled => \E p : Holders(h) = {p}
    BY <1>1, <2>1, PlacedHeld DEF WInv, RangeInv
  <2> QED BY <2>2, FS_Singleton
<1> QED BY PoolInvariance, <1>1, PTL

(* What updateIndexProgress overtakes is in flight and less than one block  *)
(* per worker and queue place, for any number of workers.                   *)
THEOREM PoolGapInFlight == Spec => []GapInFlight
<1>1. ASSUME WInv, caller = "range" PROVE GapInFlight
  <2>1. TypeOK /\ FetchOrder /\ \A h \in startHeight..Len(Chain) : Placed(h)
    BY <1>1 DEF WInv, RangeInv
  <2>2. ASSUME NEW h \in Gap
        PROVE  \E place \in Holders(h) : place[1] \in {"rpc", "workQueue", "db"}
    <3>1. /\ startHeight \in Nat /\ nextHeight \in Nat /\ nextHeight <= Len(Chain) + 1
          /\ Len(heightChan) \in Nat /\ index_progress.height \in Nat /\ Len(Chain) \in Nat
      BY <2>1, ChainFacts DEF TypeOK, Heights
    <3>2. h \in startHeight..index_progress.height /\ h \notin settled
      BY DEF Gap
    <3>3. h \in startHeight..Len(Chain) /\ h < Unfetched
      BY <2>1, <3>1, <3>2 DEF FetchOrder, Unfetched
    <3>4. Carried(h)
      BY <2>1, <3>2, <3>3 DEF Placed
    <3> QED BY <2>1, <3>3, <3>4, PlacedHeld
  <2>3. Cardinality(Gap) < GapBound
    BY <1>1 DEF WInv, RangeInv
  <2> QED BY <1>1, <2>2, <2>3 DEF GapInFlight, Gap, GapBound, WInv, StoreInv
<1>2. caller # "range" => GapInFlight
  BY DEF GapInFlight
<1>3. WInv => GapInFlight
  BY <1>1, <1>2
<1> QED BY PoolInvariance, <1>3, PTL
-----------------------------------------------------------------------------
(* The worker pool implements the archive *)

(* What a step about block b has to do to the tables to be a step of the    *)
(* archive about b.                                                         *)
LEMMA ArchiveStep ==
    ASSUME utxo \in [OutPoint -> Row], utxo' \in [OutPoint -> Row], NEW b \in Block,
           StoredTxs(transaction') \in {StoredTxs(transaction), StoredTxs(transaction) \cup TxsOf[b]},
           \A o \in OutPoint : OutputRecorded(utxo, utxo', b, o),
           index_progress'.hash \in {index_progress.hash, NoBlock, b},
           \/ utxo' = utxo /\ index_progress'.hash # b
           \/ TxsOf[b] \subseteq StoredTxs(transaction')
    PROVE  Arch!Record(b)
<1>1. OutputStates(utxo') \in [OutPoint -> {"none", "unspent", "spent"}]
  BY StatesOfRows
<1>2. ASSUME NEW o \in OutPoint
      PROVE  Arch!RecordOutput(b, o)
  <2>1. OutputRecorded(utxo, utxo', b, o)
    OBVIOUS
  <2> QED BY <2>1, StatesRecorded DEF Arch!RecordOutput, Arch!Creates, Arch!Spends
<1>3. utxo' = utxo => OutputStates(utxo') = OutputStates(utxo)
  OBVIOUS
<1> QED BY <1>1, <1>2, <1>3 DEF Arch!Record

(* Empty tables are an empty archive. *)
LEMMA InitArchive == Init => Arch!Init
BY EmptyTablesShow DEF Init, Arch!Init

(* The transaction of a DB worker, from rows an RPC worker read long ago,   *)
(* stores the block of the item.                                            *)
LEMMA StoreItemRecords ==
    ASSUME TablesType, StoreInv, NEW i, ItemOK(i), StoreItem(i)
    PROVE  i.block \in Block /\ Arch!Record(i.block)
<1>1. PICK b \in Block : b = i.block
  BY DEF ItemOK, Item
<1>2. PICK N \in SUBSET OutPoint, S \in SUBSET InputsOf(b) :
           N = i.work.new /\ S = i.work.spent /\ \A o \in N : Creator[o] \in TxsOf[b]
  <2>1. i.work \in Work
    BY DEF ItemOK, Item
  <2> QED BY <1>1, <2>1 DEF ItemOK, Work
<1>3. /\ transaction' = BatchStoreTransactions(transaction, b)
      /\ utxo' = BulkMarkUTXOsSpent(BulkUpsertUTXOs(utxo, N, b), S, b)
      /\ index_progress'.hash = b
  BY <1>1, <1>2 DEF StoreItem
<1>4. /\ transaction \in [Tx -> Block \cup {NoBlock}]
      /\ utxo \in [OutPoint -> Row] /\ utxo' \in [OutPoint -> Row]
  BY StoreItemKeeps DEF TablesType
<1>5. StoredTxs(transaction') = StoredTxs(transaction) \cup TxsOf[b]
  BY <1>3, <1>4, StoredGrows
<1>6. \A o \in OutPoint : OutputRecorded(utxo, utxo', b, o)
  BY <1>2, <1>3, <1>4, StoreRecords
<1> QED BY <1>1, <1>3, <1>4, <1>5, <1>6, ArchiveStep

(* Every step of the pool stores an item or leaves the archive alone.       *)
LEMMA StepArchive == WInv /\ [Next]_vars => [Arch!Next]_(Arch!archive)
<1> SUFFICES ASSUME WInv, [Next]_vars PROVE [Arch!Next]_(Arch!archive)
  OBVIOUS
<1>1. CASE UNCHANGED <<transaction, utxo, index_progress>>
  BY <1>1 DEF Arch!archive, StoredTxs, Stored, OutputStates
<1>2. ASSUME NEW d \in DBWorkers, dbw[d].at = "store", StoreItem(dbw[d].item)
      PROVE  Arch!Next
  <2>1. TablesType /\ StoreInv /\ ItemOK(dbw[d].item)
    BY <1>2, TypeParts DEF WInv, ItemsInv
  <2> QED BY <1>2, <2>1, StoreItemRecords DEF Arch!Next
<1>3. \/ UNCHANGED <<transaction, utxo, index_progress>>
      \/ \E d \in DBWorkers : dbw[d].at = "store" /\ StoreItem(dbw[d].item)
  BY DEF Next, vars, database, SendHeight, CloseHeights, RPCNext, RPCReceive, RPCFetch, RPCSend, RPCGivesUp,
         DBNext, DBReceive, DBStore, DBStoreFails, DBSendResult, DBDropsResult, RangeResults, ProcessResults,
         Crash, Restart
<1> QED BY <1>1, <1>2, <1>3

(* The worker pool, with its queues, timeouts, crashes and blocks stored    *)
(* out of order, implements the archive.                                    *)
THEOREM PoolImplementsArchive == Spec => ImplementsArchive
<1>1. Init => Arch!Init
  BY InitArchive
<1>2. WInv /\ [Next]_vars => [Arch!Next]_(Arch!archive)
  BY StepArchive
<1> QED BY PoolInvariance, <1>1, <1>2, PTL DEF Spec, ImplementsArchive, Arch!Spec
=============================================================================
