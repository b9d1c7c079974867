--------------------------- MODULE BackfillProofs ---------------------------
(***************************************************************************)
(* ProcessBlocksParallel with any number of workers, any chain, any range   *)
(* of heights and any number of failures and retries.                       *)
(***************************************************************************)
EXTENDS ParallelBackfill, IndexStoreProofs, FiniteSetTheorems, SequenceTheorems

(* The stages that follow a committed transactions stage, the parser and a  *)
(* committed outputs stage.                                                 *)
AfterTransactions == {"parse", "outputs", "spends", "references", "progress", "metrics"}
AfterParse == {"outputs", "spends", "references", "progress", "metrics"}
AfterOutputs == {"spends", "references", "progress", "metrics"}

(* What a worker's stage says of its block: the stages before it are done.  *)
WorkerOK(w) ==
    LET s == worker[w]
        b == BlockAt(Chain, s.height) IN
    /\ s.at \in Stage \cup {"metrics", "error"} => s.height \in Heights
    /\ s.at \in AfterTransactions => \A t \in TxsOf[b] : Stored(transaction, t)
    /\ s.at \in AfterParse => /\ s.work.new = {o \in OutPoint : Creator[o] \in TxsOf[b]}
                              /\ s.work.spent \subseteq InputsOf(b)
    /\ s.at \in AfterOutputs => Complete(b)

(* Height h is in the channel, or with a worker that has not failed on it.  *)
InChan(i, h) == blockChan[i] = h
With(w, h) == worker[w].at \in Stage \cup {"metrics"} /\ worker[w].height = h
Carried(h) ==
    \/ \E i \in 1..Len(blockChan) : InChan(i, h)
    \/ \E w \in Worker : With(w, h)

(* At most one worker or place of the channel carries height h. *)
CarriedOnce(h) ==
    /\ \A i, j \in 1..Len(blockChan) : InChan(i, h) /\ InChan(j, h) => i = j
    /\ \A v, w \in Worker : With(v, h) /\ With(w, h) => v = w
    /\ \A i \in 1..Len(blockChan), w \in Worker : ~(InChan(i, h) /\ With(w, h))

(* A dispatched height is carried, has failed or is counted. *)
Counted(h) == h < nextHeight /\ h \notin failedBlocks /\ ~Carried(h)

Placed(h) ==
    /\ CarriedOnce(h)
    /\ Carried(h) => h < nextHeight /\ h \notin failedBlocks
    /\ h \in failedBlocks => h < nextHeight
    /\ Counted(h) => Complete(BlockAt(Chain, h))

(* How the goroutines come to an end. *)
CloseInv ==
    /\ blockClosed => nextHeight > Len(Chain) \/ stopChan
    /\ \A w \in Worker : worker[w].at = "done" => blockClosed /\ blockChan = << >>
    /\ caller # "waiting" => \A w \in Worker : worker[w].at = "done"
    /\ stopped => caller # "waiting"
    /\ stopped /\ ~saveFailed => metricsFile = rangeMetrics

CountedIn(r) == {h \in Heights : RangeOf(h) = r /\ Counted(h)}
CountInv == \A r \in Ranges : rangeMetrics[r] = Cardinality(CountedIn(r))

TablesInv ==
    /\ ProgressNamesComplete
    /\ RowsExplained
    /\ \A w \in Worker : WorkerOK(w)

PlacesInv == \A h \in Heights : Placed(h)

BInv == TypeOK /\ TablesInv /\ PlacesInv /\ CloseInv /\ CountInv

TablesType ==
    /\ transaction \in [Tx -> Block \cup {NoBlock}]
    /\ utxo \in [OutPoint -> Row]
    /\ tx_reference \subseteq RefKey
    /\ index_progress \in [height : {0} \cup Heights, hash : Block \cup {NoBlock}]

ChannelsType ==
    /\ nextHeight \in StartHeight..(Len(Chain) + 1)
    /\ blockChan \in Seq(Heights) /\ Len(blockChan) <= 2 * Cardinality(Worker)
    /\ errorChan \in Seq(Heights) /\ Len(errorChan) <= Cardinality(Worker)
    /\ blockClosed \in BOOLEAN /\ stopChan \in BOOLEAN /\ stopped \in BOOLEAN
    /\ worker \in [Worker -> WorkerState]
    /\ errors \subseteq Heights /\ failedBlocks \subseteq Heights
    /\ caller \in {"waiting", "nil", "error"}
    /\ faults \in 0..MaxFaults

MetricsType ==
    /\ rangeMetrics \in [Ranges -> Nat] /\ metricsFile \in [Ranges -> Nat] \cup {<< >>}
    /\ savers \in Nat /\ saveFailed \in BOOLEAN

(* The three parts of TypeOK. *)
LEMMA TypeParts == TypeOK <=> TablesType /\ ChannelsType /\ MetricsType
BY DEF TypeOK, TablesType, ChannelsType, MetricsType

(* The chain of the node: a block of the right height at every height.      *)
LEMMA ChainFacts ==
    /\ Len(Chain) \in Nat /\ StartHeight \in Nat /\ StartHeight >= 1
    /\ \A h \in Heights : h \in Nat /\ h # 0 /\ BlockAt(Chain, h) \in Block /\ HeightOf[BlockAt(Chain, h)] = h
<1>1. Chain \in Seq(Block) /\ Chain \in Chains /\ StartHeight \in 1..Len(Chain)
  BY BackfillAssumption, ChainsAssumption
<1>2. Len(Chain) \in Nat /\ Chain \in [1..Len(Chain) -> Block]
  BY <1>1
<1>3. StartHeight \in Nat /\ StartHeight >= 1
  BY <1>1, <1>2
<1>4. ASSUME NEW h \in Heights
      PROVE  h \in Nat /\ h # 0 /\ BlockAt(Chain, h) \in Block /\ HeightOf[BlockAt(Chain, h)] = h
  <2>1. h \in 1..Len(Chain) /\ h # 0
    BY <1>2, <1>3 DEF Heights
  <2> QED BY <1>1, <1>2, <2>1, ChainsAssumption DEF BlockAt
<1> QED BY <1>2, <1>3, <1>4

(* The order of the stages. *)
LEMMA StageFacts ==
    /\ Stage = {"fetch", "transactions", "parse", "outputs", "spends", "references", "progress"}
    /\ After("fetch") = "transactions"
    /\ After("transactions") = "parse"
    /\ After("parse") = "outputs"
    /\ After("outputs") = "spends"
    /\ After("spends") = "references"
    /\ After("references") = "progress"
    /\ After("progress") = "metrics"
<1>1. /\ DOMAIN Stages = 1..7 /\ Len(Stages) = 7
      /\ Stages[1] = "fetch" /\ Stages[2] = "transactions" /\ Stages[3] = "parse"
      /\ Stages[4] = "outputs" /\ Stages[5] = "spends" /\ Stages[6] = "references"
      /\ Stages[7] = "progress"
  BY DEF Stages
<1>2. Stage = {"fetch", "transactions", "parse", "outputs", "spends", "references", "progress"}
  BY <1>1 DEF Stage
<1>3. ASSUME NEW i \in 1..7
      PROVE  After(Stages[i]) = IF i = 7 THEN "metrics" ELSE Stages[i + 1]
  <2> DEFINE j == CHOOSE k \in DOMAIN Stages : Stages[k] = Stages[i]
  <2>1. j \in 1..7 /\ Stages[j] = Stages[i]
    BY <1>1
  <2>2. j = i
    BY <1>1, <2>1
  <2> QED BY <1>1, <2>2 DEF After
<1>4. /\ After("fetch") = "transactions"
      /\ After("transactions") = "parse"
      /\ After("parse") = "outputs"
  BY <1>1, <1>3
<1>5. /\ After("outputs") = "spends"
      /\ After("spends") = "references"
      /\ After("references") = "progress"
      /\ After("progress") = "metrics"
  BY <1>1, <1>3
<1> QED BY <1>2, <1>4, <1>5

(* A worker that waits or has returned has no block. *)
LEMMA WaitingState ==
    /\ Waiting \in WorkerState /\ Waiting.at = "range"
    /\ [Waiting EXCEPT !.at = "done"] \in WorkerState /\ [Waiting EXCEPT !.at = "done"].at = "done"
<1>1. NoWork \in Work
  BY DEF NoWork, Work
<1> QED BY <1>1 DEF Waiting, WorkerState

(* What a stage commits, once or again: rows are added and never taken      *)
(* away, and stay explained.                                                *)
LEMMA EffectKeeps ==
    ASSUME TablesType, RowsExplained, ProgressNamesComplete,
           NEW stage, NEW h \in Heights, NEW k \in Work, Effect(stage, h, k),
           stage \in AfterTransactions => \A t \in TxsOf[BlockAt(Chain, h)] : Stored(transaction, t),
           stage \in AfterParse =>
               /\ k.new = {o \in OutPoint : Creator[o] \in TxsOf[BlockAt(Chain, h)]}
               /\ k.spent \subseteq InputsOf(BlockAt(Chain, h)),
           stage \in AfterOutputs => Complete(BlockAt(Chain, h))
    PROVE  /\ TablesType' /\ RowsExplained' /\ ProgressNamesComplete'
           /\ \A t \in Tx : Stored(transaction, t) => Stored(transaction, t)'
           /\ \A o \in OutPoint : HasRow(utxo, o) => HasRow(utxo, o)'
           /\ stage = "transactions" => \A t \in TxsOf[BlockAt(Chain, h)] : Stored(transaction, t)'
           /\ stage = "outputs" => Complete(BlockAt(Chain, h))'
<1> DEFINE b == BlockAt(Chain, h)
<1>1. b \in Block /\ HeightOf[b] = h /\ TxsOf[b] \subseteq Tx /\ NoBlock \notin Block
  BY ChainFacts, DataAssumption
<1>2. /\ transaction \in [Tx -> Block \cup {NoBlock}] /\ utxo \in [OutPoint -> Row]
      /\ tx_reference \subseteq RefKey /\ k.new \subseteq OutPoint /\ k.refs \subseteq Ref
  BY DEF TablesType, Work
<1> HIDE DEF b
<1>3. ASSUME UNCHANGED index_progress,
             \A t \in Tx : Stored(transaction, t) => Stored(transaction, t)',
             \A o \in OutPoint : HasRow(utxo, o) => HasRow(utxo, o)'
      PROVE  ProgressNamesComplete'
  <2>1. index_progress.hash \in Block \cup {NoBlock}
    BY DEF TablesType
  <2>2. \A a \in Block : TxsOf[a] \subseteq Tx
    BY DataAssumption
  <2> QED BY <1>3, <2>1, <2>2 DEF ProgressNamesComplete, Complete
<1>4. CASE stage \in {"fetch", "parse"} /\ UNCHANGED database
  <2>1. UNCHANGED <<transaction, utxo, tx_reference, index_progress>>
    BY <1>4 DEF database
  <2> QED BY <1>3, <1>4, <2>1 DEF TablesType, RowsExplained, Stored, HasRow, Heights
<1>5. CASE stage = "transactions" /\ ProcessTransactionsBatch(b)
  <2>1. /\ transaction' = [t \in Tx |-> IF t \in TxsOf[b] THEN b ELSE transaction[t]]
        /\ UNCHANGED <<utxo, tx_reference, index_progress>>
    BY <1>5 DEF ProcessTransactionsBatch, BatchUpsertTransactions
  <2>2. /\ \A t \in Tx : Stored(transaction, t) => Stored(transaction, t)'
        /\ \A t \in TxsOf[b] : Stored(transaction, t)'
    BY <1>1, <2>1 DEF Stored
  <2>3. transaction' \in [Tx -> Block \cup {NoBlock}]
    BY <1>1, <1>2, <2>1
  <2>4. TablesType'
    BY <2>1, <2>3 DEF TablesType
  <2>5. \A o \in OutPoint : HasRow(utxo, o) <=> HasRow(utxo, o)'
    BY <2>1 DEF HasRow
  <2>6. RowsExplained'
    <3>1. \A o \in OutPoint : Creator[o] \in Tx
      BY DataAssumption
    <3> QED BY <2>1, <2>2, <2>5, <3>1 DEF RowsExplained
  <2> QED BY <1>3, <1>5, <2>1, <2>2, <2>4, <2>5, <2>6 DEF b
<1>6. CASE stage = "outputs" /\ UpsertOutputs(k.new, b)
  <2>1. /\ utxo' = [o \in OutPoint |->
                       IF o \in k.new THEN [utxo[o] EXCEPT !.status = "confirmed", !.block = b] ELSE utxo[o]]
        /\ UNCHANGED <<transaction, tx_reference, index_progress>>
    BY <1>6 DEF UpsertOutputs, BulkUpsertUTXOs
  <2>2. utxo' \in [OutPoint -> Row]
    BY <1>1, <1>2, <2>1 DEF Row, Status
  <2>3. /\ \A o \in OutPoint : HasRow(utxo, o)' <=> HasRow(utxo, o) \/ o \in k.new
        /\ \A o \in OutPoint : utxo'[o].status = "spent" => utxo'[o] = utxo[o]
    BY <1>2, <2>1 DEF HasRow, Row
  <2>4. TablesType'
    BY <2>1, <2>2 DEF TablesType
  <2>5. /\ \A t \in TxsOf[b] : Stored(transaction, t)
        /\ \A o \in OutPoint : o \in k.new <=> Creator[o] \in TxsOf[b]
    BY <1>6 DEF AfterTransactions, AfterParse, b
  <2>6. RowsExplained'
    BY <2>1, <2>3, <2>5 DEF RowsExplained, Stored
  <2>7. Complete(b)'
    BY <1>1, <2>1, <2>3, <2>5 DEF Complete, Stored
  <2> QED BY <1>3, <1>6, <2>1, <2>3, <2>4, <2>6, <2>7 DEF b, Stored
<1>7. CASE stage = "spends" /\ MarkSpends(k.spent, b)
  <2>1. /\ utxo' = [o \in OutPoint |->
                      IF o \in k.spent /\ utxo[o].status # "none"
                      THEN [utxo[o] EXCEPT !.status = "spent", !.spentBy = Spender(b, o)] ELSE utxo[o]]
        /\ UNCHANGED <<transaction, tx_reference, index_progress>>
    BY <1>7 DEF MarkSpends, BatchMarkUTXOsSpent
  <2>2. /\ \A t \in TxsOf[b] : Stored(transaction, t)
        /\ k.spent \subseteq InputsOf(b)
    BY <1>7 DEF AfterTransactions, AfterParse, b
  <2>3. \A o \in k.spent : /\ Spender(b, o) \in TxsOf[b] /\ Spender(b, o) \in Tx
                           /\ o \in Vin[Spender(b, o)]
    BY <1>1, <2>2, SpenderInBlock
  <2>4. ASSUME NEW o \in OutPoint
        PROVE  /\ utxo'[o] \in Row
               /\ HasRow(utxo, o)' <=> HasRow(utxo, o)
               /\ utxo'[o].status = "spent" =>
                     utxo'[o] = utxo[o] \/ (o \in k.spent /\ utxo'[o].spentBy = Spender(b, o))
    <3>1. PICK sp : sp = Spender(b, o)
      OBVIOUS
    <3>2. utxo'[o] = IF o \in k.spent /\ utxo[o].status # "none"
                     THEN [utxo[o] EXCEPT !.status = "spent", !.spentBy = sp] ELSE utxo[o]
      BY <2>1, <3>1
    <3>3. o \in k.spent => sp \in Tx
      BY <2>3, <3>1
    <3>4. utxo[o] \in Row
      BY <1>2
    <3> QED BY <3>1, <3>2, <3>3, <3>4 DEF HasRow, Row, Status
  <2>5. utxo' \in [OutPoint -> Row]
    <3>1. utxo' = [o \in OutPoint |-> utxo'[o]]
      BY <2>1
    <3> QED BY <2>4, <3>1
  <2>6. TablesType'
    BY <2>1, <2>5 DEF TablesType
  <2>7. RowsExplained'
    <3>1. ASSUME NEW o \in OutPoint
          PROVE  /\ HasRow(utxo', o) => Stored(transaction', Creator[o])
                 /\ utxo'[o].status = "spent" =>
                       /\ utxo'[o].spentBy \in Tx /\ Stored(transaction', utxo'[o].spentBy)
                       /\ o \in Vin[utxo'[o].spentBy]
      <4>1. HasRow(utxo', o) => Stored(transaction', Creator[o])
        BY <2>1, <2>4 DEF RowsExplained, HasRow, Stored
      <4>2. CASE utxo'[o] = utxo[o]
        BY <2>1, <4>1, <4>2 DEF RowsExplained, Stored
      <4>3. CASE o \in k.spent /\ utxo'[o].spentBy = Spender(b, o)
        BY <2>1, <2>2, <2>3, <4>1, <4>3 DEF Stored
      <4> QED BY <2>4, <4>1, <4>2, <4>3
    <3> QED BY <3>1 DEF RowsExplained
  <2> QED BY <1>3, <1>7, <2>1, <2>4, <2>6, <2>7 DEF Stored
<1>8. CASE stage = "references" /\ UpsertReferences(k.refs)
  <2>1. /\ tx_reference' = tx_reference \cup {r.key : r \in k.refs}
        /\ UNCHANGED <<transaction, utxo, index_progress>>
    BY <1>8 DEF UpsertReferences
  <2>2. tx_reference' \subseteq RefKey
    BY <1>2, <2>1 DEF Ref
  <2> QED BY <1>3, <1>8, <2>1, <2>2 DEF TablesType, RowsExplained, Stored, HasRow
<1>9. CASE stage = "progress" /\ UpdateIndexProgress(h, b)
  <2>1. /\ index_progress' = [height |-> h, hash |-> b]
        /\ UNCHANGED <<transaction, utxo, tx_reference>>
    BY <1>9 DEF UpdateIndexProgress
  <2>2. Complete(b)'
    BY <1>9, <2>1 DEF AfterOutputs, Complete, Stored, HasRow, b
  <2>3. ProgressNamesComplete'
    BY <1>1, <2>1, <2>2 DEF ProgressNamesComplete
  <2>4. TablesType'
    BY <1>1, <2>1 DEF TablesType
  <2> QED BY <1>9, <2>1, <2>3, <2>4 DEF RowsExplained, Stored, HasRow
<1>10. \/ stage \in {"fetch", "parse"} /\ UNCHANGED database
       \/ stage = "transactions" /\ ProcessTransactionsBatch(b)
       \/ stage = "outputs" /\ UpsertOutputs(k.new, b)
       \/ stage = "spends" /\ MarkSpends(k.spent, b)
       \/ stage = "references" /\ UpsertReferences(k.refs)
       \/ stage = "progress" /\ UpdateIndexProgress(h, b)
  BY DEF Effect, b
<1> QED BY <1>4, <1>5, <1>6, <1>7, <1>8, <1>9, <1>10

(* A worker moves on, the others stay. *)
LEMMA WorkerUpdate ==
    ASSUME ChannelsType, NEW w \in Worker, NEW s \in WorkerState, worker' = [worker EXCEPT ![w] = s]
    PROVE  /\ worker' \in [Worker -> WorkerState]
           /\ worker'[w] = s
           /\ \A v \in Worker : v # w => worker'[v] = worker[v]
BY DEF ChannelsType

(* Nothing a stage commits undoes what another worker relies on. *)
LEMMA OtherWorkerOK ==
    ASSUME ChannelsType, NEW v \in Worker, WorkerOK(v), worker'[v] = worker[v],
           \A t \in Tx : Stored(transaction, t) => Stored(transaction, t)',
           \A o \in OutPoint : HasRow(utxo, o) => HasRow(utxo, o)'
    PROVE  WorkerOK(v)'
<1>1. PICK s \in WorkerState : s = worker[v]
  BY DEF ChannelsType
<1>2. s = worker'[v]
  BY <1>1
<1> DEFINE b == BlockAt(Chain, s.height)
<1>3. s.at \in Stage \cup {"metrics", "error"} => s.height \in Heights
  BY <1>1 DEF WorkerOK
<1>4. s.at \in AfterTransactions => s.height \in Heights
  BY <1>3, StageFacts DEF AfterTransactions
<1>5. s.at \in AfterTransactions => TxsOf[b] \subseteq Tx
  BY <1>4, ChainFacts, DataAssumption
<1>6. s.at \in AfterParse => s.at \in AfterTransactions
  BY DEF AfterTransactions, AfterParse
<1>7. s.at \in AfterOutputs => s.at \in AfterTransactions
  BY DEF AfterTransactions, AfterOutputs
<1>8. s.at \in AfterTransactions => \A t \in TxsOf[b] : Stored(transaction, t)'
  BY <1>1, <1>5 DEF WorkerOK
<1>9. s.at \in AfterParse => /\ s.work.new = {o \in OutPoint : Creator[o] \in TxsOf[b]}
                             /\ s.work.spent \subseteq InputsOf(b)
  BY <1>1 DEF WorkerOK
<1>10. s.at \in AfterOutputs => Complete(b)'
  <2>1. s.at \in AfterOutputs => Complete(b)
    BY <1>1 DEF WorkerOK
  <2> QED BY <1>5, <1>7, <2>1 DEF Complete
<1> QED BY <1>2, <1>3, <1>8, <1>9, <1>10 DEF WorkerOK

(* A worker without a block, one that starts and one that has failed rely   *)
(* on nothing in the tables.                                                *)
LEMMA FreshWorkerOK ==
    ASSUME NEW w \in Worker, NEW s \in WorkerState, worker'[w] = s,
           s.at \in {"range", "done", "fetch", "error"},
           s.at \in {"fetch", "error"} => s.height \in Heights
    PROVE  WorkerOK(w)'
<1>1. /\ s.at \in Stage \cup {"metrics", "error"} => s.height \in Heights
      /\ s.at \notin AfterTransactions /\ s.at \notin AfterParse /\ s.at \notin AfterOutputs
  BY StageFacts DEF AfterTransactions, AfterParse, AfterOutputs
<1> QED BY <1>1 DEF WorkerOK

(* The tables and what the workers rely on, when the tables stay. *)
LEMMA TablesStay ==
    ASSUME ChannelsType, TablesType, TablesInv, UNCHANGED database,
           \A v \in Worker : worker'[v] = worker[v] \/ WorkerOK(v)'
    PROVE  TablesType' /\ TablesInv'
<1>1. UNCHANGED <<transaction, utxo, tx_reference, index_progress>>
  BY DEF database
<1>2. TablesType'
  BY <1>1 DEF TablesType, Heights
<1>3. ProgressNamesComplete' /\ RowsExplained'
  BY <1>1 DEF TablesInv, ProgressNamesComplete, RowsExplained, Complete, Stored, HasRow
<1>4. /\ \A t \in Tx : Stored(transaction, t) => Stored(transaction, t)'
      /\ \A o \in OutPoint : HasRow(utxo, o) => HasRow(utxo, o)'
  BY <1>1 DEF Stored, HasRow
<1>5. \A v \in Worker : WorkerOK(v)'
  BY <1>4, OtherWorkerOK DEF TablesInv
<1> QED BY <1>2, <1>3, <1>5 DEF TablesInv

(* The effect of the stage a worker is at, on the tables and on the others. *)
LEMMA StageKeeps ==
    ASSUME ChannelsType, TablesType, TablesInv, NEW w \in Worker, worker[w].at \in Stage,
           \/ Effect(worker[w].at, worker[w].height, worker[w].work)
           \/ UNCHANGED database,
           \A v \in Worker : v # w => worker'[v] = worker[v],
           \/ worker'[w] = worker[w]
           \/ WorkerOK(w)'
    PROVE  TablesType' /\ TablesInv'
<1>1. CASE UNCHANGED database
  BY <1>1, TablesStay
<1>2. CASE Effect(worker[w].at, worker[w].height, worker[w].work)
  <2>1. PICK s \in WorkerState : s = worker[w]
    BY DEF ChannelsType
  <2>2. s.height \in Heights /\ s.work \in Work
    BY <2>1 DEF WorkerState, TablesInv, WorkerOK
  <2>3. WorkerOK(w) /\ RowsExplained /\ ProgressNamesComplete
    BY DEF TablesInv
  <2>4. /\ s.at \in AfterTransactions => \A t \in TxsOf[BlockAt(Chain, s.height)] : Stored(transaction, t)
        /\ s.at \in AfterParse =>
               /\ s.work.new = {o \in OutPoint : Creator[o] \in TxsOf[BlockAt(Chain, s.height)]}
               /\ s.work.spent \subseteq InputsOf(BlockAt(Chain, s.height))
        /\ s.at \in AfterOutputs => Complete(BlockAt(Chain, s.height))
    BY <2>1, <2>3 DEF WorkerOK
  <2>5. Effect(s.at, s.height, s.work)
    BY <1>2, <2>1
  <2>6. /\ TablesType' /\ RowsExplained' /\ ProgressNamesComplete'
        /\ \A t \in Tx : Stored(transaction, t) => Stored(transaction, t)'
        /\ \A o \in OutPoint : HasRow(utxo, o) => HasRow(utxo, o)'
    BY <2>2, <2>3, <2>4, <2>5, EffectKeeps
  <2>7. \A v \in Worker : WorkerOK(v)'
    BY <2>6, OtherWorkerOK DEF TablesInv
  <2> QED BY <2>6, <2>7 DEF TablesInv
<1> QED BY <1>1, <1>2

(* A worker whose stage has been committed is ready for the next one. *)
LEMMA StageDone ==
    ASSUME ChannelsType, TablesType, TablesInv, NEW w \in Worker, ProcessStage(w)
    PROVE  \E s \in WorkerState :
              /\ worker' = [worker EXCEPT ![w] = s]
              /\ s.at \in Stage \cup {"metrics"} /\ s.height = worker[w].height
              /\ WorkerOK(w)'
<1>1. PICK s \in WorkerState : s = worker[w]
  BY DEF ChannelsType
<1> DEFINE b == BlockAt(Chain, s.height)
           k == ParseBlockWithCache(b, utxo, Watched)
<1>2. s.at \in Stage /\ s.height \in Heights /\ s.work \in Work /\ b \in Block
  <2>1. s.at \in Stage
    BY <1>1 DEF ProcessStage
  <2>2. s.height \in Heights
    BY <1>1, <2>1 DEF TablesInv, WorkerOK
  <2> QED BY <2>1, <2>2, ChainFacts DEF WorkerState
<1>3. /\ k \in Work
      /\ k.new = {o \in OutPoint : Creator[o] \in TxsOf[b]}
      /\ k.spent \subseteq InputsOf(b)
  BY <1>2, ParseResult, BackfillAssumption DEF TablesType
<1>4. PICK a : a = After(s.at)
  OBVIOUS
<1>5. PICK j : j = IF s.at = "parse" THEN k ELSE s.work
  OBVIOUS
<1>6. j \in Work
  BY <1>2, <1>3, <1>5
<1>7. a \in Stage \cup {"metrics"}
  BY <1>2, <1>4, StageFacts
<1> DEFINE n == [s EXCEPT !.at = a, !.work = j]
<1>8. n \in WorkerState
  BY <1>2, <1>6, <1>7 DEF WorkerState
<1>9. n.at = a /\ n.height = s.height /\ n.work = j
  BY DEF WorkerState
<1>10. worker' = [worker EXCEPT ![w] = n]
  <2>1. worker' = [worker EXCEPT ![w] =
                      [s EXCEPT !.at = a, !.work = IF s.at = "parse" THEN k ELSE s.work]]
    BY <1>1, <1>4 DEF ProcessStage
  <2> HIDE DEF k
  <2> QED BY <1>5, <2>1
<1> HIDE DEF n, k
<1>11. worker'[w] = n
  BY <1>8, <1>10, WorkerUpdate
<1>12. /\ s.at \in AfterTransactions => \A t \in TxsOf[b] : Stored(transaction, t)
       /\ s.at \in AfterParse =>
              /\ s.work.new = {o \in OutPoint : Creator[o] \in TxsOf[b]}
              /\ s.work.spent \subseteq InputsOf(b)
       /\ s.at \in AfterOutputs => Complete(b)
  BY <1>1 DEF TablesInv, WorkerOK
<1>13. Effect(s.at, s.height, s.work)
  BY <1>1 DEF ProcessStage
<1>14. /\ \A t \in Tx : Stored(transaction, t) => Stored(transaction, t)'
       /\ \A o \in OutPoint : HasRow(utxo, o) => HasRow(utxo, o)'
       /\ s.at = "transactions" => \A t \in TxsOf[b] : Stored(transaction, t)'
       /\ s.at = "outputs" => Complete(b)'
  BY <1>2, <1>12, <1>13, EffectKeeps DEF TablesInv
<1>15. TxsOf[b] \subseteq Tx
  BY <1>2, DataAssumption
<1>16. a \in AfterTransactions => \A t \in TxsOf[b] : Stored(transaction, t)'
  <2>1. a \in AfterTransactions => s.at = "transactions" \/ s.at \in AfterTransactions
    BY <1>2, <1>4, StageFacts DEF AfterTransactions
  <2> QED BY <1>12, <1>14, <1>15, <2>1
<1>17. a \in AfterParse => /\ j.new = {o \in OutPoint : Creator[o] \in TxsOf[b]}
                           /\ j.spent \subseteq InputsOf(b)
  <2>1. a \in AfterParse => s.at = "parse" \/ (s.at \in AfterParse /\ s.at # "parse")
    BY <1>2, <1>4, StageFacts DEF AfterParse
  <2> QED BY <1>3, <1>5, <1>12, <2>1
<1>18. a \in AfterOutputs => Complete(b)'
  <2>1. a \in AfterOutputs => s.at = "outputs" \/ s.at \in AfterOutputs
    BY <1>2, <1>4, StageFacts DEF AfterOutputs
  <2>2. Complete(b) => Complete(b)'
    BY <1>14, <1>15 DEF Complete
  <2> QED BY <1>12, <1>14, <2>1, <2>2
<1>19. WorkerOK(w)'
  BY <1>2, <1>9, <1>11, <1>16, <1>17, <1>18 DEF WorkerOK
<1> QED BY <1>1, <1>7, <1>8, <1>9, <1>10, <1>19

(* A worker that receives takes the head of the channel, or finds it closed *)
(* and empty and returns.                                                   *)
LEMMA ReceiveEffect ==
    ASSUME ChannelsType, NEW w \in Worker, Receive(w)
    PROVE  \E s \in WorkerState :
              /\ worker' = [worker EXCEPT ![w] = s]
              /\ \/ /\ blockChan # << >> /\ blockChan' = Tail(blockChan)
                    /\ s.at = "fetch" /\ s.height = Head(blockChan) /\ s.height \in Heights
                 \/ /\ blockChan = << >> /\ blockChan' = << >> /\ blockClosed
                    /\ s.at = "done"
<1>1. CASE blockChan # << >>
  <2>1. PICK h \in Heights : h = Head(blockChan)
    BY <1>1 DEF ChannelsType
  <2>2. PICK s : s = [at |-> "fetch", height |-> h, work |-> NoWork]
    OBVIOUS
  <2>3. NoWork \in Work
    BY DEF NoWork, Work
  <2>4. s \in WorkerState /\ s.at = "fetch" /\ s.height = h
    BY <2>2, <2>3, StageFacts DEF WorkerState
  <2>5. worker' = [worker EXCEPT ![w] = s] /\ blockChan' = Tail(blockChan)
    BY <1>1, <2>1, <2>2 DEF Receive
  <2> QED BY <1>1, <2>1, <2>4, <2>5
<1>2. CASE blockChan = << >>
  <2>1. PICK s \in WorkerState : s = [Waiting EXCEPT !.at = "done"] /\ s.at = "done"
    BY WaitingState
  <2>2. worker' = [worker EXCEPT ![w] = s] /\ blockChan' = << >> /\ blockClosed
    BY <1>2, <2>1 DEF Receive
  <2> QED BY <1>2, <2>1, <2>2
<1> QED BY <1>1, <1>2

(* A worker that fails keeps the height it failed on. *)
LEMMA FailEffect ==
    ASSUME ChannelsType, TablesInv, NEW w \in Worker, StageFails(w)
    PROVE  \E s \in WorkerState :
              /\ worker' = [worker EXCEPT ![w] = s]
              /\ s.at = "error" /\ s.height = worker[w].height /\ s.height \in Heights
<1>1. PICK s : s = [worker[w] EXCEPT !.at = "error"]
  OBVIOUS
<1>2. worker[w] \in WorkerState /\ worker[w].height \in Heights
  BY DEF ChannelsType, StageFails, TablesInv, WorkerOK
<1>3. s \in WorkerState /\ s.at = "error" /\ s.height = worker[w].height
  BY <1>1, <1>2 DEF WorkerState
<1>4. worker' = [worker EXCEPT ![w] = s]
  BY <1>1 DEF StageFails, ChannelsType, WorkerState
<1> QED BY <1>2, <1>3, <1>4

-----------------------------------------------------------------------------
(* Types and tables *)

(* The counters of the metrics keep their types. *)
LEMMA SaveKeepsType ==
    ASSUME MetricsType, WriteMetrics, UNCHANGED rangeMetrics, savers' \in Nat, faults \in 0..MaxFaults
    PROVE  MetricsType' /\ faults' \in 0..MaxFaults
<1>1. MaxFaults \in Nat /\ faults \in Nat
  BY BackfillAssumption
<1>2. CASE metricsFile' = rangeMetrics /\ UNCHANGED <<saveFailed, faults>>
  BY <1>2 DEF MetricsType
<1>3. CASE /\ faults < MaxFaults /\ faults' = faults + 1
           /\ metricsFile' \in {metricsFile, << >>} /\ saveFailed' = TRUE
  <2>1. faults' \in 0..MaxFaults
    BY <1>1, <1>3
  <2>2. saveFailed' \in BOOLEAN
    BY <1>3, Zenon
  <2> QED BY <1>3, <2>1, <2>2 DEF MetricsType
<1> QED BY <1>2, <1>3 DEF WriteMetrics

(* Every step keeps the types and the tables. *)
LEMMA NextBase ==
    ASSUME TypeOK, TablesInv, [Next]_vars
    PROVE  TypeOK' /\ TablesInv'
<1>1. TablesType /\ ChannelsType /\ MetricsType
  BY TypeParts
<1>2. SUFFICES TablesType' /\ ChannelsType' /\ MetricsType' /\ TablesInv'
  BY DEF TypeOK, TablesType, ChannelsType, MetricsType
<1>3. /\ Len(Chain) \in Nat /\ StartHeight \in Nat /\ Cardinality(Worker) \in Nat
      /\ MaxFaults \in Nat /\ faults \in Nat
  BY <1>1, ChainFacts, BackfillAssumption, FS_CardinalityType DEF ChannelsType
<1>4. UNCHANGED metrics => MetricsType'
  BY <1>1 DEF metrics, MetricsType
<1>5. UNCHANGED database /\ UNCHANGED worker => TablesType' /\ TablesInv'
  BY <1>1, TablesStay
<1>6. faults < MaxFaults /\ faults' = faults + 1 => faults' \in 0..MaxFaults
  BY <1>3
<1>7. CASE Dispatch
  <2>1. nextHeight \in Heights
    BY <1>1, <1>3, <1>7 DEF Dispatch, ChannelsType, Heights
  <2>2. /\ blockChan' \in Seq(Heights) /\ Len(blockChan') = Len(blockChan) + 1
        /\ Len(blockChan) \in Nat
    BY <1>1, <1>7, <2>1 DEF Dispatch, ChannelsType
  <2>3. Len(blockChan') <= 2 * Cardinality(Worker)
    BY <1>3, <1>7, <2>2 DEF Dispatch
  <2>4. nextHeight' \in StartHeight..(Len(Chain) + 1)
    BY <1>3, <1>7, <2>1 DEF Dispatch, Heights
  <2>5. ChannelsType'
    BY <1>1, <1>7, <2>2, <2>3, <2>4 DEF Dispatch, ChannelsType, report, stopping, Heights
  <2> QED BY <1>4, <1>5, <1>7, <2>5 DEF Dispatch
<1>8. CASE CloseBlocks
  <2>1. blockClosed' \in BOOLEAN
    BY <1>8, Zenon DEF CloseBlocks
  <2>2. ChannelsType'
    BY <1>1, <1>8, <2>1 DEF CloseBlocks, ChannelsType, report, stopping, Heights
  <2> QED BY <1>4, <1>5, <1>8, <2>2 DEF CloseBlocks
<1>9. CASE StopRequested
  <2>1. stopChan' \in BOOLEAN
    BY <1>9, Zenon DEF StopRequested
  <2>2. ChannelsType'
    BY <1>1, <1>9, <2>1 DEF StopRequested, ChannelsType, report, dispatch, Heights
  <2> QED BY <1>4, <1>5, <1>9, <2>2 DEF StopRequested
<1>10. ASSUME NEW w \in Worker, Receive(w)
       PROVE  TablesType' /\ ChannelsType' /\ MetricsType' /\ TablesInv'
  <2>1. PICK s \in WorkerState :
              /\ worker' = [worker EXCEPT ![w] = s]
              /\ \/ /\ blockChan # << >> /\ blockChan' = Tail(blockChan)
                    /\ s.at = "fetch" /\ s.height \in Heights
                 \/ blockChan' = << >> /\ s.at = "done"
    BY <1>1, <1>10, ReceiveEffect
  <2>2. /\ worker' \in [Worker -> WorkerState] /\ worker'[w] = s
        /\ \A v \in Worker : v # w => worker'[v] = worker[v]
    BY <1>1, <2>1, WorkerUpdate
  <2>3. WorkerOK(w)'
    BY <2>1, <2>2, FreshWorkerOK
  <2>4. TablesType' /\ TablesInv'
    BY <1>1, <1>10, <2>2, <2>3, TablesStay DEF Receive
  <2>5. blockChan' \in Seq(Heights) /\ Len(blockChan') <= 2 * Cardinality(Worker)
    <3>1. CASE blockChan # << >> /\ blockChan' = Tail(blockChan)
      <4>1. /\ blockChan' \in Seq(Heights) /\ Len(blockChan') = Len(blockChan) - 1
            /\ Len(blockChan) \in Nat
        BY <1>1, <3>1, HeadTailProperties, LenProperties DEF ChannelsType
      <4> QED BY <1>1, <1>3, <4>1 DEF ChannelsType
    <3>2. CASE blockChan' = << >>
      BY <1>3, <3>2
    <3> QED BY <2>1, <3>1, <3>2
  <2>6. ChannelsType'
    BY <1>1, <1>10, <2>2, <2>5 DEF Receive, ChannelsType, report, stopping, Heights
  <2> QED BY <1>4, <1>10, <2>4, <2>6 DEF Receive
<1>11. ASSUME NEW w \in Worker, ProcessStage(w)
       PROVE  TablesType' /\ ChannelsType' /\ MetricsType' /\ TablesInv'
  <2>1. PICK s \in WorkerState :
              worker' = [worker EXCEPT ![w] = s] /\ WorkerOK(w)'
    BY <1>1, <1>11, StageDone
  <2>2. /\ worker' \in [Worker -> WorkerState] /\ worker'[w] = s
        /\ \A v \in Worker : v # w => worker'[v] = worker[v]
    BY <1>1, <2>1, WorkerUpdate
  <2>3. TablesType' /\ TablesInv'
    BY <1>1, <1>11, <2>1, <2>2, StageKeeps DEF ProcessStage
  <2>4. ChannelsType'
    BY <1>1, <1>11, <2>2 DEF ProcessStage, ChannelsType, dispatch, report, stopping, Heights
  <2> QED BY <1>4, <1>11, <2>3, <2>4 DEF ProcessStage
<1>12. ASSUME NEW w \in Worker, RetryStage(w)
       PROVE  TablesType' /\ ChannelsType' /\ MetricsType' /\ TablesInv'
  <2>1. worker[w].at \in Stage /\ Effect(worker[w].at, worker[w].height, worker[w].work) /\ UNCHANGED worker
    BY <1>12, StageFacts DEF RetryStage
  <2>2. TablesType' /\ TablesInv'
    BY <1>1, <2>1, StageKeeps
  <2>3. ChannelsType'
    BY <1>1, <1>6, <1>12 DEF RetryStage, ChannelsType, dispatch, report, stopping, Heights
  <2> QED BY <1>4, <1>12, <2>2, <2>3 DEF RetryStage
<1>13. ASSUME NEW w \in Worker, StageFails(w)
       PROVE  TablesType' /\ ChannelsType' /\ MetricsType' /\ TablesInv'
  <2>1. PICK s \in WorkerState :
              /\ worker' = [worker EXCEPT ![w] = s]
              /\ s.at = "error" /\ s.height = worker[w].height /\ s.height \in Heights
    BY <1>1, <1>13, FailEffect
  <2>2. /\ worker' \in [Worker -> WorkerState] /\ worker'[w] = s
        /\ \A v \in Worker : v # w => worker'[v] = worker[v]
    BY <1>1, <2>1, WorkerUpdate
  <2>3. WorkerOK(w)'
    BY <2>1, <2>2, FreshWorkerOK
  <2>4. TablesType' /\ TablesInv'
    BY <1>1, <1>13, <2>2, <2>3, StageKeeps DEF StageFails
  <2>5. failedBlocks' \subseteq Heights
    BY <1>1, <1>13, <2>1 DEF StageFails, ChannelsType
  <2>6. ChannelsType'
    BY <1>1, <1>6, <1>13, <2>2, <2>5 DEF StageFails, ChannelsType, dispatch, stopping, Heights
  <2> QED BY <1>4, <1>13, <2>4, <2>6 DEF StageFails
<1>14. ASSUME NEW w \in Worker, SendError(w)
       PROVE  TablesType' /\ ChannelsType' /\ MetricsType' /\ TablesInv'
  <2>1. /\ worker' \in [Worker -> WorkerState] /\ worker'[w] = Waiting
        /\ \A v \in Worker : v # w => worker'[v] = worker[v]
    BY <1>1, <1>14, WorkerUpdate, WaitingState DEF SendError
  <2>2. WorkerOK(w)'
    BY <2>1, WaitingState, FreshWorkerOK
  <2>3. TablesType' /\ TablesInv'
    BY <1>1, <1>14, <2>1, <2>2, TablesStay DEF SendError
  <2>4. worker[w].height \in Heights
    BY <1>14 DEF SendError, TablesInv, WorkerOK
  <2>5. errorChan' \in Seq(Heights) /\ Len(errorChan') = Len(errorChan) + 1 /\ Len(errorChan) \in Nat
    BY <1>1, <1>14, <2>4 DEF SendError, ChannelsType
  <2>6. Len(errorChan') <= Cardinality(Worker)
    BY <1>3, <1>14, <2>5 DEF SendError
  <2>7. ChannelsType'
    BY <1>1, <1>14, <2>1, <2>5, <2>6 DEF SendError, ChannelsType, dispatch, stopping, Heights
  <2> QED BY <1>4, <1>14, <2>3, <2>7 DEF SendError
<1>15. ASSUME NEW w \in Worker, AddBlockMetrics(w)
       PROVE  TablesType' /\ ChannelsType' /\ MetricsType' /\ TablesInv'
  <2>1. /\ worker' \in [Worker -> WorkerState] /\ worker'[w] = Waiting
        /\ \A v \in Worker : v # w => worker'[v] = worker[v]
    BY <1>1, <1>15, WorkerUpdate, WaitingState DEF AddBlockMetrics
  <2>2. WorkerOK(w)'
    BY <2>1, WaitingState, FreshWorkerOK
  <2>3. TablesType' /\ TablesInv'
    BY <1>1, <1>15, <2>1, <2>2, TablesStay DEF AddBlockMetrics
  <2>4. ChannelsType'
    BY <1>1, <1>15, <2>1 DEF AddBlockMetrics, ChannelsType, dispatch, report, stopping, Heights
  <2>5. PICK r \in Ranges : r = RangeOf(worker[w].height)
    <3>1. worker[w].height \in Heights
      BY <1>15 DEF AddBlockMetrics, TablesInv, WorkerOK
    <3> QED BY <3>1 DEF Ranges
  <2>6. rangeMetrics' = [rangeMetrics EXCEPT ![r] = rangeMetrics[r] + 1]
    BY <1>15, <2>5 DEF AddBlockMetrics
  <2>7. rangeMetrics' \in [Ranges -> Nat]
    BY <1>1, <2>6 DEF MetricsType
  <2>8. savers' \in Nat
    BY <1>1, <1>15 DEF AddBlockMetrics, MetricsType
  <2>9. MetricsType'
    BY <1>1, <1>15, <2>7, <2>8 DEF AddBlockMetrics, MetricsType
  <2> QED BY <2>3, <2>4, <2>9
<1>16. CASE SaveMetrics
  <2>1. savers' \in Nat
    BY <1>1, <1>16 DEF SaveMetrics, MetricsType
  <2>2. MetricsType' /\ faults' \in 0..MaxFaults
    BY <1>1, <1>16, <2>1, SaveKeepsType DEF SaveMetrics, ChannelsType
  <2>3. ChannelsType'
    BY <1>1, <1>16, <2>2 DEF SaveMetrics, ChannelsType, dispatch, report, stopping, Heights
  <2> QED BY <1>5, <1>16, <2>2, <2>3 DEF SaveMetrics
<1>17. CASE FinishStop
  <2>1. savers' \in Nat
    BY <1>1, <1>17 DEF FinishStop, MetricsType
  <2>2. MetricsType' /\ faults' \in 0..MaxFaults
    BY <1>1, <1>17, <2>1, SaveKeepsType DEF FinishStop, ChannelsType
  <2>3. stopped' \in BOOLEAN
    BY <1>17, Zenon DEF FinishStop
  <2>4. ChannelsType'
    BY <1>1, <1>17, <2>2, <2>3 DEF FinishStop, ChannelsType, dispatch, report, Heights
  <2> QED BY <1>5, <1>17, <2>2, <2>4 DEF FinishStop
<1>18. CASE CollectError
  <2>1. /\ Head(errorChan) \in Heights /\ errorChan' \in Seq(Heights)
        /\ Len(errorChan') = Len(errorChan) - 1 /\ Len(errorChan) \in Nat
    BY <1>1, <1>18, HeadTailProperties, LenProperties DEF CollectError, ChannelsType
  <2>2. Len(errorChan') <= Cardinality(Worker)
    BY <1>1, <1>3, <2>1 DEF ChannelsType
  <2>3. ChannelsType'
    BY <1>1, <1>18, <2>1, <2>2 DEF CollectError, ChannelsType, dispatch, stopping, Heights
  <2> QED BY <1>4, <1>5, <1>18, <2>3 DEF CollectError
<1>19. CASE Return
  <2>1. caller' \in {"waiting", "nil", "error"}
    BY <1>19 DEF Return
  <2>2. ChannelsType'
    BY <1>1, <1>19, <2>1 DEF Return, ChannelsType, dispatch, stopping, Heights
  <2> QED BY <1>4, <1>5, <1>19, <2>2 DEF Return
<1>20. CASE UNCHANGED vars
  <2>1. UNCHANGED <<database, dispatch, worker, report, metrics, stopping, faults>>
    BY <1>20 DEF vars
  <2>2. ChannelsType'
    BY <1>1, <2>1 DEF ChannelsType, dispatch, report, stopping, Heights
  <2> QED BY <1>4, <1>5, <2>1, <2>2
<1> QED BY <1>7, <1>8, <1>9, <1>10, <1>11, <1>12, <1>13, <1>14, <1>15, <1>16, <1>17, <1>18, <1>19,
           <1>20 DEF Next

(* What is complete stays complete, whatever step is taken. *)
LEMMA CompleteGrows ==
    ASSUME TypeOK, TablesInv, [Next]_vars, NEW h \in Heights, Complete(BlockAt(Chain, h))
    PROVE  Complete(BlockAt(Chain, h))'
<1>1. TablesType /\ ChannelsType
  BY TypeParts
<1>2. PICK b \in Block : b = BlockAt(Chain, h)
  BY ChainFacts
<1>3. TxsOf[b] \subseteq Tx /\ Complete(b)
  BY <1>2, DataAssumption
<1>4. SUFFICES Complete(b)'
  BY <1>2
<1>5. CASE UNCHANGED database
  BY <1>3, <1>5 DEF database, Complete, Stored, HasRow
<1>6. ASSUME NEW w \in Worker, worker[w].at \in Stage,
             Effect(worker[w].at, worker[w].height, worker[w].work)
      PROVE  Complete(b)'
  <2>1. PICK s \in WorkerState : s = worker[w]
    BY <1>1 DEF ChannelsType
  <2>2. s.height \in Heights /\ s.work \in Work
    BY <1>6, <2>1 DEF WorkerState, TablesInv, WorkerOK
  <2>3. /\ s.at \in AfterTransactions => \A t \in TxsOf[BlockAt(Chain, s.height)] : Stored(transaction, t)
        /\ s.at \in AfterParse =>
               /\ s.work.new = {o \in OutPoint : Creator[o] \in TxsOf[BlockAt(Chain, s.height)]}
               /\ s.work.spent \subseteq InputsOf(BlockAt(Chain, s.height))
        /\ s.at \in AfterOutputs => Complete(BlockAt(Chain, s.height))
    BY <2>1 DEF TablesInv, WorkerOK
  <2>4. Effect(s.at, s.height, s.work)
    BY <1>6, <2>1
  <2>5. /\ \A t \in Tx : Stored(transaction, t) => Stored(transaction, t)'
        /\ \A o \in OutPoint : HasRow(utxo, o) => HasRow(utxo, o)'
    BY <1>1, <2>2, <2>3, <2>4, EffectKeeps DEF TablesInv
  <2> QED BY <1>3, <2>5 DEF Complete
<1>7. CASE Next
  <2>1. ASSUME NEW w \in Worker, ProcessStage(w) \/ RetryStage(w) \/ StageFails(w)
        PROVE  Complete(b)'
    BY <1>5, <1>6, <2>1, StageFacts DEF ProcessStage, RetryStage, StageFails
  <2>2. ASSUME NEW w \in Worker, Receive(w) \/ SendError(w) \/ AddBlockMetrics(w)
        PROVE  Complete(b)'
    BY <1>5, <2>2 DEF Receive, SendError, AddBlockMetrics
  <2>3. CASE Dispatch \/ CloseBlocks \/ StopRequested \/ SaveMetrics \/ FinishStop \/ CollectError \/ Return
    BY <1>5, <2>3 DEF Dispatch, CloseBlocks, StopRequested, SaveMetrics, FinishStop, CollectError, Return
  <2> QED BY <1>7, <2>1, <2>2, <2>3 DEF Next
<1>8. CASE UNCHANGED vars
  BY <1>5, <1>8 DEF vars
<1> QED BY <1>7, <1>8

-----------------------------------------------------------------------------
(* Where a height is *)

(* A step that leaves height h where it is. *)
LEMMA PlacedStays ==
    ASSUME NEW h, Placed(h), UNCHANGED <<blockChan, nextHeight, failedBlocks>>,
           \A v \in Worker : With(v, h)' <=> With(v, h),
           Complete(BlockAt(Chain, h)) => Complete(BlockAt(Chain, h))'
    PROVE  Placed(h)' /\ (Counted(h)' <=> Counted(h))
<1>1. /\ \A i \in 1..Len(blockChan) : InChan(i, h)' <=> InChan(i, h)
      /\ Len(blockChan)' = Len(blockChan)
  BY DEF InChan
<1>2. CarriedOnce(h)' /\ (Carried(h)' <=> Carried(h))
  BY <1>1 DEF Placed, CarriedOnce, Carried
<1>3. Counted(h)' <=> Counted(h)
  BY <1>2 DEF Counted
<1> QED BY <1>2, <1>3 DEF Placed

(* The dispatcher sends: its next height moves to the end of the channel. *)
LEMMA PlacedDispatch ==
    ASSUME ChannelsType, NEW h \in Heights, Placed(h), Dispatch,
           Complete(BlockAt(Chain, h)) => Complete(BlockAt(Chain, h))'
    PROVE  Placed(h)' /\ (Counted(h)' <=> Counted(h))
<1>1. h \in Nat /\ nextHeight \in Nat /\ nextHeight \in Heights
  BY ChainFacts DEF Dispatch, ChannelsType, Heights
<1>2. UNCHANGED <<worker, failedBlocks>> /\ nextHeight' = nextHeight + 1
  BY DEF Dispatch, report
<1>3. PICK n \in Nat : n = Len(blockChan)
  BY DEF ChannelsType
<1>4. /\ Len(blockChan') = n + 1
      /\ \A i \in 1..n : blockChan'[i] = blockChan[i]
      /\ blockChan'[n + 1] = nextHeight
  BY <1>1, <1>3 DEF Dispatch, ChannelsType
<1>5. /\ \A i \in 1..n : InChan(i, h)' <=> InChan(i, h)
      /\ InChan(n + 1, h)' <=> h = nextHeight
  BY <1>4 DEF InChan
<1>6. \A v \in Worker : With(v, h)' <=> With(v, h)
  BY <1>2 DEF With
<1>7. Len(blockChan)' = n + 1 /\ 1..(n + 1) = 1..n \cup {n + 1} /\ n + 1 \notin 1..n
  BY <1>4
<1>8. CASE h = nextHeight
  <2>1. ~Carried(h) /\ h \notin failedBlocks /\ ~Counted(h)
    BY <1>1, <1>8 DEF Placed, Counted
  <2>2. Carried(h)'
    BY <1>5, <1>7, <1>8 DEF Carried
  <2>3. CarriedOnce(h)'
    BY <1>3, <1>5, <1>6, <1>7, <2>1 DEF CarriedOnce, Carried
  <2> QED BY <1>1, <1>2, <1>8, <2>1, <2>2, <2>3 DEF Placed, Counted
<1>9. CASE h # nextHeight
  <2>1. Carried(h)' <=> Carried(h)
    BY <1>3, <1>5, <1>6, <1>7, <1>9 DEF Carried
  <2>2. CarriedOnce(h)'
    BY <1>3, <1>5, <1>6, <1>7, <1>9 DEF CarriedOnce, Placed
  <2>3. h < nextHeight' <=> h < nextHeight
    BY <1>1, <1>2, <1>9
  <2> QED BY <1>2, <2>1, <2>2, <2>3 DEF Placed, Counted
<1> QED BY <1>8, <1>9

(* A worker receives: the first height of the channel moves to it. *)
LEMMA PlacedReceive ==
    ASSUME ChannelsType, NEW h \in Heights, Placed(h), NEW w \in Worker, Receive(w),
           Complete(BlockAt(Chain, h)) => Complete(BlockAt(Chain, h))'
    PROVE  Placed(h)' /\ (Counted(h)' <=> Counted(h))
<1>1. PICK s \in WorkerState :
              /\ worker' = [worker EXCEPT ![w] = s]
              /\ \/ /\ blockChan # << >> /\ blockChan' = Tail(blockChan)
                    /\ s.at = "fetch" /\ s.height = Head(blockChan) /\ s.height \in Heights
                 \/ /\ blockChan = << >> /\ blockChan' = << >> /\ blockClosed
                    /\ s.at = "done"
  BY ReceiveEffect
<1>2. /\ worker'[w] = s
      /\ \A v \in Worker : v # w => worker'[v] = worker[v]
      /\ worker[w].at = "range"
      /\ UNCHANGED <<nextHeight, failedBlocks>>
  BY <1>1, WorkerUpdate DEF Receive, report
<1>3. ~With(w, h)
  BY <1>2, StageFacts DEF With
<1>4. \A v \in Worker : v # w => (With(v, h)' <=> With(v, h))
  BY <1>2 DEF With
<1>5. CASE blockChan = << >>
  <2>1. ~With(w, h)'
    BY <1>1, <1>2, <1>5, StageFacts DEF With
  <2>2. UNCHANGED blockChan
    BY <1>1, <1>5
  <2> QED BY <1>2, <1>3, <1>4, <2>1, <2>2, PlacedStays
<1>6. CASE blockChan # << >>
  <2> DEFINE n == Len(blockChan)
  <2>1. /\ n \in Nat /\ n >= 1 /\ Len(blockChan') = n - 1
        /\ \A i \in 1..(n - 1) : blockChan'[i] = blockChan[i + 1]
        /\ Head(blockChan) = blockChan[1]
    <3>1. blockChan \in Seq(Heights) /\ blockChan' = Tail(blockChan)
      BY <1>1, <1>6 DEF ChannelsType
    <3> QED BY <1>6, <3>1
  <2>2. \A i \in 1..(n - 1) : InChan(i, h)' <=> InChan(i + 1, h)
    BY <2>1 DEF InChan
  <2>3. With(w, h)' <=> InChan(1, h)
    BY <1>1, <1>2, <1>6, <2>1, StageFacts DEF With, InChan
  <2>4. Len(blockChan)' = n - 1 /\ 1 \in 1..n
    BY <2>1
  <2>5. ASSUME NEW i \in 1..(n - 1)
        PROVE  i + 1 \in 1..n /\ i + 1 # 1
    BY <2>1
  <2>6. ASSUME NEW i \in 1..n
        PROVE  i = 1 \/ \E j \in 1..(n - 1) : i = j + 1
    <3>1. CASE i # 1
      <4>1. i - 1 \in 1..(n - 1) /\ i = (i - 1) + 1
        BY <2>1, <3>1
      <4> QED BY <4>1
    <3> QED BY <3>1
  <2>7. \A i, j \in 1..(n - 1) : i + 1 = j + 1 => i = j
    BY <2>1
  <2> HIDE DEF n
  <2>8. Carried(h)' <=> Carried(h)
    <3>1. (\E i \in 1..(n - 1) : InChan(i, h)') \/ InChan(1, h) <=> \E i \in 1..n : InChan(i, h)
      BY <2>2, <2>4, <2>5, <2>6
    <3> QED BY <1>3, <1>4, <2>3, <2>4, <3>1 DEF Carried, n
  <2>9. CarriedOnce(h)'
    BY <1>3, <1>4, <2>2, <2>3, <2>4, <2>5, <2>7 DEF Placed, CarriedOnce, n
  <2>10. Counted(h)' <=> Counted(h)
    BY <1>2, <2>8 DEF Counted
  <2> QED BY <1>2, <2>8, <2>9, <2>10 DEF Placed
<1> QED BY <1>5, <1>6

(* A worker gives up the height it carries: it has failed or is counted. *)
LEMMA PlacedLeaves ==
    ASSUME NEW h, Placed(h), NEW w \in Worker, UNCHANGED <<blockChan, nextHeight>>,
           \A v \in Worker : With(v, h)' <=> v # w /\ With(v, h),
           Complete(BlockAt(Chain, h)) => Complete(BlockAt(Chain, h))',
           \/ failedBlocks' = failedBlocks \cup {worker[w].height} /\ (With(w, h) <=> h = worker[w].height)
           \/ /\ UNCHANGED failedBlocks /\ (With(w, h) <=> h = worker[w].height)
              /\ With(w, h) => Complete(BlockAt(Chain, h))
    PROVE  /\ Placed(h)'
           /\ failedBlocks' = failedBlocks \cup {worker[w].height} => (Counted(h)' <=> Counted(h))
           /\ failedBlocks' = failedBlocks => (Counted(h)' <=> Counted(h) \/ h = worker[w].height)
           /\ h = worker[w].height => ~Counted(h)
<1>1. /\ \A i \in 1..Len(blockChan) : InChan(i, h)' <=> InChan(i, h)
      /\ Len(blockChan)' = Len(blockChan)
  BY DEF InChan
<1>2. CarriedOnce(h)'
  BY <1>1 DEF Placed, CarriedOnce
<1>3. Carried(h)' <=> Carried(h) /\ h # worker[w].height
  BY <1>1 DEF Placed, CarriedOnce, Carried
<1>4. h = worker[w].height => Carried(h)
  BY DEF Carried
<1> QED BY <1>2, <1>3, <1>4 DEF Placed, Counted

(* Every step keeps each height in its place and the counts right. *)
LEMMA NextPlaces ==
    ASSUME TypeOK, TablesInv, PlacesInv, CountInv, [Next]_vars
    PROVE  PlacesInv' /\ CountInv'
<1>1. TablesType /\ ChannelsType /\ MetricsType
  BY TypeParts
<1>2. \A h \in Heights : Complete(BlockAt(Chain, h)) => Complete(BlockAt(Chain, h))'
  BY CompleteGrows
<1>3. \A h \in Heights : Placed(h)
  BY DEF PlacesInv
<1>4. ASSUME UNCHANGED rangeMetrics, \A h \in Heights : Placed(h)' /\ (Counted(h)' <=> Counted(h))
      PROVE  PlacesInv' /\ CountInv'
  <2>1. PlacesInv'
    BY <1>4 DEF PlacesInv, Heights
  <2>2. ASSUME NEW r \in Ranges
        PROVE  CountedIn(r)' = CountedIn(r)
    BY <1>4 DEF CountedIn
  <2> QED BY <1>4, <2>1, <2>2 DEF CountInv
<1>5. ASSUME UNCHANGED <<blockChan, nextHeight, failedBlocks, rangeMetrics>>,
             \A h \in Heights, v \in Worker : With(v, h)' <=> With(v, h)
      PROVE  PlacesInv' /\ CountInv'
  <2>1. \A h \in Heights : Placed(h)' /\ (Counted(h)' <=> Counted(h))
    BY <1>2, <1>3, <1>5, PlacedStays
  <2> QED BY <1>4, <1>5, <2>1
<1>6. ASSUME UNCHANGED <<blockChan, nextHeight, failedBlocks, rangeMetrics, worker>>
      PROVE  PlacesInv' /\ CountInv'
  BY <1>5, <1>6 DEF With
<1>7. CASE Dispatch
  <2>1. \A h \in Heights : Placed(h)' /\ (Counted(h)' <=> Counted(h))
    BY <1>1, <1>2, <1>3, <1>7, PlacedDispatch
  <2> QED BY <1>4, <1>7, <2>1 DEF Dispatch, metrics
<1>8. CASE CloseBlocks \/ StopRequested \/ SaveMetrics \/ FinishStop \/ CollectError \/ Return \/ UNCHANGED vars
  BY <1>6, <1>8 DEF CloseBlocks, StopRequested, SaveMetrics, FinishStop, CollectError, Return, vars, dispatch,
                    report, metrics
<1>9. ASSUME NEW w \in Worker, Receive(w)
      PROVE  PlacesInv' /\ CountInv'
  <2>1. \A h \in Heights : Placed(h)' /\ (Counted(h)' <=> Counted(h))
    BY <1>1, <1>2, <1>3, <1>9, PlacedReceive
  <2> QED BY <1>4, <1>9, <2>1 DEF Receive, metrics
<1>10. ASSUME NEW w \in Worker, ProcessStage(w)
       PROVE  PlacesInv' /\ CountInv'
  <2>1. PICK s \in WorkerState :
              /\ worker' = [worker EXCEPT ![w] = s]
              /\ s.at \in Stage \cup {"metrics"} /\ s.height = worker[w].height
    BY <1>1, <1>10, StageDone
  <2>2. /\ worker'[w] = s /\ worker[w].at \in Stage
        /\ \A v \in Worker : v # w => worker'[v] = worker[v]
    BY <1>1, <1>10, <2>1, WorkerUpdate DEF ProcessStage
  <2>3. \A h \in Heights, v \in Worker : With(v, h)' <=> With(v, h)
    BY <2>1, <2>2 DEF With
  <2> QED BY <1>5, <1>10, <2>3 DEF ProcessStage, dispatch, report, metrics
<1>11. ASSUME NEW w \in Worker, RetryStage(w)
       PROVE  PlacesInv' /\ CountInv'
  BY <1>6, <1>11 DEF RetryStage, dispatch, report, metrics
<1>12. ASSUME NEW w \in Worker, StageFails(w)
       PROVE  PlacesInv' /\ CountInv'
  <2>1. PICK s \in WorkerState :
              /\ worker' = [worker EXCEPT ![w] = s]
              /\ s.at = "error" /\ s.height = worker[w].height /\ s.height \in Heights
    BY <1>1, <1>12, FailEffect
  <2>2. /\ worker'[w] = s /\ worker[w].at \in Stage
        /\ \A v \in Worker : v # w => worker'[v] = worker[v]
        /\ UNCHANGED <<blockChan, nextHeight, rangeMetrics>>
        /\ failedBlocks' = failedBlocks \cup {worker[w].height}
    BY <1>1, <1>12, <2>1, WorkerUpdate DEF StageFails, dispatch, metrics
  <2>3. \A h \in Heights : /\ \A v \in Worker : With(v, h)' <=> v # w /\ With(v, h)
                           /\ With(w, h) <=> h = worker[w].height
    BY <2>1, <2>2, StageFacts DEF With
  <2>4. ASSUME NEW h \in Heights
        PROVE  Placed(h)' /\ (Counted(h)' <=> Counted(h))
    BY <1>2, <1>3, <2>2, <2>3, PlacedLeaves
  <2> QED BY <1>4, <2>2, <2>4
<1>13. ASSUME NEW w \in Worker, SendError(w)
       PROVE  PlacesInv' /\ CountInv'
  <2>1. /\ worker'[w] = Waiting /\ worker[w].at = "error"
        /\ \A v \in Worker : v # w => worker'[v] = worker[v]
    BY <1>1, <1>13, WorkerUpdate, WaitingState DEF SendError
  <2>2. \A h \in Heights, v \in Worker : With(v, h)' <=> With(v, h)
    BY <2>1, WaitingState, StageFacts DEF With
  <2> QED BY <1>5, <1>13, <2>2 DEF SendError, dispatch, metrics
<1>14. ASSUME NEW w \in Worker, AddBlockMetrics(w)
       PROVE  PlacesInv' /\ CountInv'
  <2>1. /\ worker'[w] = Waiting /\ worker[w].at = "metrics"
        /\ \A v \in Worker : v # w => worker'[v] = worker[v]
        /\ UNCHANGED <<blockChan, nextHeight, failedBlocks>>
    BY <1>1, <1>14, WorkerUpdate, WaitingState DEF AddBlockMetrics, dispatch, report
  <2>2. PICK g \in Heights : g = worker[w].height /\ Complete(BlockAt(Chain, g))
    BY <2>1 DEF TablesInv, WorkerOK, AfterOutputs
  <2>3. \A h \in Heights : /\ \A v \in Worker : With(v, h)' <=> v # w /\ With(v, h)
                           /\ With(w, h) <=> h = worker[w].height
    BY <2>1, WaitingState, StageFacts DEF With
  <2>4. ASSUME NEW h \in Heights
        PROVE  /\ Placed(h)'
               /\ Counted(h)' <=> Counted(h) \/ h = g
               /\ h = g => ~Counted(h)
    <3>1. With(w, h) => Complete(BlockAt(Chain, h))
      BY <2>2, <2>3
    <3> QED BY <1>2, <1>3, <2>1, <2>2, <2>3, <3>1, PlacedLeaves
  <2>5. PlacesInv'
    BY <2>4 DEF PlacesInv, Heights
  <2>6. PICK q \in Ranges : q = RangeOf(g)
    BY DEF Ranges
  <2>7. rangeMetrics' = [rangeMetrics EXCEPT ![q] = rangeMetrics[q] + 1] /\ rangeMetrics \in [Ranges -> Nat]
    BY <1>1, <1>14, <2>2, <2>6 DEF AddBlockMetrics, MetricsType
  <2>8. ASSUME NEW r \in Ranges
        PROVE  rangeMetrics'[r] = Cardinality(CountedIn(r)')
    <3>1. rangeMetrics[r] = Cardinality(CountedIn(r))
      BY DEF CountInv
    <3>2. CASE r # q
      <4>1. CountedIn(r)' = CountedIn(r)
        BY <2>4, <2>6, <3>2 DEF CountedIn
      <4> QED BY <2>7, <3>1, <3>2, <4>1
    <3>3. CASE r = q
      <4>1. CountedIn(r)' = CountedIn(r) \cup {g} /\ g \notin CountedIn(r)
        BY <2>4, <2>6, <3>3 DEF CountedIn
      <4>2. IsFiniteSet(CountedIn(r))
        <5>1. IsFiniteSet(Heights)
          BY ChainFacts, FS_Interval DEF Heights
        <5>2. CountedIn(r) \subseteq Heights
          BY DEF CountedIn
        <5> QED BY <5>1, <5>2, FS_Subset
      <4>3. PICK C : C = CountedIn(r)
        OBVIOUS
      <4>4. Cardinality(C \cup {g}) = Cardinality(C) + 1
        BY <4>1, <4>2, <4>3, FS_AddElement
      <4> QED BY <2>7, <3>1, <3>3, <4>1, <4>3, <4>4
    <3> QED BY <3>2, <3>3
  <2> QED BY <2>5, <2>8 DEF CountInv
<1> QED BY <1>7, <1>8, <1>9, <1>10, <1>11, <1>12, <1>13, <1>14 DEF Next

-----------------------------------------------------------------------------
(* How the goroutines end *)

(* Every step keeps the order in which the goroutines end. *)
LEMMA NextClose ==
    ASSUME TypeOK, TablesInv, CloseInv, [Next]_vars
    PROVE  CloseInv'
<1>1. TablesType /\ ChannelsType /\ MetricsType
  BY TypeParts
<1>2. nextHeight \in Nat /\ Len(Chain) \in Nat
  BY <1>1, ChainFacts DEF ChannelsType
<1>3. ASSUME UNCHANGED <<blockChan, blockClosed, nextHeight, stopChan>>,
             UNCHANGED <<caller, stopped, saveFailed, metricsFile, rangeMetrics>>,
             \A v \in Worker : worker'[v].at = "done" <=> worker[v].at = "done"
      PROVE  CloseInv'
  BY <1>3 DEF CloseInv
<1>4. CASE Dispatch
  <2>1. UNCHANGED <<blockClosed, worker, stopChan, caller, stopped, saveFailed, metricsFile, rangeMetrics>>
    BY <1>4 DEF Dispatch, report, metrics, stopping
  <2>2. ~blockClosed
    BY <1>4 DEF Dispatch
  <2> QED BY <2>1, <2>2 DEF CloseInv
<1>5. CASE CloseBlocks
  <2>1. UNCHANGED <<nextHeight, blockChan, worker, stopChan, caller, stopped, saveFailed, metricsFile, rangeMetrics>>
    BY <1>5 DEF CloseBlocks, report, metrics, stopping
  <2> QED BY <1>5, <2>1 DEF CloseInv, CloseBlocks
<1>6. CASE StopRequested
  <2>1. UNCHANGED <<nextHeight, blockChan, blockClosed, worker, caller, stopped, saveFailed, metricsFile, rangeMetrics>>
    BY <1>6 DEF StopRequested, report, metrics, dispatch
  <2> QED BY <1>6, <2>1 DEF CloseInv, StopRequested
<1>7. ASSUME NEW w \in Worker, Receive(w)
      PROVE  CloseInv'
  <2>1. PICK s \in WorkerState :
              /\ worker' = [worker EXCEPT ![w] = s]
              /\ \/ blockChan # << >> /\ s.at = "fetch"
                 \/ blockChan = << >> /\ blockChan' = << >> /\ blockClosed /\ s.at = "done"
    BY <1>1, <1>7, ReceiveEffect
  <2>2. /\ worker'[w] = s /\ worker[w].at = "range"
        /\ \A v \in Worker : v # w => worker'[v] = worker[v]
        /\ UNCHANGED <<nextHeight, blockClosed, stopChan, caller, stopped, saveFailed, metricsFile, rangeMetrics>>
    BY <1>1, <1>7, <2>1, WorkerUpdate DEF Receive, report, metrics, stopping
  <2> QED BY <2>1, <2>2 DEF CloseInv
<1>8. ASSUME NEW w \in Worker, ProcessStage(w)
      PROVE  CloseInv'
  <2>1. PICK s \in WorkerState : worker' = [worker EXCEPT ![w] = s] /\ s.at \in Stage \cup {"metrics"}
    BY <1>1, <1>8, StageDone
  <2>2. /\ worker'[w] = s /\ worker[w].at \in Stage
        /\ \A v \in Worker : v # w => worker'[v] = worker[v]
    BY <1>1, <1>8, <2>1, WorkerUpdate DEF ProcessStage
  <2>3. \A v \in Worker : worker'[v].at = "done" <=> worker[v].at = "done"
    BY <2>1, <2>2, StageFacts
  <2> QED BY <1>3, <1>8, <2>3 DEF ProcessStage, dispatch, report, metrics, stopping
<1>9. ASSUME NEW w \in Worker, RetryStage(w)
      PROVE  CloseInv'
  BY <1>3, <1>9 DEF RetryStage, dispatch, report, metrics, stopping
<1>10. ASSUME NEW w \in Worker, StageFails(w)
       PROVE  CloseInv'
  <2>1. PICK s \in WorkerState : worker' = [worker EXCEPT ![w] = s] /\ s.at = "error"
    BY <1>1, <1>10, FailEffect
  <2>2. /\ worker'[w] = s /\ worker[w].at \in Stage
        /\ \A v \in Worker : v # w => worker'[v] = worker[v]
    BY <1>1, <1>10, <2>1, WorkerUpdate DEF StageFails
  <2>3. \A v \in Worker : worker'[v].at = "done" <=> worker[v].at = "done"
    BY <2>1, <2>2, StageFacts
  <2> QED BY <1>3, <1>10, <2>3 DEF StageFails, dispatch, metrics, stopping
<1>11. ASSUME NEW w \in Worker, SendError(w)
       PROVE  CloseInv'
  <2>1. /\ worker'[w] = Waiting /\ worker[w].at = "error"
        /\ \A v \in Worker : v # w => worker'[v] = worker[v]
    BY <1>1, <1>11, WorkerUpdate, WaitingState DEF SendError
  <2>2. \A v \in Worker : worker'[v].at = "done" <=> worker[v].at = "done"
    BY <2>1, WaitingState
  <2> QED BY <1>3, <1>11, <2>2 DEF SendError, dispatch, metrics, stopping
<1>12. ASSUME NEW w \in Worker, AddBlockMetrics(w)
       PROVE  CloseInv'
  <2>1. /\ worker'[w] = Waiting /\ worker[w].at = "metrics"
        /\ \A v \in Worker : v # w => worker'[v] = worker[v]
        /\ UNCHANGED <<nextHeight, blockChan, blockClosed, stopChan, caller, stopped>>
    BY <1>1, <1>12, WorkerUpdate, WaitingState DEF AddBlockMetrics, dispatch, report, stopping
  <2>2. caller = "waiting" /\ ~stopped
    BY <2>1 DEF CloseInv
  <2> QED BY <2>1, <2>2, WaitingState DEF CloseInv
<1>13. CASE SaveMetrics
  <2>1. UNCHANGED <<nextHeight, blockChan, blockClosed, worker, stopChan, caller, stopped, rangeMetrics>>
    BY <1>13 DEF SaveMetrics, dispatch, report, stopping
  <2>2. metricsFile' = rangeMetrics \/ saveFailed' = TRUE
    BY <1>13 DEF SaveMetrics, WriteMetrics
  <2> QED BY <2>1, <2>2 DEF CloseInv
<1>14. CASE FinishStop
  <2>1. UNCHANGED <<nextHeight, blockChan, blockClosed, worker, stopChan, caller, rangeMetrics>>
    BY <1>14 DEF FinishStop, dispatch, report
  <2>2. (metricsFile' = rangeMetrics \/ saveFailed' = TRUE) /\ caller # "waiting"
    BY <1>14 DEF FinishStop, WriteMetrics
  <2> QED BY <2>1, <2>2 DEF CloseInv
<1>15. CASE CollectError
  BY <1>3, <1>15 DEF CollectError, dispatch, metrics, stopping
<1>16. CASE Return
  <2>1. UNCHANGED <<nextHeight, blockChan, blockClosed, worker, stopChan, stopped, saveFailed, metricsFile, rangeMetrics>>
    BY <1>16 DEF Return, dispatch, metrics, stopping
  <2>2. caller = "waiting" /\ \A v \in Worker : worker[v].at = "done"
    BY <1>16 DEF Return
  <2> QED BY <2>1, <2>2 DEF CloseInv
<1>17. CASE UNCHANGED vars
  BY <1>3, <1>17 DEF vars, dispatch, report, metrics, stopping
<1> QED BY <1>4, <1>5, <1>6, <1>7, <1>8, <1>9, <1>10, <1>11, <1>12, <1>13, <1>14, <1>15, <1>16, <1>17 DEF Next

-----------------------------------------------------------------------------
(* The invariant and what follows from it *)

(* ProcessBlocksParallel begins in the invariant. *)
LEMMA InitBInv == Init => BInv
<1> SUFFICES ASSUME Init PROVE BInv
  OBVIOUS
<1>1. /\ Len(Chain) \in Nat /\ StartHeight \in Nat /\ StartHeight <= Len(Chain)
      /\ Cardinality(Worker) \in Nat /\ MaxFaults \in Nat
  BY ChainFacts, BackfillAssumption, FS_CardinalityType
<1>2. TablesType
  BY DataAssumption DEF Init, TablesEmpty, TablesType, NoRow, Row, Status
<1>3. ChannelsType
  <2>1. blockClosed \in BOOLEAN /\ stopChan \in BOOLEAN /\ stopped \in BOOLEAN
    BY Zenon DEF Init
  <2>2. /\ blockChan \in Seq(Heights) /\ errorChan \in Seq(Heights)
        /\ Len(blockChan) = 0 /\ Len(errorChan) = 0
    BY EmptySeq DEF Init
  <2>3. nextHeight \in StartHeight..(Len(Chain) + 1)
    BY <1>1 DEF Init
  <2>4. worker \in [Worker -> WorkerState]
    BY WaitingState DEF Init
  <2> QED BY <1>1, <2>1, <2>2, <2>3, <2>4 DEF Init, ChannelsType
<1>4. MetricsType
  <2>1. saveFailed \in BOOLEAN
    BY Zenon DEF Init
  <2> QED BY <2>1 DEF Init, MetricsType, NoMetrics
<1>5. \A w \in Worker : worker[w].at = "range"
  BY WaitingState DEF Init
<1>6. TablesInv
  <2>1. /\ \A o \in OutPoint : ~HasRow(utxo, o) /\ utxo[o].status # "spent"
        /\ index_progress.hash = NoBlock
    BY DEF Init, TablesEmpty, HasRow, NoRow
  <2>2. \A w \in Worker : WorkerOK(w)
    BY <1>5, StageFacts DEF WorkerOK, AfterTransactions, AfterParse, AfterOutputs
  <2> QED BY <2>1, <2>2 DEF TablesInv, ProgressNamesComplete, RowsExplained
<1>7. ASSUME NEW h \in Heights
      PROVE  Placed(h) /\ ~Counted(h)
  <2>1. \A w \in Worker : ~With(w, h)
    BY <1>5, StageFacts DEF With
  <2>2. Len(blockChan) = 0 /\ failedBlocks = {} /\ nextHeight = StartHeight
    BY DEF Init
  <2>3. ~Carried(h) /\ CarriedOnce(h)
    BY <2>1, <2>2 DEF Carried, CarriedOnce
  <2>4. ~(h < nextHeight)
    BY <1>1, <2>2 DEF Heights
  <2> QED BY <2>2, <2>3, <2>4 DEF Placed, Counted
<1>8. CloseInv
  BY <1>5 DEF Init, CloseInv
<1>9. CountInv
  <2>1. \A r \in Ranges : CountedIn(r) = {}
    BY <1>7 DEF CountedIn
  <2> QED BY <2>1, FS_EmptySet DEF CountInv, Init, NoMetrics
<1> QED BY <1>2, <1>3, <1>4, <1>6, <1>7, <1>8, <1>9, TypeParts DEF BInv, PlacesInv

(* Every step keeps it. *)
LEMMA NextBInv == BInv /\ [Next]_vars => BInv'
BY NextBase, NextPlaces, NextClose DEF BInv

(* The invariant of the parallel backfill. *)
THEOREM BackfillInvariance == Spec => []BInv
BY InitBInv, NextBInv, PTL DEF Spec

(* The variables keep their types, and no channel holds more than it can.   *)
THEOREM BackfillType == Spec => []TypeOK
<1>1. BInv => TypeOK
  BY DEF BInv
<1> QED BY BackfillInvariance, <1>1, PTL

(* With any number of workers and however blocks overtake each other,       *)
(* UpdateIndexProgress names a block that is completely stored.             *)
THEOREM BackfillProgress == Spec => []ProgressNamesComplete
<1>1. BInv => ProgressNamesComplete
  BY DEF BInv, TablesInv
<1> QED BY BackfillInvariance, <1>1, PTL

(* Whatever stage fails or is run again, for every chain: the rows of utxo  *)
(* have their transactions, and spent_by_txid names the real spender.       *)
THEOREM BackfillRows == Spec => []RowsExplained
<1>1. BInv => RowsExplained
  BY DEF BInv, TablesInv
<1> QED BY BackfillInvariance, <1>1, PTL

(* When ProcessBlocksParallel has returned nobody carries a height, and     *)
(* what was not dispatched was withheld by a stop.                          *)
LEMMA AllLeft ==
    ASSUME BInv, caller # "waiting", NEW h \in Heights
    PROVE  /\ ~Carried(h)
           /\ h < nextHeight \/ (h >= nextHeight /\ stopChan)
<1>1. TypeOK /\ CloseInv
  BY DEF BInv
<1>2. PICK w \in Worker : worker[w].at = "done"
  BY <1>1, BackfillAssumption DEF CloseInv
<1>3. blockChan = << >> /\ blockClosed /\ \A v \in Worker : worker[v].at = "done"
  BY <1>1, <1>2 DEF CloseInv
<1>4. ~Carried(h)
  BY <1>3, StageFacts DEF Carried, With
<1>5. nextHeight \in Nat /\ h \in Nat /\ Len(Chain) \in Nat /\ h <= Len(Chain)
  BY <1>1, ChainFacts DEF TypeOK, Heights
<1>6. nextHeight > Len(Chain) \/ stopChan
  BY <1>1, <1>3 DEF CloseInv
<1> QED BY <1>4, <1>5, <1>6

(* No failure is lost: a height that ProcessBlocksParallel leaves without   *)
(* its rows is in failed_blocks.json or was withheld by a stop.             *)
THEOREM BackfillFailures == Spec => []FailuresOnFile
<1>1. ASSUME BInv PROVE FailuresOnFile
  <2>1. SUFFICES ASSUME caller # "waiting", NEW h \in Heights
                 PROVE  \/ Complete(BlockAt(Chain, h))
                        \/ h \in failedBlocks
                        \/ h >= nextHeight /\ stopChan
    BY DEF FailuresOnFile
  <2>2. ~Carried(h) /\ (h < nextHeight \/ (h >= nextHeight /\ stopChan))
    BY <1>1, <2>1, AllLeft
  <2>3. Placed(h)
    BY <1>1 DEF BInv, PlacesInv
  <2> QED BY <2>2, <2>3 DEF Placed, Counted
<1> QED BY BackfillInvariance, <1>1, PTL

(* AddBlockMetrics counts every stored block once, whoever processed it,    *)
(* and the file that Stop leaves holds these counts unless a save failed.   *)
THEOREM BackfillMetrics == Spec => []MetricsComplete
<1>1. ASSUME BInv PROVE MetricsComplete
  <2>1. ASSUME caller # "waiting", NEW r \in Ranges
        PROVE  rangeMetrics[r] =
                   Cardinality({h \in Heights : RangeOf(h) = r /\ h < nextHeight /\ h \notin failedBlocks})
    <3>1. \A h \in Heights : Counted(h) <=> h < nextHeight /\ h \notin failedBlocks
      BY <1>1, <2>1, AllLeft DEF Counted
    <3>2. CountedIn(r) = {h \in Heights : RangeOf(h) = r /\ h < nextHeight /\ h \notin failedBlocks}
      BY <3>1 DEF CountedIn
    <3> QED BY <1>1, <3>2 DEF BInv, CountInv
  <2>2. stopped /\ savers = 0 /\ ~saveFailed => metricsFile = rangeMetrics
    BY <1>1 DEF BInv, CloseInv
  <2> QED BY <2>1, <2>2 DEF MetricsComplete
<1> QED BY BackfillInvariance, <1>1, PTL
-----------------------------------------------------------------------------
(* The parallel backfill implements the archive *)

(* What a step about block b has to do to the tables to be a step of the    *)
(* archive about b.                                                         *)
LEMMA ArchiveStep ==
    ASSUME utxo \in [OutPoint -> Row], utxo' \in [OutPoint -> Row], NEW b \in Block,
           StoredTxs(transaction') \in {StoredTxs(transaction), StoredTxs(transaction) \cup TxsOf[b]},
           \A o \in OutPoint : OutputRecorded(utxo, utxo', b, o),
           index_progress'.hash \in {index_progress.hash, NoBlock, b},
           \/ utxo' = utxo /\ index_progress'.hash # b
           \/ TxsOf[b] \subseteq StoredTxs(transaction')
    PROVE  Arch!Record(b)
<1>1. OutputStates(utxo') \in [OutPoint -> {"none", "unspent", "spent"}]
  BY StatesOfRows
<1>2. ASSUME NEW o \in OutPoint
      PROVE  Arch!RecordOutput(b, o)
  <2>1. OutputRecorded(utxo, utxo', b, o)
    OBVIOUS
  <2> QED BY <2>1, StatesRecorded DEF Arch!RecordOutput, Arch!Creates, Arch!Spends
<1>3. utxo' = utxo => OutputStates(utxo') = OutputStates(utxo)
  OBVIOUS
<1> QED BY <1>1, <1>2, <1>3 DEF Arch!Record

(* Empty tables are an empty archive. *)
LEMMA InitArchive == Init => Arch!Init
BY EmptyTablesShow DEF Init, Arch!Init

(* What a stage commits, once or again, is a step of the archive about the  *)
(* block of the stage, or nothing the archive shows.                        *)
LEMMA EffectRecords ==
    ASSUME TablesType, TablesType', NEW stage, NEW h \in Heights, NEW k \in Work, Effect(stage, h, k),
           stage \in AfterTransactions => \A t \in TxsOf[BlockAt(Chain, h)] : Stored(transaction, t),
           stage \in AfterParse =>
               /\ k.new = {o \in OutPoint : Creator[o] \in TxsOf[BlockAt(Chain, h)]}
               /\ k.spent \subseteq InputsOf(BlockAt(Chain, h))
    PROVE  UNCHANGED <<transaction, utxo, index_progress>> \/ Arch!Next
<1>1. PICK b \in Block : b = BlockAt(Chain, h)
  BY ChainFacts
<1>2. TxsOf[b] \subseteq Tx /\ b # NoBlock
  BY DataAssumption
<1>3. /\ utxo \in [OutPoint -> Row] /\ utxo' \in [OutPoint -> Row]
      /\ transaction \in [Tx -> Block \cup {NoBlock}]
  BY DEF TablesType
<1>4. ASSUME stage \in AfterTransactions
      PROVE  TxsOf[b] \subseteq StoredTxs(transaction)
  BY <1>1, <1>2, <1>4 DEF StoredTxs
<1>5. CASE stage \in {"fetch", "parse"} /\ UNCHANGED database
  BY <1>5 DEF database
<1>6. CASE stage = "transactions" /\ ProcessTransactionsBatch(b)
  <2>1. /\ transaction' = [t \in Tx |-> IF t \in TxsOf[b] THEN b ELSE transaction[t]]
        /\ UNCHANGED <<utxo, index_progress>>
    BY <1>6 DEF ProcessTransactionsBatch, BatchUpsertTransactions
  <2>2. StoredTxs(transaction') = StoredTxs(transaction) \cup TxsOf[b]
    BY <1>2, <2>1 DEF StoredTxs, Stored
  <2>3. \A o \in OutPoint : OutputRecorded(utxo, utxo', b, o)
    BY <2>1 DEF OutputRecorded
  <2>4. Arch!Record(b)
    BY <1>3, <2>1, <2>2, <2>3, ArchiveStep
  <2> QED BY <2>4 DEF Arch!Next
<1>7. CASE stage = "outputs" /\ UpsertOutputs(k.new, b)
  <2>1. /\ utxo' = [o \in OutPoint |->
                       IF o \in k.new THEN [utxo[o] EXCEPT !.status = "confirmed", !.block = b] ELSE utxo[o]]
        /\ UNCHANGED <<transaction, index_progress>>
    BY <1>7 DEF UpsertOutputs, BulkUpsertUTXOs
  <2>2. k.new = {o \in OutPoint : Creator[o] \in TxsOf[b]}
    BY <1>1, <1>7 DEF AfterParse
  <2>3. ASSUME NEW o \in OutPoint
        PROVE  OutputRecorded(utxo, utxo', b, o)
    <3>1. PICK r \in Row : r = utxo[o]
      BY <1>3
    <3>2. utxo'[o] = IF o \in k.new THEN [r EXCEPT !.status = "confirmed", !.block = b] ELSE r
      BY <2>1, <3>1
    <3>3. utxo'[o].status = IF o \in k.new THEN "confirmed" ELSE r.status
      BY <3>2 DEF Row
    <3> QED BY <2>2, <3>1, <3>3 DEF OutputRecorded
  <2>4. Arch!Record(b)
    BY <1>3, <1>4, <1>7, <2>1, <2>3, ArchiveStep DEF AfterTransactions
  <2> QED BY <2>4 DEF Arch!Next
<1>8. CASE stage = "spends" /\ MarkSpends(k.spent, b)
  <2>1. /\ utxo' = [o \in OutPoint |->
                      IF o \in k.spent /\ utxo[o].status # "none"
                      THEN [utxo[o] EXCEPT !.status = "spent", !.spentBy = Spender(b, o)] ELSE utxo[o]]
        /\ UNCHANGED <<transaction, index_progress>>
    BY <1>8 DEF MarkSpends, BatchMarkUTXOsSpent
  <2>2. k.spent \subseteq InputsOf(b)
    BY <1>1, <1>8 DEF AfterParse
  <2>3. ASSUME NEW o \in OutPoint
        PROVE  OutputRecorded(utxo, utxo', b, o)
    <3>1. PICK r \in Row : r = utxo[o]
      BY <1>3
    <3>2. PICK sp : sp = Spender(b, o)
      OBVIOUS
    <3>3. utxo'[o] = IF o \in k.spent /\ r.status # "none"
                     THEN [r EXCEPT !.status = "spent", !.spentBy = sp] ELSE r
      BY <2>1, <3>1, <3>2
    <3>4. utxo'[o].status = IF o \in k.spent /\ r.status # "none" THEN "spent" ELSE r.status
      BY <3>3 DEF Row
    <3> QED BY <2>2, <3>1, <3>4 DEF OutputRecorded, HasRow
  <2>4. Arch!Record(b)
    BY <1>3, <1>4, <1>8, <2>1, <2>3, ArchiveStep DEF AfterTransactions
  <2> QED BY <2>4 DEF Arch!Next
<1>9. CASE stage = "references" /\ UpsertReferences(k.refs)
  BY <1>9 DEF UpsertReferences
<1>10. CASE stage = "progress" /\ UpdateIndexProgress(h, b)
  <2>1. index_progress'.hash = b /\ UNCHANGED <<transaction, utxo>>
    BY <1>10 DEF UpdateIndexProgress
  <2>2. \A o \in OutPoint : OutputRecorded(utxo, utxo', b, o)
    BY <2>1 DEF OutputRecorded
  <2>3. Arch!Record(b)
    BY <1>3, <1>4, <1>10, <2>1, <2>2, ArchiveStep DEF AfterTransactions
  <2> QED BY <2>3 DEF Arch!Next
<1>11. \/ stage \in {"fetch", "parse"} /\ UNCHANGED database
       \/ stage = "transactions" /\ ProcessTransactionsBatch(b)
       \/ stage = "outputs" /\ UpsertOutputs(k.new, b)
       \/ stage = "spends" /\ MarkSpends(k.spent, b)
       \/ stage = "references" /\ UpsertReferences(k.refs)
       \/ stage = "progress" /\ UpdateIndexProgress(h, b)
  BY <1>1 DEF Effect
<1> QED BY <1>5, <1>6, <1>7, <1>8, <1>9, <1>10, <1>11

(* Every step of the backfill commits a stage or leaves the archive alone.  *)
LEMMA StepArchive == BInv /\ [Next]_vars => [Arch!Next]_(Arch!archive)
<1> SUFFICES ASSUME BInv, [Next]_vars PROVE [Arch!Next]_(Arch!archive)
  OBVIOUS
<1>1. CASE UNCHANGED <<transaction, utxo, index_progress>>
  BY <1>1 DEF Arch!archive, StoredTxs, Stored, OutputStates
<1>2. ASSUME NEW w \in Worker, worker[w].at \in Stage,
             Effect(worker[w].at, worker[w].height, worker[w].work)
      PROVE  [Arch!Next]_(Arch!archive)
  <2>1. TypeOK /\ TypeOK' /\ TablesInv
    BY NextBInv DEF BInv
  <2>2. TablesType /\ TablesType' /\ ChannelsType
    BY <2>1 DEF TypeOK, TablesType, ChannelsType
  <2>3. PICK s \in WorkerState : s = worker[w]
    BY <2>2 DEF ChannelsType
  <2>4. WorkerOK(w)
    BY <2>1 DEF TablesInv
  <2>5. s.height \in Heights /\ s.work \in Work
    BY <1>2, <2>3, <2>4 DEF WorkerState, WorkerOK
  <2>6. /\ s.at \in AfterTransactions => \A t \in TxsOf[BlockAt(Chain, s.height)] : Stored(transaction, t)
        /\ s.at \in AfterParse =>
               /\ s.work.new = {o \in OutPoint : Creator[o] \in TxsOf[BlockAt(Chain, s.height)]}
               /\ s.work.spent \subseteq InputsOf(BlockAt(Chain, s.height))
    BY <2>3, <2>4 DEF WorkerOK
  <2>7. Effect(s.at, s.height, s.work)
    BY <1>2, <2>3
  <2> QED BY <1>1, <2>2, <2>5, <2>6, <2>7, EffectRecords
<1>3. \/ UNCHANGED <<transaction, utxo, index_progress>>
      \/ \E w \in Worker : /\ worker[w].at \in Stage
                           /\ Effect(worker[w].at, worker[w].height, worker[w].work)
  <2>1. CASE UNCHANGED vars
    BY <2>1 DEF vars, database
  <2>2. CASE Dispatch \/ CloseBlocks \/ StopRequested \/ SaveMetrics \/ FinishStop \/ CollectError \/ Return
    BY <2>2 DEF Dispatch, CloseBlocks, StopRequested, SaveMetrics, FinishStop, CollectError, Return, database
  <2>3. ASSUME NEW w \in Worker, Receive(w) \/ SendError(w) \/ AddBlockMetrics(w)
        PROVE  UNCHANGED <<transaction, utxo, index_progress>>
    BY <2>3 DEF Receive, SendError, AddBlockMetrics, database
  <2>4. ASSUME NEW w \in Worker, ProcessStage(w) \/ StageFails(w)
        PROVE  \/ UNCHANGED <<transaction, utxo, index_progress>>
               \/ worker[w].at \in Stage /\ Effect(worker[w].at, worker[w].height, worker[w].work)
    BY <2>4 DEF ProcessStage, StageFails, database
  <2>5. ASSUME NEW w \in Worker, RetryStage(w)
        PROVE  worker[w].at \in Stage /\ Effect(worker[w].at, worker[w].height, worker[w].work)
    BY <2>5, StageFacts DEF RetryStage
  <2> QED BY <2>1, <2>2, <2>3, <2>4, <2>5 DEF Next
<1> QED BY <1>1, <1>2, <1>3

(* The parallel backfill, which needs five transactions for a block and may *)
(* repeat or lose any of them, implements the archive.                      *)
THEOREM BackfillImplementsArchive == Spec => ImplementsArchive
<1>1. Init => Arch!Init
  BY InitArchive
<1>2. BInv /\ [Next]_vars => [Arch!Next]_(Arch!archive)
  BY StepArchive
<1> QED BY BackfillInvariance, <1>1, <1>2, PTL DEF Spec, ImplementsArchive, Arch!Spec
=============================================================================
