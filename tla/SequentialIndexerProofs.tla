----------------------- MODULE SequentialIndexerProofs -----------------------
(***************************************************************************)
(* IInv is an inductive invariant of the sequential block poller, for every *)
(* chain tree, every chunk size and any number of failures.                 *)
(***************************************************************************)
EXTENDS SequentialIndexer, IndexStoreProofs

(* The tables of rows keep what holds of them when no statement changes them. *)
LEMMA TablesKept ==
    ASSUME TablesInv, UNCHANGED <<transaction, utxo, tx_reference>>
    PROVE  TablesInv'
BY DEF TablesInv, BlockAtomic, RowsNameHolder, HeightIndexedOnce, SpentOnEvidence,
       InitialScriptsFollowed, TablesAtomic, SpendsEvidenced, Stored, HasRow, Indexed

(* The database transaction of one block: it makes the block in hand, and   *)
(* no other block, indexed, and keeps what holds of the tables.             *)
LEMMA StoreBlockTables ==
    ASSUME IInv, pc = "commit", StoreBlock
    PROVE  /\ transaction' \in [Tx -> Block \cup {NoBlock}]
           /\ utxo' \in [OutPoint -> Row]
           /\ tx_reference' \subseteq RefKey
           /\ \A a \in Block : Indexed(transaction', a) <=> Indexed(transaction, a) \/ a = blockHash
           /\ TablesInv'
<1>1. /\ transaction \in [Tx -> Block \cup {NoBlock}]
      /\ utxo \in [OutPoint -> Row]
      /\ tx_reference \subseteq RefKey
      /\ watchedScriptMap \in SUBSET Script
  BY DEF IInv, TypeOK
<1>2. /\ blockHash \in Block
      /\ HeightOf[blockHash] = height
      /\ work = ParseBlockWithCache(blockHash, utxo, watchedScriptMap)
      /\ \A b \in Block : Indexed(transaction, b) => HeightOf[b] < height
  BY DEF IInv, LocalsInv, Busy, PC
<1>3. /\ work \in Work
      /\ work.new = {o \in OutPoint : Creator[o] \in TxsOf[blockHash]}
      /\ work.spent \subseteq InputsOf(blockHash)
      /\ \A r \in work.refs : r.key[1] \in TxsOf[blockHash]
  BY <1>1, <1>2, ParseResult
<1>4. /\ transaction' = BatchStoreTransactions(transaction, blockHash)
      /\ utxo' = BulkMarkUTXOsSpent(BulkUpsertUTXOs(utxo, work.new, blockHash), work.spent, blockHash)
      /\ tx_reference' = tx_reference \cup {r.key : r \in work.refs}
  BY DEF StoreBlock
<1>5. TablesAtomic(transaction, utxo) /\ RowsNameHolder(transaction)
      /\ SpendsEvidenced(transaction, utxo)
  BY DEF IInv, TablesInv, BlockAtomic, SpentOnEvidence
<1>6. /\ transaction' \in [Tx -> Block \cup {NoBlock}]
      /\ \A t \in Tx : Stored(transaction', t) <=> Stored(transaction, t) \/ t \in TxsOf[blockHash]
  BY <1>1, <1>2, <1>4, StoreTransactions, DataAssumption DEF Stored
<1>7. work.new \in SUBSET OutPoint /\ work.spent \in SUBSET InputsOf(blockHash)
  BY <1>3
<1>8. /\ utxo' \in [OutPoint -> Row]
      /\ \A o \in OutPoint : HasRow(utxo', o) <=> HasRow(utxo, o) \/ o \in work.new
      /\ \A o \in OutPoint : utxo'[o].status = "spent" =>
            o \in work.spent \/ utxo'[o] = utxo[o]
  BY <1>1, <1>2, <1>4, <1>7, StoreOutputs
<1>9. /\ TablesAtomic(transaction', utxo')
      /\ RowsNameHolder(transaction')
      /\ \A a \in Block : Indexed(transaction', a) <=> Indexed(transaction, a) \/ a = blockHash
  BY <1>1, <1>2, <1>3, <1>4, <1>5, <1>7, StoreKeepsAtomic
<1>10. SpendsEvidenced(transaction', utxo')
  BY <1>1, <1>2, <1>4, <1>5, <1>7, StoreKeepsEvidence
<1>11. tx_reference' \subseteq RefKey
  <2>1. \A r \in work.refs : r.key \in RefKey
    BY <1>3 DEF Work, Ref
  <2> QED BY <1>1, <1>4, <2>1
<1>12. HeightIndexedOnce'
  <2> SUFFICES ASSUME NEW a \in Block, NEW b \in Block,
                      Indexed(transaction', a), Indexed(transaction', b),
                      HeightOf[a] = HeightOf[b]
               PROVE  a = b
    BY DEF HeightIndexedOnce
  <2>1. HeightOf[a] \in Nat /\ HeightOf[b] \in Nat
    BY DataAssumption
  <2>2. CASE Indexed(transaction, a) /\ Indexed(transaction, b)
    BY <2>2 DEF IInv, TablesInv, HeightIndexedOnce
  <2>3. CASE a = blockHash \/ b = blockHash
    BY <1>2, <1>9, <2>1, <2>3
  <2> QED BY <1>9, <2>2, <2>3
<1>13. InitialScriptsFollowed'
  <2> DEFINE keys == {r.key : r \in work.refs}
  <2>1. InitialScripts \subseteq watchedScriptMap
    BY DEF IInv, ScriptsInv
  <2>2. InitialScriptsFollowed
    BY DEF IInv, TablesInv
  <2>3. ASSUME NEW o \in OutPoint, ScriptOf[o] \in InitialScripts
        PROVE  /\ o \in work.new => <<Creator[o], AddressOf[ScriptOf[o]], "in">> \in keys
               /\ o \in work.spent =>
                    \E t \in TxsOf[blockHash] :
                        o \in Vin[t] /\ <<t, AddressOf[ScriptOf[o]], "out">> \in keys
    <3>1. ScriptOf[o] \in watchedScriptMap
      BY <2>1, <2>3
    <3> QED BY <1>1, <1>2, <1>3, <3>1, ParseReferences
  <2> HIDE DEF keys
  <2>4. tx_reference' = tx_reference \cup keys
    BY <1>4 DEF keys
  <2>5. TxsOf[blockHash] \subseteq Tx
    BY <1>2, DataAssumption
  <2>6. ASSUME NEW o \in OutPoint, ScriptOf[o] \in InitialScripts, HasRow(utxo', o)
        PROVE  <<Creator[o], AddressOf[ScriptOf[o]], "in">> \in tx_reference'
    BY <1>8, <2>2, <2>3, <2>4, <2>6 DEF InitialScriptsFollowed
  <2>7. ASSUME NEW o \in OutPoint, ScriptOf[o] \in InitialScripts, utxo'[o].status = "spent"
        PROVE  \E t \in Tx : o \in Vin[t] /\ <<t, AddressOf[ScriptOf[o]], "out">> \in tx_reference'
    <3>1. CASE o \in work.spent
      BY <2>3, <2>4, <2>5, <2>7, <3>1
    <3>2. CASE utxo'[o] = utxo[o]
      BY <2>2, <2>4, <2>7, <3>2 DEF InitialScriptsFollowed
    <3> QED BY <1>8, <2>7, <3>1, <3>2
  <2>8. ASSUME NEW r \in tx_reference'
        PROVE  Stored(transaction', r[1])
    <3>1. CASE r \in tx_reference
      <4>1. r[1] \in Tx
        BY <1>1, <3>1 DEF RefKey
      <4> QED BY <1>6, <2>2, <3>1, <4>1 DEF InitialScriptsFollowed
    <3>2. CASE r \in keys
      BY <1>3, <1>6, <2>5, <3>2 DEF keys
    <3> QED BY <2>4, <3>1, <3>2
  <2> QED BY <2>6, <2>7, <2>8 DEF InitialScriptsFollowed
<1> QED BY <1>6, <1>8, <1>9, <1>10, <1>11, <1>12, <1>13
        DEF TablesInv, BlockAtomic, SpentOnEvidence

(* The initial state has empty tables and an idle poller. *)
LEMMA InitIInv == Init => IInv
<1> SUFFICES ASSUME Init PROVE IInv
  OBVIOUS
<1> USE DEF Init, TablesEmpty
<1>1. NoRow \in Row /\ NoWork \in Work
  BY DEF NoRow, Row, Status, NoWork, Work
<1>2. TypeOK
  <2>1. transaction \in [Tx -> Block \cup {NoBlock}] /\ utxo \in [OutPoint -> Row]
    BY <1>1
  <2>2. index_progress \in Progress /\ pc \in PC /\ faults \in 0..MaxFaults
    BY SequentialAssumption DEF PC, Progress
  <2>3. /\ active \in Chains
        /\ watched_script \subseteq Script /\ cache \subseteq Script /\ cacheFresh \in BOOLEAN
    BY ChainsAssumption, SequentialAssumption
  <2>4. currentHeight \in Nat /\ height \in Nat /\ endHeight \in Nat
    OBVIOUS
  <2> QED BY <1>1, <2>1, <2>2, <2>3, <2>4 DEF TypeOK
<1>3. \A t \in Tx : ~Stored(transaction, t)
  BY DEF Stored
<1>4. \A b \in Block : ~Indexed(transaction, b)
  BY DataAssumption DEF Indexed
<1>5. \A o \in OutPoint : ~HasRow(utxo, o) /\ utxo[o].status # "spent"
  BY DEF HasRow, NoRow
<1>6. TablesInv
  BY <1>3, <1>4, <1>5, DataAssumption
     DEF TablesInv, BlockAtomic, RowsNameHolder, HeightIndexedOnce, SpentOnEvidence,
         InitialScriptsFollowed, TablesAtomic, SpendsEvidenced
<1>7. ProgressIsTruthful /\ LocalsInv /\ ScriptsInv
  BY <1>4 DEF ProgressIsTruthful, LocalsInv, ScriptsInv, Busy, PC
<1> QED BY <1>2, <1>6, <1>7 DEF IInv

(* The block the node reports for a height within its chain has that height. *)
LEMMA BlockInHand ==
    ASSUME NEW c \in Chains, NEW h \in 1..Len(c)
    PROVE  BlockAt(c, h) \in Block /\ HeightOf[BlockAt(c, h)] = h
<1>1. c \in Seq(Block) /\ HeightOf[c[h]] = h
  BY ChainsAssumption
<1>2. h # 0 /\ c[h] \in Block
  BY <1>1
<1> QED BY <1>1, <1>2 DEF BlockAt

(* When processBlocks has returned nothing is left to hold of its locals. *)
LEMMA ReturnKeeps ==
    ASSUME NEW p \in {"idle", "down"}, ReturnTo(p)
    PROVE  /\ pc' \in PC
           /\ currentHeight' \in Nat /\ height' \in Nat /\ endHeight' \in Nat
           /\ watchedScriptMap' \subseteq Script
           /\ blockHash' \in Block \cup {NoBlock}
           /\ work' \in Work
           /\ LocalsInv'
           /\ pc' \notin {"hash", "reorg", "block", "commit"}
BY DEF ReturnTo, PC, Busy, NoWork, Work, LocalsInv

(* The steps of the node, of the clock and of who adds watched scripts. *)
LEMMA EnvironmentKeeps ==
    ASSUME IInv, NodeAdvances \/ (\E s \in Script : AddWatchedScript(s)) \/ CacheExpires
    PROVE  IInv'
<1> USE DEF IInv, database, scripts, locals
<1>1. UNCHANGED <<transaction, utxo, tx_reference, index_progress, pc, locals, faults>>
  BY DEF NodeAdvances, AddWatchedScript, CacheExpires
<1>2. TablesInv' /\ ProgressIsTruthful'
  BY <1>1, TablesKept DEF ProgressIsTruthful, Indexed
<1>3. active' \in Chains /\ Len(active) <= Len(active')
  <2>1. \A c \in Chains : Len(c) \in Nat
    BY ChainsAssumption
  <2> QED BY <2>1 DEF NodeAdvances, AddWatchedScript, CacheExpires, TypeOK
<1>4. /\ watched_script' \subseteq Script /\ watched_script \subseteq watched_script'
      /\ cache' = cache /\ cacheFresh' \in BOOLEAN
  BY DEF NodeAdvances, AddWatchedScript, CacheExpires, TypeOK
<1>5. TypeOK'
  BY <1>1, <1>3, <1>4 DEF TypeOK
<1>6. LocalsInv'
  <2>1. Len(active) \in Nat /\ Len(active') \in Nat
    BY <1>3, ChainsAssumption DEF TypeOK
  <2> QED BY <1>1, <1>3, <2>1 DEF LocalsInv, Indexed, TypeOK
<1>7. ScriptsInv'
  BY <1>1, <1>4 DEF ScriptsInv
<1> QED BY <1>2, <1>5, <1>6, <1>7

(* The steps of the poller before the database transaction. *)
LEMMA ReadingKeeps ==
    ASSUME IInv,
           \/ ProcessBlocks \/ ProcessBlockChunk \/ GetBlockHash
           \/ CheckReorg \/ GetAndParseBlock \/ Restart
    PROVE  IInv'
<1> USE DEF IInv, database, scripts, locals
<1>1. UNCHANGED <<active, transaction, utxo, tx_reference, watched_script, faults>>
  BY DEF ProcessBlocks, ProcessBlockChunk, GetBlockHash, CheckReorg, GetAndParseBlock, Restart
<1>2. TablesInv'
  BY <1>1, TablesKept
<1>3. Len(active) \in Nat
  BY ChainsAssumption DEF TypeOK
<1>4. \A b \in Block : HeightOf[b] \in Nat
  BY DataAssumption
<1>5. CASE ProcessBlocks
  <2>1. TypeOK' /\ ScriptsInv'
    BY <1>1, <1>3, <1>5 DEF ProcessBlocks, FirstHeight, TypeOK, ScriptsInv, PC, Progress
  <2>2. ProgressIsTruthful'
    BY <1>1, <1>5 DEF ProcessBlocks, ProgressIsTruthful, Indexed
  <2>3. LocalsInv'
    BY <1>1, <1>3, <1>4, <1>5
       DEF ProcessBlocks, FirstHeight, LocalsInv, ProgressIsTruthful, Indexed, TypeOK, Progress
  <2> QED BY <1>2, <2>1, <2>2, <2>3
<1>6. CASE ProcessBlockChunk
  <2>1. TypeOK'
    BY <1>1, <1>6, SequentialAssumption DEF ProcessBlockChunk, CacheValid, Lower, TypeOK, PC
  <2>2. ScriptsInv'
    BY <1>1, <1>6 DEF ProcessBlockChunk, CacheValid, ScriptsInv
  <2>3. ProgressIsTruthful'
    BY <1>1, <1>6 DEF ProcessBlockChunk, ProgressIsTruthful, Indexed
  <2>4. LocalsInv'
    BY <1>1, <1>6 DEF ProcessBlockChunk, LocalsInv, Busy, PC, Indexed
  <2> QED BY <1>2, <2>1, <2>2, <2>3, <2>4
<1>7. CASE GetBlockHash
  <2>1. height \in 1..Len(active)
    BY <1>3, <1>7 DEF GetBlockHash, LocalsInv, Busy, PC, TypeOK
  <2>2. blockHash' \in Block /\ HeightOf[blockHash'] = height
    BY <1>7, <2>1, BlockInHand DEF GetBlockHash, TypeOK
  <2>3. TypeOK' /\ ScriptsInv'
    BY <1>1, <1>7, <2>2 DEF GetBlockHash, TypeOK, ScriptsInv, PC
  <2>4. ProgressIsTruthful'
    BY <1>1, <1>7 DEF GetBlockHash, ProgressIsTruthful, Indexed
  <2>5. LocalsInv'
    BY <1>1, <1>7, <2>2 DEF GetBlockHash, LocalsInv, Busy, PC, Indexed
  <2> QED BY <1>2, <2>3, <2>4, <2>5
<1>8. CASE CheckReorg
  <2>1. /\ index_progress' \in Progress
        /\ \/ index_progress' = index_progress
           \/ index_progress'.height = height /\ index_progress'.hash = NoBlock
    BY <1>8 DEF CheckReorg, TypeOK, Progress
  <2>2. TypeOK' /\ ScriptsInv'
    BY <1>1, <1>8, <2>1 DEF CheckReorg, TypeOK, ScriptsInv, PC
  <2>3. /\ \A b \in Block : Indexed(transaction, b) => HeightOf[b] < height
        /\ height = index_progress.height + 1
        /\ blockHash \in Block /\ HeightOf[blockHash] = height
    BY <1>8 DEF CheckReorg, LocalsInv, Busy, PC
  <2>4. ProgressIsTruthful'
    BY <1>1, <1>4, <1>8, <2>1, <2>3 DEF CheckReorg, ProgressIsTruthful, Indexed, TypeOK
  <2>5. LocalsInv'
    BY <1>1, <1>8, <2>1, <2>3 DEF CheckReorg, LocalsInv, Busy, PC, Indexed
  <2> QED BY <1>2, <2>2, <2>4, <2>5
<1>9. CASE GetAndParseBlock
  <2>1. blockHash \in Block
    BY <1>9 DEF GetAndParseBlock, LocalsInv
  <2>2. work' = ParseBlockWithCache(blockHash, utxo, watchedScriptMap) /\ work' \in Work
    BY <1>9, <2>1, ParseResult DEF GetAndParseBlock, TypeOK
  <2>3. TypeOK' /\ ScriptsInv'
    BY <1>1, <1>9, <2>2 DEF GetAndParseBlock, TypeOK, ScriptsInv, PC
  <2>4. ProgressIsTruthful'
    BY <1>1, <1>9 DEF GetAndParseBlock, ProgressIsTruthful, Indexed
  <2>5. LocalsInv'
    BY <1>1, <1>9, <2>2 DEF GetAndParseBlock, LocalsInv, Busy, PC, Indexed
  <2> QED BY <1>2, <2>3, <2>4, <2>5
<1>10. CASE Restart
  <2>1. TypeOK' /\ ScriptsInv' /\ ProgressIsTruthful' /\ LocalsInv'
    BY <1>1, <1>10 DEF Restart, TypeOK, ScriptsInv, ProgressIsTruthful, LocalsInv, Busy, PC, Indexed
  <2> QED BY <1>2, <2>1
<1> QED BY <1>5, <1>6, <1>7, <1>8, <1>9, <1>10

(* The end of a block: commit, refusal, failure or crash. *)
LEMMA EndOfBlockKeeps ==
    ASSUME IInv, CommitBlock \/ RejectBlock \/ ErrorReturn \/ CommitUnacknowledged \/ Crash
    PROVE  IInv'
<1> USE DEF IInv, database, scripts, locals
<1>1. UNCHANGED <<active, watched_script>>
  BY DEF CommitBlock, RejectBlock, ErrorReturn, CommitUnacknowledged, Crash
<1>2. /\ cache' \subseteq Script /\ cacheFresh' \in BOOLEAN
      /\ cache' # {} => InitialScripts \subseteq cache'
  BY DEF CommitBlock, RejectBlock, ErrorReturn, CommitUnacknowledged, Crash, TypeOK, ScriptsInv
<1>3. faults' \in 0..MaxFaults
  BY SequentialAssumption
     DEF CommitBlock, RejectBlock, ErrorReturn, CommitUnacknowledged, Crash, Fault, TypeOK
<1>4. ASSUME RejectBlock \/ ErrorReturn \/ Crash
      PROVE  IInv'
  <2>1. UNCHANGED <<transaction, utxo, tx_reference, index_progress>>
    BY <1>4 DEF RejectBlock, ErrorReturn, Crash
  <2>2. \E p \in {"idle", "down"} : ReturnTo(p)
    BY <1>4 DEF RejectBlock, ErrorReturn, Crash
  <2>3. TablesInv' /\ ProgressIsTruthful'
    BY <2>1, TablesKept DEF ProgressIsTruthful, Indexed
  <2>4. /\ TypeOK'
        /\ LocalsInv'
        /\ ScriptsInv'
    BY <1>1, <1>2, <1>3, <2>1, <2>2, ReturnKeeps DEF TypeOK, ScriptsInv
  <2> QED BY <2>3, <2>4
<1>5. ASSUME CommitBlock \/ CommitUnacknowledged
      PROVE  IInv'
  <2>1. pc = "commit" /\ StoreBlock
    BY <1>5 DEF CommitBlock, CommitUnacknowledged
  <2>2. /\ transaction' \in [Tx -> Block \cup {NoBlock}]
        /\ utxo' \in [OutPoint -> Row]
        /\ tx_reference' \subseteq RefKey
        /\ \A a \in Block : Indexed(transaction', a) <=> Indexed(transaction, a) \/ a = blockHash
        /\ TablesInv'
    BY <2>1, StoreBlockTables
  <2>3. /\ blockHash \in Block /\ HeightOf[blockHash] = height
        /\ \A b \in Block : Indexed(transaction, b) => HeightOf[b] < height
        /\ height \in 1..currentHeight /\ currentHeight <= Len(active)
        /\ height \in Nat /\ currentHeight \in Nat
    BY <2>1 DEF LocalsInv, Busy, PC, TypeOK
  <2>4. index_progress' = [height |-> height, hash |-> blockHash]
    BY <2>1 DEF StoreBlock
  <2>5. index_progress' \in Progress
    BY <2>3, <2>4 DEF Progress
  <2>6. \A b \in Block : HeightOf[b] \in Nat
    BY DataAssumption
  <2>7. ProgressIsTruthful'
    BY <2>2, <2>3, <2>4, <2>6 DEF ProgressIsTruthful
  <2>8. CASE \E p \in {"idle", "down"} : ReturnTo(p)
    <3>1. TypeOK' /\ LocalsInv' /\ ScriptsInv'
      BY <1>1, <1>2, <1>3, <2>2, <2>5, <2>8, ReturnKeeps DEF TypeOK, ScriptsInv
    <3> QED BY <2>2, <2>7, <3>1
  <2>9. CASE CommitBlock /\ height < currentHeight
    <3>1. NextHeight /\ height' = height + 1 /\ UNCHANGED <<currentHeight, cache>>
      BY <2>9 DEF CommitBlock, NextHeight
    <3>2. pc' \in {"hash", "chunk"} /\ blockHash' = NoBlock /\ work' = NoWork
      BY <3>1 DEF NextHeight
    <3>3. NoWork \in Work
      BY DEF NoWork, Work
    <3>4. TypeOK'
      BY <1>1, <1>2, <1>3, <2>2, <2>3, <2>5, <3>1, <3>2, <3>3 DEF TypeOK, NextHeight, PC
    <3>5. ScriptsInv'
      BY <1>1, <1>2, <2>1, <3>1 DEF ScriptsInv, NextHeight
    <3>6. \A b \in Block : Indexed(transaction', b) => HeightOf[b] < height'
      BY <2>2, <2>3, <2>6, <3>1
    <3>7. height' \in 1..currentHeight' /\ currentHeight' <= Len(active')
      BY <1>1, <2>3, <2>9, <3>1
    <3>8. height' = index_progress'.height + 1
      BY <2>4, <3>1
    <3>9. LocalsInv'
      BY <3>2, <3>6, <3>7, <3>8 DEF LocalsInv
    <3> QED BY <2>2, <2>7, <3>4, <3>5, <3>9
  <2>10. \/ \E p \in {"idle", "down"} : ReturnTo(p)
         \/ CommitBlock /\ height < currentHeight
    BY <1>5 DEF CommitBlock, CommitUnacknowledged
  <2> QED BY <2>8, <2>9, <2>10
<1> QED BY <1>4, <1>5

(* Every step keeps the invariant. *)
LEMMA NextIInv == IInv /\ [Next]_vars => IInv'
<1> SUFFICES ASSUME IInv, [Next]_vars PROVE IInv'
  OBVIOUS
<1>1. CASE NodeAdvances \/ (\E s \in Script : AddWatchedScript(s)) \/ CacheExpires
  BY <1>1, EnvironmentKeeps
<1>2. CASE \/ ProcessBlocks \/ ProcessBlockChunk \/ GetBlockHash
           \/ CheckReorg \/ GetAndParseBlock \/ Restart
  BY <1>2, ReadingKeeps
<1>3. CASE CommitBlock \/ RejectBlock \/ ErrorReturn \/ CommitUnacknowledged \/ Crash
  BY <1>3, EndOfBlockKeeps
<1>4. CASE UNCHANGED vars
  <2>1. UNCHANGED <<active, transaction, utxo, tx_reference, index_progress, watched_script,
                    cache, cacheFresh, pc, currentHeight, height, endHeight,
                    watchedScriptMap, blockHash, work, faults>>
    BY <1>4 DEF vars, database, scripts, locals
  <2>2. TablesInv'
    BY <2>1, TablesKept DEF IInv
  <2>3. TypeOK' /\ ProgressIsTruthful' /\ LocalsInv' /\ ScriptsInv'
    BY <2>1 DEF IInv, TypeOK, ProgressIsTruthful, LocalsInv, ScriptsInv, Indexed
  <2> QED BY <2>2, <2>3 DEF IInv
<1> QED BY <1>1, <1>2, <1>3, <1>4 DEF Next, Poller

(* The invariant holds in every reachable state of the block poller. *)
THEOREM Invariance == Spec => []IInv
BY InitIInv, NextIInv, PTL DEF Spec

(* Every variable keeps its type, through failures and crashes. *)
THEOREM TypeCorrect == Spec => []TypeOK
<1>1. IInv => TypeOK
  BY DEF IInv
<1> QED BY Invariance, <1>1, PTL

(* A block is in the tables completely or not at all: whatever fails, the   *)
(* one transaction of processBlockDataInSingleTransaction leaves no half.   *)
THEOREM BlocksAtomic == Spec => []BlockAtomic
<1>1. IInv => BlockAtomic
  BY DEF IInv, TablesInv
<1> QED BY Invariance, <1>1, PTL

(* The progress row never understates what is stored, and a hash in it is   *)
(* the hash of a stored block of that height.                               *)
THEOREM ProgressTruthful == Spec => []ProgressIsTruthful
<1>1. IInv => ProgressIsTruthful
  BY DEF IInv
<1> QED BY Invariance, <1>1, PTL

(* processBlocks never stores two blocks of the same height. *)
THEOREM IndexedOnce == Spec => []HeightIndexedOnce
<1>1. IInv => HeightIndexedOnce
  BY DEF IInv, TablesInv
<1> QED BY Invariance, <1>1, PTL

(* Rows are marked spent only on account of stored transactions. *)
THEOREM SpendsHaveEvidence == Spec => []SpentOnEvidence
<1>1. IInv => SpentOnEvidence
  BY DEF IInv, TablesInv
<1> QED BY Invariance, <1>1, PTL

(* Scripts watched from the start are followed without a gap, whatever      *)
(* becomes of the five-minute cache.                                        *)
THEOREM ScriptsFollowed == Spec => []InitialScriptsFollowed
<1>1. IInv => InitialScriptsFollowed
  BY DEF IInv, TablesInv
<1> QED BY Invariance, <1>1, PTL

(* The progress row moves by at most one height per step and never back:    *)
(* checkReorg and the commit each set it to the height in hand, which is    *)
(* the height of the row or the next one.                                   *)
THEOREM ProgressSteps == Spec => ProgressByOne
<1> DEFINE Step == index_progress'.height \in {index_progress.height, index_progress.height + 1}
<1>1. ASSUME IInv, [Next]_vars
      PROVE  [Step]_vars
  <2>1. CASE index_progress' = index_progress
    BY <2>1
  <2>2. CASE CheckReorg
    <3>1. height = index_progress.height + 1
      BY <1>1, <2>2 DEF CheckReorg, IInv, LocalsInv
    <3>2. index_progress' = [height |-> height, hash |-> NoBlock] \/ index_progress' = index_progress
      BY <2>2 DEF CheckReorg
    <3> QED BY <3>1, <3>2
  <2>3. CASE CommitBlock \/ CommitUnacknowledged
    <3>1. height \in {index_progress.height, index_progress.height + 1}
      BY <1>1, <2>3 DEF CommitBlock, CommitUnacknowledged, IInv, LocalsInv
    <3>2. index_progress' = [height |-> height, hash |-> blockHash]
      BY <2>3 DEF CommitBlock, CommitUnacknowledged, StoreBlock
    <3> QED BY <3>1, <3>2
  <2>4. \/ index_progress' = index_progress
        \/ CheckReorg \/ CommitBlock \/ CommitUnacknowledged
    BY <1>1 DEF Next, Poller, vars, database, NodeAdvances, AddWatchedScript, CacheExpires,
                ProcessBlocks, ProcessBlockChunk, GetBlockHash, GetAndParseBlock, RejectBlock,
                Restart, ErrorReturn, Crash
  <2> QED BY <2>1, <2>2, <2>3, <2>4
<1> QED BY Invariance, <1>1, PTL DEF Spec, ProgressByOne
-----------------------------------------------------------------------------
(* The sequential block poller implements the ledger, for every chain tree, *)
(* chunk and batch size and any number of failures and crashes.             *)

(* What storing a block does to the status of an output: inputs found among *)
(* the unspent rows are spent, the block's other outputs are confirmed.     *)
LEMMA StoredStatus ==
    ASSUME NEW u \in [OutPoint -> Row], NEW b \in Block, NEW W \in SUBSET Script,
           NEW o \in OutPoint
    PROVE  LET k == ParseBlockWithCache(b, u, W)
               v == BulkMarkUTXOsSpent(BulkUpsertUTXOs(u, k.new, b), k.spent, b) IN
           v[o].status = IF o \in InputsOf(b) /\ u[o].status \in Spendable THEN "spent"
                         ELSE IF Creator[o] \in TxsOf[b] THEN "confirmed" ELSE u[o].status
<1> DEFINE k == ParseBlockWithCache(b, u, W)
           w == BulkUpsertUTXOs(u, k.new, b)
           v == BulkMarkUTXOsSpent(w, k.spent, b)
<1>1. k.new = {p \in OutPoint : Creator[p] \in TxsOf[b]}
  BY DEF ParseBlockWithCache
<1>2. k.spent = {p \in InputsOf(b) : u[p].status \in Spendable}
  BY DEF ParseBlockWithCache, BatchGetUTXOs
<1>3. u[o] \in Row
  OBVIOUS
<1> HIDE DEF k
<1>4. w[o] = IF Creator[o] \in TxsOf[b] THEN [u[o] EXCEPT !.status = "confirmed", !.block = b] ELSE u[o]
  BY <1>1 DEF BulkUpsertUTXOs
<1>5. w[o].status = IF Creator[o] \in TxsOf[b] THEN "confirmed" ELSE u[o].status
  BY <1>3, <1>4 DEF Row
<1>6. w[o] \in [status : {w[o].status}, block : Block \cup {NoBlock}, spentBy : Tx \cup {NoTx}]
  BY <1>3, <1>4 DEF Row
<1>7. v[o] = IF o \in k.spent /\ w[o].status # "none"
             THEN [w[o] EXCEPT !.status = "spent", !.spentBy = Spender(b, FirstOf(BatchOf(k.spent, o)))]
             ELSE w[o]
  BY DEF BulkMarkUTXOsSpent
<1> HIDE DEF w, v
<1>8. v[o].status = IF o \in k.spent /\ w[o].status # "none" THEN "spent" ELSE w[o].status
  <2>1. CASE o \in k.spent /\ w[o].status # "none"
    BY <1>6, <1>7, <2>1
  <2>2. CASE ~(o \in k.spent /\ w[o].status # "none")
    BY <1>7, <2>2
  <2> QED BY <2>1, <2>2
<1>9. v[o].status = IF o \in InputsOf(b) /\ u[o].status \in Spendable THEN "spent"
                    ELSE IF Creator[o] \in TxsOf[b] THEN "confirmed" ELSE u[o].status
  BY <1>2, <1>5, <1>8 DEF Spendable
<1> QED BY <1>9 DEF k, w, v

(* Of the tables, an output is unspent in the ledger's sense. *)
LEMMA OutputStatus ==
    ASSUME NEW u \in [OutPoint -> Row], NEW o \in OutPoint
    PROVE  /\ u[o].status \in {"none", "mempool", "confirmed", "spent"}
           /\ u[o].status \in Spendable <=> u[o].status \in {"mempool", "confirmed"}
BY DEF Row, Status, Spendable

(* The database transaction of a block, committed, takes the block over. *)
LEMMA StoreTakesOver ==
    ASSUME IInv, pc = "commit", StoreBlock
    PROVE  L!TakeOver(blockHash)
<1> DEFINE Taken(tr) == {b \in Block : Indexed(tr, b)}
<1>1. /\ blockHash \in Block /\ HeightOf[blockHash] = height
      /\ height \in {index_progress.height, index_progress.height + 1}
      /\ \A b \in Block : Indexed(transaction, b) => HeightOf[b] < height
      /\ work = ParseBlockWithCache(blockHash, utxo, watchedScriptMap)
  BY DEF IInv, LocalsInv, Busy, PC
<1>2. Taken(transaction') = Taken(transaction) \cup {blockHash}
  BY <1>1, StoreBlockTables
<1>3. index_progress'.height = HeightOf[blockHash]
  BY <1>1 DEF StoreBlock
<1>4. utxo \in [OutPoint -> Row] /\ watchedScriptMap \in SUBSET Script
  BY DEF IInv, TypeOK
<1>5. utxo' \in [OutPoint -> Row]
  BY StoreBlockTables
<1>6. utxo' = BulkMarkUTXOsSpent(BulkUpsertUTXOs(utxo, work.new, blockHash), work.spent, blockHash)
  BY DEF StoreBlock
<1>7. ASSUME NEW o \in OutPoint
      PROVE  OutputStates(utxo')[o] = IF L!SpentBy(blockHash, o) THEN "spent"
                           ELSE IF Creator[o] \in TxsOf[blockHash] THEN "unspent" ELSE OutputStates(utxo)[o]
  <2>1. utxo'[o].status = IF o \in InputsOf(blockHash) /\ utxo[o].status \in Spendable THEN "spent"
                          ELSE IF Creator[o] \in TxsOf[blockHash] THEN "confirmed" ELSE utxo[o].status
    BY <1>1, <1>4, <1>6, StoredStatus
  <2>2. o \in InputsOf(blockHash) <=> \E t \in TxsOf[blockHash] : o \in Vin[t]
    BY DEF InputsOf
  <2>3. OutputStates(utxo)[o] = IF utxo[o].status \in Spendable THEN "unspent" ELSE utxo[o].status
    BY DEF OutputStates
  <2>4. OutputStates(utxo')[o] = IF utxo'[o].status \in Spendable THEN "unspent" ELSE utxo'[o].status
    BY DEF OutputStates
  <2>5. L!SpentBy(blockHash, o) <=> o \in InputsOf(blockHash) /\ utxo[o].status \in Spendable
    BY <1>4, <2>2, <2>3, OutputStatus DEF L!SpentBy
  <2> QED BY <2>1, <2>3, <2>4, <2>5 DEF Spendable
<1>8. OutputStates(utxo') = [o \in OutPoint |->
                    IF L!SpentBy(blockHash, o) THEN "spent"
                    ELSE IF Creator[o] \in TxsOf[blockHash] THEN "unspent" ELSE OutputStates(utxo)[o]]
  BY <1>7 DEF OutputStates
<1> QED BY <1>1, <1>2, <1>3, <1>8 DEF L!TakeOver

(* Empty tables are an empty ledger. *)
LEMMA InitLedger == Init => L!Init
<1> SUFFICES ASSUME Init PROVE L!Init
  OBVIOUS
<1>1. \A b \in Block : ~Indexed(transaction, b)
  BY DataAssumption DEF Init, TablesEmpty, Indexed
<1>2. OutputStates(utxo) = [o \in OutPoint |-> "none"]
  BY DEF OutputStates, Init, TablesEmpty, NoRow, Spendable
<1>3. index_progress.height = 0
  BY DEF Init
<1> QED BY <1>1, <1>2, <1>3 DEF L!Init

(* Every step of the poller takes a block over, announces a height or       *)
(* leaves the ledger as it is.                                              *)
LEMMA StepLedger == IInv /\ [Next]_vars => [L!Next]_(L!ledger)
<1> SUFFICES ASSUME IInv, [Next]_vars PROVE [L!Next]_(L!ledger)
  OBVIOUS
<1>1. CASE UNCHANGED <<transaction, utxo, index_progress>>
  BY <1>1 DEF L!ledger, Indexed, OutputStates
<1>2. CASE CheckReorg
  <2>1. height = index_progress.height + 1
    BY <1>2 DEF CheckReorg, IInv, LocalsInv
  <2>2. UNCHANGED <<transaction, utxo>>
    BY <1>2 DEF CheckReorg
  <2>3. CASE index_progress' = index_progress
    BY <1>1, <2>2, <2>3
  <2>4. CASE index_progress' = [height |-> height, hash |-> NoBlock]
    <3>1. index_progress'.height = index_progress.height + 1
      BY <2>1, <2>4
    <3> QED BY <2>2, <3>1 DEF L!Next, L!Announce, Indexed, OutputStates
  <2> QED BY <1>2, <2>3, <2>4 DEF CheckReorg
<1>3. CASE CommitBlock \/ CommitUnacknowledged
  <2>1. pc = "commit" /\ StoreBlock
    BY <1>3 DEF CommitBlock, CommitUnacknowledged
  <2>2. blockHash \in Block
    BY <2>1 DEF IInv, LocalsInv
  <2> QED BY <2>1, <2>2, StoreTakesOver DEF L!Next
<1>4. \/ UNCHANGED <<transaction, utxo, index_progress>>
      \/ CheckReorg \/ CommitBlock \/ CommitUnacknowledged
  BY DEF Next, Poller, vars, database, NodeAdvances, AddWatchedScript, CacheExpires,
         ProcessBlocks, ProcessBlockChunk, GetBlockHash, GetAndParseBlock, RejectBlock,
         Restart, ErrorReturn, Crash
<1> QED BY <1>1, <1>2, <1>3, <1>4

(* The poller, with its failures, crashes and restarts, implements the      *)
(* ledger: whoever reads the tables sees whole blocks applied one by one.   *)
THEOREM PollerImplementsLedger == Spec => ImplementsLedger
<1>1. Init => L!Init
  BY InitLedger
<1>2. IInv /\ [Next]_vars => [L!Next]_(L!ledger)
  BY StepLedger
<1> QED BY Invariance, <1>1, <1>2, PTL DEF Spec, ImplementsLedger, L!Spec
-----------------------------------------------------------------------------
(* The poller implements the archive that all paths share *)

(* What a step about block b has to do to the tables to be a step of the    *)
(* archive about b.                                                         *)
LEMMA ArchiveStep ==
    ASSUME utxo \in [OutPoint -> Row], utxo' \in [OutPoint -> Row], NEW b \in Block,
           StoredTxs(transaction') \in {StoredTxs(transaction), StoredTxs(transaction) \cup TxsOf[b]},
           \A o \in OutPoint : OutputRecorded(utxo, utxo', b, o),
           index_progress'.hash \in {index_progress.hash, NoBlock, b},
           \/ utxo' = utxo /\ index_progress'.hash # b
           \/ TxsOf[b] \subseteq StoredTxs(transaction')
    PROVE  Arch!Record(b)
<1>1. OutputStates(utxo') \in [OutPoint -> {"none", "unspent", "spent"}]
  BY StatesOfRows
<1>2. ASSUME NEW o \in OutPoint
      PROVE  Arch!RecordOutput(b, o)
  <2>1. OutputRecorded(utxo, utxo', b, o)
    OBVIOUS
  <2> QED BY <2>1, StatesRecorded DEF Arch!RecordOutput, Arch!Creates, Arch!Spends
<1>3. utxo' = utxo => OutputStates(utxo') = OutputStates(utxo)
  OBVIOUS
<1> QED BY <1>1, <1>2, <1>3 DEF Arch!Record

(* Empty tables are an empty archive. *)
LEMMA InitArchive == Init => Arch!Init
BY EmptyTablesShow DEF Init, Arch!Init

(* The database transaction of a block is a step of the archive about it. *)
LEMMA StoreRecordsBlock ==
    ASSUME IInv, pc = "commit", StoreBlock
    PROVE  blockHash \in Block /\ Arch!Record(blockHash)
<1>1. PICK b \in Block : b = blockHash /\ work = ParseBlockWithCache(b, utxo, watchedScriptMap)
  BY DEF IInv, LocalsInv, Busy, PC
<1>2. PICK N \in SUBSET OutPoint, S \in SUBSET InputsOf(b) :
           N = work.new /\ S = work.spent /\ \A o \in N : Creator[o] \in TxsOf[b]
  BY <1>1 DEF ParseBlockWithCache, BatchGetUTXOs
<1>3. /\ transaction' = BatchStoreTransactions(transaction, b)
      /\ utxo' = BulkMarkUTXOsSpent(BulkUpsertUTXOs(utxo, N, b), S, b)
      /\ index_progress'.hash = b
  BY <1>1, <1>2 DEF StoreBlock
<1>4. /\ transaction \in [Tx -> Block \cup {NoBlock}]
      /\ utxo \in [OutPoint -> Row] /\ utxo' \in [OutPoint -> Row]
  BY StoreBlockTables DEF IInv, TypeOK
<1>5. StoredTxs(transaction') = StoredTxs(transaction) \cup TxsOf[b]
  BY <1>3, <1>4, StoredGrows
<1>6. \A o \in OutPoint : OutputRecorded(utxo, utxo', b, o)
  BY <1>2, <1>3, <1>4, StoreRecords
<1> QED BY <1>1, <1>3, <1>4, <1>5, <1>6, ArchiveStep

(* A step of the poller stores a block, blanks the hash of the progress or  *)
(* leaves the archive alone.                                                *)
LEMMA StepArchive == IInv /\ [Next]_vars => [Arch!Next]_(Arch!archive)
<1> SUFFICES ASSUME IInv, [Next]_vars PROVE [Arch!Next]_(Arch!archive)
  OBVIOUS
<1>1. CASE UNCHANGED <<transaction, utxo, index_progress>>
  BY <1>1 DEF Arch!archive, StoredTxs, Stored, OutputStates
<1>2. CASE CheckReorg
  <2>1. UNCHANGED <<transaction, utxo>>
    BY <1>2 DEF CheckReorg
  <2>2. CASE index_progress' = index_progress
    BY <1>1, <2>1, <2>2
  <2>3. CASE index_progress' = [height |-> height, hash |-> NoBlock]
    <3>1. index_progress'.hash = NoBlock /\ Genesis \in Block /\ Genesis # NoBlock
      BY <2>3, DataAssumption
    <3>2. utxo \in [OutPoint -> Row] /\ utxo' \in [OutPoint -> Row]
      BY <2>1 DEF IInv, TypeOK
    <3>3. \A o \in OutPoint : OutputRecorded(utxo, utxo', Genesis, o)
      BY <2>1 DEF OutputRecorded
    <3>4. Arch!Record(Genesis)
      BY <2>1, <3>1, <3>2, <3>3, ArchiveStep
    <3> QED BY <3>1, <3>4 DEF Arch!Next
  <2> QED BY <1>2, <2>2, <2>3 DEF CheckReorg
<1>3. CASE CommitBlock \/ CommitUnacknowledged
  <2>1. pc = "commit" /\ StoreBlock
    BY <1>3 DEF CommitBlock, CommitUnacknowledged
  <2> QED BY <2>1, StoreRecordsBlock DEF Arch!Next
<1>4. \/ UNCHANGED <<transaction, utxo, index_progress>>
      \/ CheckReorg \/ CommitBlock \/ CommitUnacknowledged
  BY DEF Next, Poller, vars, database, NodeAdvances, AddWatchedScript, CacheExpires,
         ProcessBlocks, ProcessBlockChunk, GetBlockHash, GetAndParseBlock, RejectBlock,
         Restart, ErrorReturn, Crash
<1> QED BY <1>1, <1>2, <1>3, <1>4

(* The poller implements the archive as the other paths do: in particular   *)
(* a progress that names a block names one whose transactions are stored.   *)
THEOREM PollerImplementsArchive == Spec => ImplementsArchive
<1>1. Init => Arch!Init
  BY InitArchive
<1>2. IInv /\ [Next]_vars => [Arch!Next]_(Arch!archive)
  BY StepArchive
<1> QED BY Invariance, <1>1, <1>2, PTL DEF Spec, ImplementsArchive, Arch!Spec
-----------------------------------------------------------------------------
(* Without failures no height is left out but one that PostgreSQL refuses. *)

(* Height h has an indexed block, or one that can be refused. *)
Settled(h) == \E b \in Block : HeightOf[b] = h /\ (Indexed(transaction, b) \/ PaysTwice(b))

(* The height below which everything is settled: while a poll runs, the     *)
(* height in hand, because checkReorg may have moved the progress to it.    *)
SettledBelow == IF pc \in Busy THEN height ELSE index_progress.height + 1

(* NoGap, extended to the time within a poll. *)
GapInv == faults = 0 => \A h \in Nat : 1 <= h /\ h < SettledBelow => Settled(h)

(* The references of a parsed block are among those it has when every row   *)
(* is found and every script watched: what is refused now PaysTwice.        *)
LEMMA RefusedPaysTwice ==
    ASSUME NEW b \in Block, NEW u, NEW W \in SUBSET Script,
           RefsRejected(ParseBlockWithCache(b, u, W).refs)
    PROVE  PaysTwice(b)
<1> DEFINE found == BatchGetUTXOs(u, InputsOf(b))
           most == UNION {RefsOfTx(t, Vin[t], Script) : t \in TxsOf[b]}
<1>1. ParseBlockWithCache(b, u, W).refs = UNION {RefsOfTx(t, found, W) : t \in TxsOf[b]}
  BY DEF ParseBlockWithCache
<1>2. ASSUME NEW t \in TxsOf[b]
      PROVE  RefsOfTx(t, found, W) \subseteq RefsOfTx(t, Vin[t], Script)
  <2>1. t \in Tx /\ Vin[t] \subseteq OutPoint /\ OutputsOf(t) \subseteq OutPoint
    BY <1>2, DataAssumption DEF OutputsOf
  <2>2. {p \in OutputsOf(t) : ScriptOf[p] \in W} \subseteq {p \in OutputsOf(t) : ScriptOf[p] \in Script}
    OBVIOUS
  <2>3. {p \in Vin[t] \cap found : ScriptOf[p] \in W} \subseteq {p \in Vin[t] \cap Vin[t] : ScriptOf[p] \in Script}
    OBVIOUS
  <2> HIDE DEF found
  <2> QED BY <2>2, <2>3, Zenon DEF RefsOfTx
<1>3. UNION {RefsOfTx(t, found, W) : t \in TxsOf[b]} \subseteq most
  BY <1>2
<1> HIDE DEF found
<1> QED BY <1>1, <1>3 DEF RefsRejected, PaysTwice

(* Nothing that was settled is unsettled. *)
LEMMA SettledStays ==
    ASSUME IInv, [Next]_vars, NEW h, Settled(h)
    PROVE  Settled(h)'
<1>1. CASE UNCHANGED transaction
  BY <1>1 DEF Settled, Indexed
<1>2. CASE pc = "commit" /\ StoreBlock
  BY <1>2, StoreBlockTables DEF Settled
<1>3. UNCHANGED transaction \/ (pc = "commit" /\ StoreBlock)
  BY DEF Next, Poller, vars, database, NodeAdvances, AddWatchedScript, CacheExpires,
         ProcessBlocks, ProcessBlockChunk, GetBlockHash, CheckReorg, GetAndParseBlock, RejectBlock,
         Restart, ErrorReturn, Crash, CommitBlock, CommitUnacknowledged
<1> QED BY <1>1, <1>2, <1>3

(* The bound rises only past a height whose block was just stored or        *)
(* refused.                                                                 *)
LEMMA NextGapInv == IInv /\ GapInv /\ [Next]_vars => GapInv'
<1> SUFFICES ASSUME IInv, GapInv, [Next]_vars, faults' = 0,
                    NEW h \in Nat, 1 <= h, h < SettledBelow'
             PROVE  Settled(h)'
  BY DEF GapInv
<1>1. height \in Nat /\ index_progress.height \in Nat /\ faults \in Nat
  BY SequentialAssumption DEF IInv, TypeOK, Progress
<1>2. CASE h < SettledBelow /\ faults = 0
  BY <1>2, SettledStays DEF GapInv
<1>3. CASE CommitBlock \/ CommitUnacknowledged
  <2>1. pc = "commit" /\ StoreBlock
    BY <1>3 DEF CommitBlock, CommitUnacknowledged
  <2>2. blockHash \in Block /\ HeightOf[blockHash] = height /\ index_progress'.height = height
    BY <2>1 DEF IInv, LocalsInv, StoreBlock
  <2>3. faults = 0
    BY <1>1, <1>3 DEF CommitBlock, CommitUnacknowledged, Fault
  <2>4. SettledBelow = height /\ SettledBelow' = height + 1
    <3>1. pc' \notin Busy \/ height' = height + 1
      BY <1>3 DEF CommitBlock, CommitUnacknowledged, NextHeight, ReturnTo, Busy
    <3> QED BY <2>1, <2>2, <3>1 DEF SettledBelow, Busy, PC
  <2>5. CASE h = height
    BY <2>1, <2>2, <2>5, StoreBlockTables DEF Settled
  <2> QED BY <1>1, <1>2, <2>3, <2>4, <2>5
<1>4. CASE RejectBlock
  <2>1. pc = "commit" /\ UNCHANGED <<transaction, index_progress, faults>>
    BY <1>4 DEF RejectBlock, database
  <2>2. /\ blockHash \in Block /\ HeightOf[blockHash] = height
        /\ height \in {index_progress.height, index_progress.height + 1}
        /\ work = ParseBlockWithCache(blockHash, utxo, watchedScriptMap)
        /\ watchedScriptMap \subseteq Script
    BY <2>1 DEF IInv, LocalsInv, TypeOK
  <2>3. PaysTwice(blockHash)
    BY <1>4, <2>2, RefusedPaysTwice DEF RejectBlock
  <2>4. SettledBelow = height /\ SettledBelow' = index_progress.height + 1
    BY <1>4, <2>1 DEF RejectBlock, ReturnTo, SettledBelow, Busy, PC
  <2>5. CASE h = height
    BY <2>2, <2>3, <2>5 DEF Settled
  <2> QED BY <1>1, <1>2, <2>1, <2>2, <2>4, <2>5
<1>5. CASE ErrorReturn \/ Crash
  BY <1>1, <1>5 DEF ErrorReturn, Crash, Fault
<1>6. CASE ProcessBlocks
  <2>1. SettledBelow = index_progress.height + 1 /\ SettledBelow' = index_progress.height + 1
    BY <1>6 DEF ProcessBlocks, FirstHeight, SettledBelow, Busy, PC
  <2> QED BY <1>2, <1>6, <2>1 DEF ProcessBlocks
<1>7. CASE ProcessBlockChunk \/ GetBlockHash \/ CheckReorg \/ GetAndParseBlock
  <2>1. SettledBelow = height /\ SettledBelow' = height /\ faults' = faults
    BY <1>7 DEF ProcessBlockChunk, GetBlockHash, CheckReorg, GetAndParseBlock, SettledBelow,
                Busy, PC, locals
  <2> QED BY <1>2, <2>1
<1>8. CASE Restart
  <2>1. SettledBelow' = SettledBelow /\ faults' = faults
    BY <1>8 DEF Restart, SettledBelow, Busy, PC, locals, database
  <2> QED BY <1>2, <2>1
<1>9. CASE \/ UNCHANGED vars \/ NodeAdvances \/ (\E s \in Script : AddWatchedScript(s)) \/ CacheExpires
  <2>1. UNCHANGED <<pc, height, index_progress, faults>>
    BY <1>9 DEF vars, NodeAdvances, AddWatchedScript, CacheExpires, locals, database
  <2>2. SettledBelow' = SettledBelow
    BY <2>1 DEF SettledBelow
  <2> QED BY <1>2, <2>1, <2>2
<1> QED BY <1>3, <1>4, <1>5, <1>6, <1>7, <1>8, <1>9 DEF Next, Poller

(* As long as no call fails, processBlocks leaves out no height but those   *)
(* of blocks whose references PostgreSQL can refuse, reorganisations        *)
(* included: the progress that checkReorg moves ahead is always caught up.  *)
THEOREM NoHeightLeftOut == Spec => []NoGap
<1>1. Init => GapInv
  BY DEF Init, GapInv, SettledBelow, Busy, PC
<1>2. IInv /\ GapInv => NoGap
  <2> SUFFICES ASSUME IInv, GapInv, pc \in {"idle", "down"}, faults = 0,
                      NEW h \in 1..index_progress.height
               PROVE  Settled(h)
    BY DEF NoGap, Settled
  <2>1. index_progress.height \in Nat
    BY DEF IInv, TypeOK, Progress
  <2>2. SettledBelow = index_progress.height + 1
    BY DEF SettledBelow, Busy
  <2> QED BY <2>1, <2>2 DEF GapInv
<1>3. IInv /\ GapInv /\ [Next]_vars => GapInv'
  BY NextGapInv
<1> QED BY Invariance, <1>1, <1>2, <1>3, PTL DEF Spec
-----------------------------------------------------------------------------
(* On a chain that is never reorganised every earlier output is spent. *)

(* Block b is the block of its height on the node's chain. *)
OnChain(b) == HeightOf[b] \in 1..Len(active) /\ active[HeightOf[b]] = b

(* What is stored or in hand is on the chain, an output's row names the     *)
(* block that its transaction's row names, and what earlier blocks created  *)
(* and stored transactions spend is marked.                                 *)
LinearInv ==
    /\ \A b \in Block : Indexed(transaction, b) => OnChain(b)
    /\ pc \in {"reorg", "block", "commit"} => OnChain(blockHash)
    /\ \A o \in OutPoint : HasRow(utxo, o) => utxo[o].block = transaction[Creator[o]]
    /\ EarlierOutputsSpent

(* Which block an output's row names after the statements of a block. *)
LEMMA StoredBlock ==
    ASSUME NEW u \in [OutPoint -> Row], NEW b \in Block, NEW N, NEW S, NEW o \in OutPoint
    PROVE  LET v == BulkMarkUTXOsSpent(BulkUpsertUTXOs(u, N, b), S, b) IN
           /\ v[o].block = IF o \in N THEN b ELSE u[o].block
           /\ HasRow(v, o) => HasRow(u, o) \/ o \in N
<1> DEFINE w == BulkUpsertUTXOs(u, N, b)
           v == BulkMarkUTXOsSpent(w, S, b)
<1>1. /\ o \in N => w[o].block = b
      /\ o \notin N => w[o] = u[o]
  BY DEF BulkUpsertUTXOs, Row
<1>2. w[o] \in Row
  BY DEF BulkUpsertUTXOs, Row, Status
<1> HIDE DEF w
<1>3. v[o].block = w[o].block /\ (HasRow(v, o) => HasRow(w, o))
  BY <1>2 DEF BulkMarkUTXOsSpent, Row, HasRow
<1> QED BY <1>1, <1>3 DEF w, HasRow

(* No transaction of the block in hand is stored yet: it would be in two    *)
(* blocks of one chain.                                                     *)
LEMMA BlockIsFresh ==
    ASSUME IInv, LinearInv, pc = "commit", NEW t \in TxsOf[blockHash]
    PROVE  ~Stored(transaction, t)
<1> SUFFICES ASSUME Stored(transaction, t) PROVE FALSE
  OBVIOUS
<1>1. blockHash \in Block /\ HeightOf[blockHash] = height /\ OnChain(blockHash)
  BY DEF IInv, LocalsInv, LinearInv
<1>2. t \in Tx
  BY <1>1, DataAssumption
<1>3. transaction[t] \in Block
  BY <1>2 DEF IInv, TypeOK, Stored
<1>4. Indexed(transaction, transaction[t]) /\ t \in TxsOf[transaction[t]]
  BY <1>2 DEF IInv, TablesInv, BlockAtomic, TablesAtomic, RowsNameHolder
<1>5. HeightOf[transaction[t]] < height /\ OnChain(transaction[t])
  BY <1>3, <1>4 DEF IInv, LocalsInv, Busy, PC, LinearInv
<1> DEFINE g == HeightOf[transaction[t]]
<1>6. /\ g \in 1..Len(active) /\ height \in 1..Len(active) /\ g # height
      /\ t \in TxsOf[active[g]] /\ t \in TxsOf[active[height]]
  BY <1>1, <1>4, <1>5 DEF OnChain
<1>7. active \in Chains
  BY DEF IInv, TypeOK
<1> HIDE DEF g
<1> QED BY <1>6, <1>7, ConsensusAssumption

(* The transaction that stores a block keeps the invariant. *)
LEMMA StoreKeepsLinear ==
    ASSUME IInv, LinearInv, pc = "commit", StoreBlock, UNCHANGED active
    PROVE  /\ \A b \in Block : Indexed(transaction', b) => OnChain(b)'
           /\ \A o \in OutPoint : HasRow(utxo', o) => utxo'[o].block = transaction'[Creator[o]]
           /\ EarlierOutputsSpent'
<1>1. /\ blockHash \in Block /\ HeightOf[blockHash] = height /\ OnChain(blockHash)
      /\ \A b \in Block : Indexed(transaction, b) => HeightOf[b] < height
      /\ work = ParseBlockWithCache(blockHash, utxo, watchedScriptMap)
  BY DEF IInv, LocalsInv, LinearInv, Busy, PC
<1>2. /\ transaction \in [Tx -> Block \cup {NoBlock}] /\ utxo \in [OutPoint -> Row]
      /\ watchedScriptMap \in SUBSET Script
  BY DEF IInv, TypeOK
<1>3. transaction' = BatchStoreTransactions(transaction, blockHash)
  BY DEF StoreBlock
<1>4. utxo' = BulkMarkUTXOsSpent(BulkUpsertUTXOs(utxo, work.new, blockHash), work.spent, blockHash)
  BY DEF StoreBlock
<1>5. work.new = {o \in OutPoint : Creator[o] \in TxsOf[blockHash]}
  BY <1>1, <1>2, ParseResult
<1>6. /\ \A t \in Tx : Stored(transaction, t) => transaction'[t] = transaction[t]
      /\ \A t \in TxsOf[blockHash] : t \in Tx /\ ~Stored(transaction, t) /\ transaction'[t] = blockHash
      /\ \A t \in Tx : ~Stored(transaction, t) /\ t \notin TxsOf[blockHash] => ~Stored(transaction', t)
  BY <1>1, <1>2, <1>3, StoreTransactions, BlockIsFresh, DataAssumption DEF Stored
<1>7. \A b \in Block : OnChain(b) => OnChain(b)'
  BY DEF OnChain
<1>8. \A b \in Block : Indexed(transaction', b) => OnChain(b)'
  BY <1>1, <1>7, StoreBlockTables DEF LinearInv
<1>9. \A o \in OutPoint : HasRow(utxo, o) <=> Stored(transaction, Creator[o])
  BY DEF IInv, TablesInv, BlockAtomic, TablesAtomic
<1>10. ASSUME NEW o \in OutPoint, HasRow(utxo', o)
       PROVE  utxo'[o].block = transaction'[Creator[o]]
  <2>1. /\ utxo'[o].block = IF o \in work.new THEN blockHash ELSE utxo[o].block
        /\ HasRow(utxo, o) \/ o \in work.new
    BY <1>1, <1>2, <1>4, <1>10, StoredBlock
  <2>2. CASE o \in work.new
    BY <1>5, <1>6, <2>1, <2>2
  <2>3. CASE o \notin work.new
    <3>1. HasRow(utxo, o) /\ utxo'[o].block = transaction[Creator[o]] /\ Creator[o] \in Tx
      BY <2>1, <2>3, DataAssumption DEF LinearInv
    <3> QED BY <1>6, <1>9, <3>1
  <2> QED BY <2>2, <2>3
<1>11. ASSUME NEW t \in Tx, NEW o \in Vin[t],
              Stored(transaction', t), Stored(transaction', Creator[o]),
              HeightOf[transaction'[Creator[o]]] < HeightOf[transaction'[t]]
       PROVE  utxo'[o].status = "spent"
  <2>1. o \in OutPoint /\ Creator[o] \in Tx
    BY DataAssumption
  <2>2. utxo'[o].status = IF o \in InputsOf(blockHash) /\ utxo[o].status \in Spendable THEN "spent"
                          ELSE IF Creator[o] \in TxsOf[blockHash] THEN "confirmed" ELSE utxo[o].status
    BY <1>1, <1>2, <1>4, <2>1, StoredStatus
  <2>3. HeightOf[transaction'[t]] <= height
    <3>1. CASE Stored(transaction, t)
      <4>1. transaction'[t] = transaction[t] /\ transaction[t] \in Block
        BY <1>2, <1>6, <3>1 DEF Stored
      <4>2. Indexed(transaction, transaction[t])
        BY <3>1 DEF IInv, TablesInv, BlockAtomic, TablesAtomic
      <4>3. HeightOf[transaction[t]] < height /\ HeightOf[transaction[t]] \in Nat /\ height \in Nat
        BY <1>1, <4>1, <4>2, DataAssumption
      <4> QED BY <4>1, <4>3
    <3>2. CASE ~Stored(transaction, t)
      <4>1. transaction'[t] = blockHash
        BY <1>6, <1>11, <3>2
      <4> QED BY <1>1, <4>1, DataAssumption
    <3> QED BY <3>1, <3>2
  <2>4. Stored(transaction, Creator[o]) /\ Creator[o] \notin TxsOf[blockHash]
    <3>1. CASE Creator[o] \in TxsOf[blockHash]
      <4>1. HeightOf[transaction'[Creator[o]]] = height
        BY <1>1, <1>6, <3>1
      <4>2. transaction'[t] \in Block /\ HeightOf[transaction'[t]] \in Nat /\ height \in Nat
        <5>1. transaction' \in [Tx -> Block \cup {NoBlock}]
          BY StoreBlockTables
        <5> QED BY <1>1, <1>11, <5>1, DataAssumption DEF Stored
      <4> QED BY <1>11, <2>3, <4>1, <4>2
    <3>2. CASE Creator[o] \notin TxsOf[blockHash]
      BY <1>6, <1>11, <2>1, <3>2
    <3> QED BY <3>1, <3>2
  <2>5. CASE Stored(transaction, t)
    <3>1. utxo[o].status = "spent"
      BY <1>6, <1>11, <2>1, <2>4, <2>5 DEF LinearInv, EarlierOutputsSpent
    <3> QED BY <2>2, <2>4, <3>1
  <2>6. CASE ~Stored(transaction, t)
    <3>1. t \in TxsOf[blockHash]
      BY <1>6, <1>11, <2>6
    <3>2. o \in InputsOf(blockHash)
      BY <3>1 DEF InputsOf
    <3>3. utxo[o].status \in {"mempool", "confirmed", "spent"}
      BY <1>2, <1>9, <2>1, <2>4, OutputStatus DEF HasRow
    <3> QED BY <2>2, <2>4, <3>2, <3>3 DEF Spendable
  <2> QED BY <2>5, <2>6
<1> QED BY <1>8, <1>10, <1>11 DEF EarlierOutputsSpent

(* Every step keeps it: the node extends its chain, and what getblockhash   *)
(* returned stays on it.                                                    *)
LEMMA NextLinearInv == NeverReorganised /\ IInv /\ LinearInv /\ [Next]_vars => LinearInv'
<1> SUFFICES ASSUME NeverReorganised, IInv, LinearInv, [Next]_vars PROVE LinearInv'
  OBVIOUS
<1>1. active \in Chains /\ Len(active) \in Nat
  BY ChainsAssumption DEF IInv, TypeOK
<1>2. ASSUME NodeAdvances
      PROVE  LinearInv'
  <2>1. active' \in Chains /\ Len(active) < Len(active') /\ Len(active') \in Nat
    BY <1>2, ChainsAssumption DEF NodeAdvances
  <2>2. \A h \in 1..Len(active) : active'[h] = active[h] /\ h \in 1..Len(active')
    BY <1>1, <2>1 DEF NeverReorganised
  <2>3. UNCHANGED <<transaction, utxo, pc, blockHash>>
    BY <1>2 DEF NodeAdvances, database, locals
  <2>4. \A b : OnChain(b) => OnChain(b)'
    BY <2>2 DEF OnChain
  <2> QED BY <2>3, <2>4 DEF LinearInv, EarlierOutputsSpent, Indexed, HasRow, Stored
<1>3. ASSUME UNCHANGED <<active, transaction, utxo>>,
             pc' \in {"reorg", "block", "commit"} =>
                pc \in {"reorg", "block", "commit"} /\ blockHash' = blockHash
      PROVE  LinearInv'
  BY <1>3 DEF LinearInv, EarlierOutputsSpent, Indexed, HasRow, Stored, OnChain
<1>4. CASE CommitBlock \/ CommitUnacknowledged
  <2>1. pc = "commit" /\ StoreBlock /\ UNCHANGED active
    BY <1>4 DEF CommitBlock, CommitUnacknowledged
  <2>2. pc' \notin {"reorg", "block", "commit"}
    BY <1>4 DEF CommitBlock, CommitUnacknowledged, NextHeight, ReturnTo
  <2> QED BY <2>1, <2>2, StoreKeepsLinear DEF LinearInv
<1>5. CASE GetBlockHash
  <2>1. UNCHANGED <<active, transaction, utxo>> /\ blockHash' = BlockAt(active, height)
    BY <1>5 DEF GetBlockHash, database
  <2>2. height \in 1..Len(active)
    BY <1>1, <1>5 DEF GetBlockHash, IInv, LocalsInv, Busy, PC, TypeOK
  <2>3. BlockAt(active, height) = active[height] /\ HeightOf[BlockAt(active, height)] = height
    BY <1>1, <2>2, BlockInHand DEF BlockAt
  <2>4. OnChain(blockHash)'
    BY <2>1, <2>2, <2>3 DEF OnChain
  <2> QED BY <2>1, <2>4 DEF LinearInv, EarlierOutputsSpent, Indexed, HasRow, Stored, OnChain
<1>6. CASE \/ ProcessBlocks \/ ProcessBlockChunk \/ CheckReorg \/ GetAndParseBlock \/ RejectBlock
           \/ Restart \/ ErrorReturn \/ Crash \/ UNCHANGED vars
           \/ (\E s \in Script : AddWatchedScript(s)) \/ CacheExpires
  <2>1. UNCHANGED <<active, transaction, utxo>>
    BY <1>6 DEF vars, database, ProcessBlocks, ProcessBlockChunk, CheckReorg, GetAndParseBlock,
                RejectBlock, Restart, ErrorReturn, Crash, AddWatchedScript, CacheExpires
  <2>2. pc' \in {"reorg", "block", "commit"} =>
           pc \in {"reorg", "block", "commit"} /\ blockHash' = blockHash
    BY <1>6 DEF vars, locals, ReturnTo, ProcessBlocks, ProcessBlockChunk, CheckReorg, GetAndParseBlock,
                RejectBlock, Restart, ErrorReturn, Crash, AddWatchedScript, CacheExpires
  <2> QED BY <1>3, <2>1, <2>2
<1> QED BY <1>2, <1>4, <1>5, <1>6 DEF Next, Poller

(* The empty tables satisfy it. *)
LEMMA InitLinearInv == Init => LinearInv
<1> SUFFICES ASSUME Init PROVE LinearInv
  OBVIOUS
<1>1. pc = "idle" /\ transaction = [t \in Tx |-> NoBlock] /\ utxo = [o \in OutPoint |-> NoRow]
  BY DEF Init, TablesEmpty
<1>2. \A b \in Block : ~Indexed(transaction, b)
  BY <1>1, DataAssumption DEF Indexed
<1>3. \A o \in OutPoint : ~HasRow(utxo, o)
  BY <1>1 DEF HasRow, NoRow
<1>4. EarlierOutputsSpent
  BY <1>1 DEF EarlierOutputsSpent, Stored
<1> QED BY <1>1, <1>2, <1>3, <1>4 DEF LinearInv

(* The invariant of a node that never reorganises. *)
THEOREM LinearInvariance == NeverReorganised /\ Spec => []LinearInv
<1>1. ASSUME NeverReorganised
      PROVE  Spec => []LinearInv
  <2>1. IInv /\ LinearInv /\ [Next]_vars => LinearInv'
    BY <1>1, NextLinearInv
  <2> QED BY Invariance, InitLinearInv, <2>1, PTL DEF Spec
<1> QED BY <1>1

(* Without reorganisations ParseBlockWithCache misses no input that an      *)
(* earlier block created: its row is marked spent in the transaction that   *)
(* stores the spender, whatever failed and whichever blocks were skipped.   *)
THEOREM EarlierSpendsMarked == NeverReorganised /\ Spec => []EarlierOutputsSpent
<1>1. LinearInv => EarlierOutputsSpent
  BY DEF LinearInv
<1> QED BY LinearInvariance, <1>1, PTL
=============================================================================
