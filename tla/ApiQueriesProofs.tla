-------------------------- MODULE ApiQueriesProofs --------------------------
(***************************************************************************)
(* The queries answer from several statements; that their answers make      *)
(* sense together follows from the invariant of the poller and from the     *)
(* progress never moving back.  That a balance is right up to a satoshi per *)
(* output is a fact about doubles (Amounts) and about sums over finite sets.*)
(***************************************************************************)
EXTENDS Balances, SequentialIndexerProofs, FiniteSetTheorems

(* A step of the poller changes the tables of rows only by storing a block, *)
(* and the progress only to the height in hand.                             *)
LEMMA PollerChanges ==
    ASSUME [Next]_vars
    PROVE  /\ \/ UNCHANGED <<transaction, utxo>>
              \/ pc = "commit" /\ StoreBlock
           /\ \/ UNCHANGED index_progress
              \/ pc \in {"reorg", "commit"} /\ index_progress'.height = height
           /\ active' = active \/ (NodeAdvances /\ UNCHANGED index_progress)
<1>1. CASE CommitBlock \/ CommitUnacknowledged
  <2>1. pc = "commit" /\ StoreBlock /\ active' = active
    BY <1>1 DEF CommitBlock, CommitUnacknowledged
  <2>2. index_progress'.height = height
    BY <2>1 DEF StoreBlock
  <2> QED BY <2>1, <2>2
<1>2. CASE CheckReorg
  BY <1>2 DEF CheckReorg
<1>3. CASE NodeAdvances
  BY <1>3 DEF NodeAdvances, database
<1>4. CASE \/ UNCHANGED vars \/ (\E s \in Script : AddWatchedScript(s)) \/ CacheExpires
           \/ ProcessBlocks \/ ProcessBlockChunk \/ GetBlockHash \/ GetAndParseBlock
           \/ RejectBlock \/ Restart \/ ErrorReturn \/ Crash
  BY <1>4 DEF vars, database, AddWatchedScript, CacheExpires, ProcessBlocks, ProcessBlockChunk,
              GetBlockHash, GetAndParseBlock, RejectBlock, Restart, ErrorReturn, Crash
<1> QED BY <1>1, <1>2, <1>3, <1>4 DEF Next, Poller

(* The poller keeps what the queries rely on, and its progress never falls. *)
LEMMA PollerKeeps ==
    ASSUME IInv, RowsHaveBlocks, TipReached, [Next]_vars
    PROVE  IInv' /\ RowsHaveBlocks' /\ TipReached'
           /\ index_progress.height <= index_progress'.height /\ Len(active) <= Len(active')
<1>1. IInv'
  BY NextIInv
<1>2. /\ active \in Chains /\ index_progress.height \in Nat /\ index_progress'.height \in Nat
      /\ active' \in Chains
  BY <1>1 DEF IInv, TypeOK, Progress
<1>3. Len(active) \in Nat /\ Len(active') \in Nat
  BY <1>2, ChainsAssumption
<1>4. Len(active) <= Len(active')
  BY <1>2, <1>3, PollerChanges DEF NodeAdvances
<1>5. pc \in {"reorg", "commit"} => index_progress.height <= height /\ height <= Len(active)
  <2>1. pc \in {"reorg", "commit"} =>
           /\ height \in 1..currentHeight /\ currentHeight <= Len(active)
           /\ height \in {index_progress.height, index_progress.height + 1}
    BY DEF IInv, LocalsInv, Busy, PC
  <2>2. currentHeight \in Nat
    BY DEF IInv, TypeOK
  <2> QED BY <1>2, <1>3, <2>1, <2>2
<1>6. TipReached' /\ index_progress.height <= index_progress'.height
  BY <1>2, <1>3, <1>4, <1>5, PollerChanges DEF TipReached
<1>7. RowsHaveBlocks'
  <2>1. CASE UNCHANGED <<transaction, utxo>>
    BY <2>1 DEF RowsHaveBlocks, HasRow, Indexed
  <2>2. CASE pc = "commit" /\ StoreBlock
    <3>1. \A a \in Block : Indexed(transaction', a) <=> Indexed(transaction, a) \/ a = blockHash
      BY <2>2, StoreBlockTables
    <3>2. blockHash \in Block /\ utxo \in [OutPoint -> Row]
      BY <2>2 DEF IInv, LocalsInv, TypeOK
    <3>3. ASSUME NEW o \in OutPoint, HasRow(utxo', o)
          PROVE  utxo'[o].block = blockHash \/ (utxo'[o].block = utxo[o].block /\ HasRow(utxo, o))
      BY <2>2, <3>2, <3>3, StoredBlock DEF StoreBlock
    <3> QED BY <3>1, <3>2, <3>3 DEF RowsHaveBlocks
  <2> QED BY <2>1, <2>2, PollerChanges
<1> QED BY <1>1, <1>4, <1>6, <1>7

(* The rows a query reads are no higher than the progress. *)
LEMMA RowsBelowProgress ==
    ASSUME IInv, RowsHaveBlocks, NEW o \in OutPoint, HasRow(utxo, o)
    PROVE  BlockHeight(utxo[o]) \in Nat /\ BlockHeight(utxo[o]) <= index_progress.height
BY DataAssumption DEF RowsHaveBlocks, IInv, ProgressIsTruthful, BlockHeight

(* A query keeps the invariant. *)
LEMMA QueryKeeps ==
    ASSUME ApiInv, ApiStep
    PROVE  ApiInv'
<1> USE DEF Request
<1>1. UNCHANGED vars
  BY DEF ApiStep, GetBalance, GetUTXOs, SumBalance, CalculateConfirmations, ConfirmationsUnread,
         GetTransactionHistory
<1>2. UNCHANGED <<active, transaction, utxo, index_progress>>
  BY <1>1 DEF vars, database
<1>3. IInv' /\ RowsHaveBlocks' /\ TipReached'
  BY <1>1, PollerKeeps DEF ApiInv
<1>4. /\ request \in Request
      /\ request.confirmed \subseteq request.rows /\ request.answered \subseteq request.rows
      /\ index_progress.height \in Nat
  BY DEF ApiInv, ApiTypeOK, IInv, TypeOK, Progress
<1>5. \A S \in SUBSET OutPoint : (\A o \in S : HasRow(utxo, o)) =>
         /\ HeightsOf(S) \in [OutPoint -> Nat]
         /\ \A o \in S : HeightsOf(S)[o] <= index_progress.height
                         /\ HeightsOf(S)[o] = BlockHeight(utxo[o])
  BY RowsBelowProgress DEF HeightsOf, ApiInv
<1>6. NoRequest \in Request
  BY DEF NoRequest
<1>7. CASE \E a \in Address : GetBalance(a)
  <2>1. PICK a \in Address : GetBalance(a)
    BY <1>7
  <2>2. request' = [NoRequest EXCEPT !.kind = "balance", !.address = {a}, !.tip = index_progress.height]
    BY <2>1 DEF GetBalance
  <2>3. request' \in Request /\ request'.rows = {} /\ request'.confirmed = {} /\ request'.answered = {}
        /\ request'.tip = index_progress.height
    BY <1>4, <1>6, <2>2 DEF NoRequest
  <2> QED BY <1>2, <1>3, <1>4, <2>3 DEF ApiInv, ApiTypeOK, AnswersInv, ConfirmationsPositive
<1>8. CASE \E a \in Address : GetUTXOs(a)
  <2>1. PICK a \in Address : GetUTXOs(a)
    BY <1>8
  <2>2. request' = [NoRequest EXCEPT !.kind = "utxos", !.address = {a}, !.done = (RowsOf(a) = {}),
                                     !.rows = RowsOf(a), !.heights = HeightsOf(RowsOf(a))]
    BY <2>1 DEF GetUTXOs
  <2>3. RowsOf(a) \in SUBSET OutPoint /\ \A o \in RowsOf(a) : HasRow(utxo, o)
    BY DEF RowsOf
  <2>4. /\ request' \in Request /\ request'.rows = RowsOf(a) /\ request'.heights = HeightsOf(RowsOf(a))
        /\ request'.confirmed = {} /\ request'.answered = {} /\ request'.tip = 0
    BY <1>5, <1>6, <2>2, <2>3 DEF NoRequest
  <2> QED BY <1>2, <1>3, <1>4, <1>5, <2>3, <2>4
          DEF ApiInv, ApiTypeOK, AnswersInv, ConfirmationsPositive
<1>9. CASE SumBalance
  <2>1. PICK a \in request.address :
           request' = [request EXCEPT !.done = TRUE,
                         !.rows = UnspentOf(a), !.heights = HeightsOf(UnspentOf(a)),
                         !.confirmed = {o \in UnspentOf(a) : /\ utxo[o].status = "confirmed"
                                                             /\ BlockHeight(utxo[o]) <= ConfirmedUpTo}]
    BY <1>9 DEF SumBalance
  <2>2. UnspentOf(a) \in SUBSET OutPoint /\ \A o \in UnspentOf(a) : HasRow(utxo, o)
    BY DEF UnspentOf, RowsOf
  <2>3. /\ request' \in Request /\ request'.tip = request.tip
        /\ request'.rows = UnspentOf(a) /\ request'.heights = HeightsOf(UnspentOf(a))
        /\ request'.confirmed = {o \in UnspentOf(a) : /\ utxo[o].status = "confirmed"
                                                      /\ BlockHeight(utxo[o]) <= ConfirmedUpTo}
        /\ request'.answered = request.answered /\ request'.unread = request.unread
        /\ request'.confirmations = request.confirmations
    BY <1>4, <1>5, <2>1, <2>2
  <2>4. request.answered = {} /\ request.kind = "balance" /\ request'.kind = request.kind
    BY <1>4, <1>9, <2>1 DEF SumBalance, ApiInv, AnswersInv
  <2>5. ConfirmedUpTo' = ConfirmedUpTo
    BY <2>3 DEF ConfirmedUpTo
  <2>6. ApiTypeOK' /\ ConfirmationsPositive'
    BY <2>3, <2>4 DEF ApiTypeOK, ConfirmationsPositive
  <2>7. AnswersInv'
    BY <1>2, <1>5, <2>2, <2>3, <2>4, <2>5 DEF AnswersInv, ApiInv
  <2> QED BY <1>3, <2>6, <2>7 DEF ApiInv
<1>10. CASE \E o \in OutPoint : CalculateConfirmations(o) \/ ConfirmationsUnread(o)
  <2>1. PICK o \in OutPoint, n \in Int, failed \in SUBSET OutPoint :
           /\ Answer(o, n, failed) /\ failed \subseteq {o}
           /\ failed = {} => n = index_progress.height - request.heights[o] + 1
    <3>1. PICK o \in OutPoint : CalculateConfirmations(o) \/ ConfirmationsUnread(o)
      BY <1>10
    <3>2. request.heights[o] \in Nat
      BY <1>4
    <3>3. CASE CalculateConfirmations(o)
      <4>1. PICK n \in Int : n = index_progress.height - request.heights[o] + 1
        BY <1>4, <3>2
      <4>2. Answer(o, n, {})
        BY <3>3, <4>1 DEF CalculateConfirmations
      <4> WITNESS o \in OutPoint, n \in Int, {} \in SUBSET OutPoint
      <4> QED BY <4>1, <4>2
    <3>4. CASE ConfirmationsUnread(o)
      <4>1. Answer(o, 0, {o}) /\ {o} # {} /\ 0 \in Int
        BY <3>4 DEF ConfirmationsUnread
      <4> QED BY <4>1, Zenon
    <3> QED BY <3>1, <3>3, <3>4
  <2>2. /\ o \in request.rows /\ request.kind = "utxos"
        /\ request' = [request EXCEPT
                         !.answered = @ \cup {o}, !.confirmations[o] = n, !.unread = @ \cup failed,
                         !.done = (request.rows \subseteq request.answered \cup {o})]
    BY <2>1 DEF Answer
  <2>3. /\ request' \in Request /\ request'.tip = request.tip
        /\ request'.rows = request.rows /\ request'.heights = request.heights
        /\ request'.confirmed = request.confirmed /\ request'.kind = request.kind
        /\ request'.answered = request.answered \cup {o} /\ request'.unread = request.unread \cup failed
        /\ request'.confirmations = [request.confirmations EXCEPT ![o] = n]
    BY <1>4, <2>1, <2>2
  <2>4. failed = {} => n >= 1
    <3>1. request.heights[o] <= index_progress.height /\ request.heights[o] \in Nat
      BY <1>4, <2>2 DEF ApiInv, AnswersInv
    <3> QED BY <1>4, <2>1, <3>1
  <2>5. ConfirmationsPositive'
    <3>1. ASSUME NEW p \in request'.answered \ request'.unread
          PROVE  request'.confirmations[p] >= 1
      <4>1. CASE p = o
        <5>1. failed = {}
          BY <2>1, <2>3, <3>1, <4>1
        <5> QED BY <1>4, <2>3, <2>4, <4>1, <5>1
      <4>2. CASE p # o
        BY <1>4, <2>3, <3>1, <4>2 DEF ApiInv, ConfirmationsPositive
      <4> QED BY <4>1, <4>2
    <3> QED BY <3>1 DEF ConfirmationsPositive
  <2>6. ApiTypeOK'
    <3> HIDE DEF Request
    <3>1. request' \in Request /\ request'.confirmed \subseteq request'.rows
      BY <1>4, <2>3
    <3>2. request'.answered \subseteq request'.rows
      BY <1>4, <2>2, <2>3
    <3> QED BY <3>1, <3>2 DEF ApiTypeOK
  <2>7. AnswersInv'
    <3>1. ConfirmedUpTo' = ConfirmedUpTo
      BY <2>3 DEF ConfirmedUpTo
    <3> QED BY <1>2, <2>2, <2>3, <3>1 DEF ApiInv, AnswersInv
  <2> QED BY <1>3, <2>5, <2>6, <2>7 DEF ApiInv
<1>11. CASE \E a \in Address, n \in HistoryLimits : GetTransactionHistory(a, n)
  <2>1. PICK a \in Address, n \in HistoryLimits : GetTransactionHistory(a, n)
    BY <1>11
  <2>2. PICK H \in GetTransactionReferences(a, n) :
           request' = [NoRequest EXCEPT !.kind = "history", !.done = TRUE, !.address = {a},
                         !.rows = IF request.kind = "utxos" /\ request.address = {a}
                                  THEN request.rows ELSE {},
                         !.heights = request.heights, !.limit = n, !.history = H]
    BY <2>1 DEF GetTransactionHistory
  <2>3. PICK R \in SUBSET OutPoint :
           R = (IF request.kind = "utxos" /\ request.address = {a} THEN request.rows ELSE {})
    BY <1>4
  <2>4. H \in SUBSET RefKey /\ n \in Nat
    <3>1. H \subseteq tx_reference
      BY <2>2 DEF GetTransactionReferences, ReferencesOf
    <3>2. tx_reference \subseteq RefKey
      BY DEF ApiInv, IInv, TypeOK
    <3> QED BY <3>1, <3>2, ApiAssumption
  <2>5. request' = [NoRequest EXCEPT !.kind = "history", !.done = TRUE, !.address = {a},
                      !.rows = R, !.heights = request.heights, !.limit = n, !.history = H]
    BY <2>2, <2>3
  <2>6. /\ request' \in Request /\ request'.rows = R /\ request'.heights = request.heights
        /\ request'.confirmed = {} /\ request'.answered = {} /\ request'.tip = 0
    BY <1>4, <1>6, <2>4, <2>5 DEF NoRequest
  <2>7. ApiTypeOK' /\ ConfirmationsPositive'
    BY <2>6 DEF ApiTypeOK, ConfirmationsPositive
  <2>8. AnswersInv'
    BY <1>2, <1>4, <2>3, <2>6 DEF ApiInv, AnswersInv
  <2> QED BY <1>3, <2>7, <2>8 DEF ApiInv
<1> QED BY <1>7, <1>8, <1>9, <1>10, <1>11 DEF ApiStep

(* Init satisfies the invariant. *)
LEMMA InitApiInv == ApiInit => ApiInv
<1> SUFFICES ASSUME ApiInit PROVE ApiInv
  OBVIOUS
<1>1. IInv
  BY InitIInv DEF ApiInit
<1>2. active = << >> /\ index_progress.height = 0 /\ \A o \in OutPoint : ~HasRow(utxo, o)
  BY DEF ApiInit, Init, TablesEmpty, HasRow, NoRow
<1>3. RowsHaveBlocks /\ TipReached
  BY <1>2 DEF RowsHaveBlocks, TipReached
<1>4. request = NoRequest
  BY DEF ApiInit
<1>5. ApiTypeOK /\ AnswersInv /\ ConfirmationsPositive
  BY <1>2, <1>4 DEF ApiTypeOK, AnswersInv, ConfirmationsPositive, NoRequest, Request
<1> QED BY <1>1, <1>3, <1>5 DEF ApiInv

(* Every step of the poller or of a query keeps it. *)
LEMMA NextApiInv == ApiInv /\ [ApiNext]_apiVars => ApiInv'
<1> SUFFICES ASSUME ApiInv, [ApiNext]_apiVars PROVE ApiInv'
  OBVIOUS
<1>1. CASE ApiStep
  BY <1>1, QueryKeeps
<1>2. CASE [Next]_vars /\ UNCHANGED request
  <2>1. IInv' /\ RowsHaveBlocks' /\ TipReached' /\ index_progress.height <= index_progress'.height
    BY <1>2, PollerKeeps DEF ApiInv
  <2>2. index_progress.height \in Nat /\ index_progress'.height \in Nat
    BY <2>1 DEF ApiInv, IInv, TypeOK, Progress
  <2>3. request.tip \in Nat /\ request.heights \in [OutPoint -> Nat] /\ request.rows \subseteq OutPoint
    BY DEF ApiInv, ApiTypeOK, Request
  <2>4. ApiTypeOK' /\ ConfirmationsPositive' /\ ConfirmedUpTo' = ConfirmedUpTo
    BY <1>2 DEF ApiInv, ApiTypeOK, ConfirmationsPositive, ConfirmedUpTo
  <2>5. AnswersInv'
    BY <1>2, <2>1, <2>2, <2>3, <2>4 DEF ApiInv, AnswersInv
  <2> QED BY <2>1, <2>4, <2>5 DEF ApiInv
<1> QED BY <1>1, <1>2 DEF ApiNext, PollerStep, apiVars

(* The invariant of the poller and the queries together. *)
THEOREM ApiInvariance == ApiSpec => []ApiInv
BY InitApiInv, NextApiInv, PTL DEF ApiSpec

(* GET /utxos never reports less than one confirmation for a row it could   *)
(* compute, although rows and progress are read by different statements.    *)
THEOREM UTXOsConfirmed == ApiSpec => []ConfirmationsPositive
<1>1. ApiInv => ConfirmationsPositive
  BY DEF ApiInv
<1> QED BY ApiInvariance, <1>1, PTL

(* GET /balance calls confirmed only what is ConfirmationsRequired blocks   *)
(* deep on the node.                                                        *)
THEOREM BalanceConfirmed == ApiSpec => []ConfirmedIsDeep
<1>1. ASSUME ApiInv PROVE ConfirmedIsDeep
  <2>1. request.tip \in Nat /\ index_progress.height \in Nat /\ active \in Chains
    BY <1>1 DEF ApiInv, ApiTypeOK, Request, IInv, TypeOK, Progress
  <2>2. Len(active) \in Nat
    BY <2>1, ChainsAssumption
  <2>3. request.tip <= index_progress.height /\ index_progress.height <= Len(active)
    BY <1>1 DEF ApiInv, AnswersInv, TipReached
  <2>4. ASSUME NEW o \in request.confirmed
        PROVE  Len(active) - request.heights[o] + 1 >= ConfirmationsRequired
    <3>1. request.heights[o] \in Nat /\ request.heights[o] <= request.tip - ConfirmationsRequired + 1
      BY <1>1, <2>4 DEF ApiInv, ApiTypeOK, Request, AnswersInv, ConfirmedUpTo
    <3> QED BY <2>1, <2>2, <2>3, <3>1, ApiAssumption
  <2> QED BY <2>4 DEF ConfirmedIsDeep
<1> QED BY ApiInvariance, <1>1, PTL
-----------------------------------------------------------------------------
(* Balances on a chain that is never reorganised *)

(* Next to the queries the poller takes its own steps. *)
LEMMA PollerOfApi == [ApiNext]_apiVars => [Next]_vars
BY DEF ApiNext, ApiStep, PollerStep, apiVars, GetBalance, GetUTXOs, SumBalance,
       CalculateConfirmations, ConfirmationsUnread, GetTransactionHistory

(* The SUM statement sees the tables of one moment, in which an output and  *)
(* the later output paid out of it are not both unspent.                    *)
LEMMA NextNoDoubleCount ==
    ASSUME ApiInv, LinearInv, NoDoubleCount, [ApiNext]_apiVars
    PROVE  NoDoubleCount'
<1>1. CASE UNCHANGED request
  BY <1>1 DEF NoDoubleCount
<1>2. CASE \E a \in Address : GetBalance(a)
  <2>1. request'.rows = {}
    BY <1>2 DEF GetBalance, NoRequest
  <2> QED BY <2>1 DEF NoDoubleCount
<1>3. CASE SumBalance
  <2>1. request \in Request
    BY DEF ApiInv, ApiTypeOK
  <2>2. PICK a : request'.rows = UnspentOf(a) /\ request'.heights = HeightsOf(UnspentOf(a))
    BY <1>3, <2>1 DEF SumBalance, Request
  <2>3. SUFFICES ASSUME NEW o \in UnspentOf(a), NEW p \in UnspentOf(a), o \in Vin[Creator[p]],
                        HeightsOf(UnspentOf(a))[o] < HeightsOf(UnspentOf(a))[p]
                 PROVE  FALSE
    BY <2>2 DEF NoDoubleCount
  <2>4. /\ o \in OutPoint /\ p \in OutPoint /\ HasRow(utxo, o) /\ HasRow(utxo, p)
        /\ utxo[o].status \in {"mempool", "confirmed"}
    BY DEF UnspentOf, RowsOf
  <2>5. HeightOf[utxo[o].block] < HeightOf[utxo[p].block]
    BY <2>3, <2>4 DEF HeightsOf, BlockHeight
  <2>6. utxo[o].block = transaction[Creator[o]] /\ utxo[p].block = transaction[Creator[p]]
    BY <2>4 DEF LinearInv
  <2>7. /\ Creator[p] \in Tx
        /\ Stored(transaction, Creator[o]) /\ Stored(transaction, Creator[p])
    BY <2>4, DataAssumption DEF ApiInv, IInv, TablesInv, BlockAtomic, TablesAtomic
  <2>8. utxo[o].status = "spent"
    BY <2>3, <2>5, <2>6, <2>7 DEF LinearInv, EarlierOutputsSpent
  <2> QED BY <2>4, <2>8
<1>4. CASE \E a \in Address : GetUTXOs(a) \/ \E n \in HistoryLimits : GetTransactionHistory(a, n)
  <2>1. request'.kind # "balance"
    BY <1>4 DEF GetUTXOs, GetTransactionHistory, NoRequest
  <2> QED BY <2>1 DEF NoDoubleCount
<1>5. CASE \E o \in OutPoint : CalculateConfirmations(o) \/ ConfirmationsUnread(o)
  <2>1. request.kind = "utxos" /\ request \in Request
    BY <1>5 DEF CalculateConfirmations, ConfirmationsUnread, Answer, ApiInv, ApiTypeOK
  <2>2. request'.kind = request.kind
    BY <1>5, <2>1 DEF CalculateConfirmations, ConfirmationsUnread, Answer, Request
  <2> QED BY <2>1, <2>2 DEF NoDoubleCount
<1> QED BY <1>1, <1>2, <1>3, <1>4, <1>5 DEF ApiNext, ApiStep, PollerStep, apiVars

(* On a chain without reorganisations GET /balance adds up no money twice:  *)
(* never an output together with what a later block paid out of it.         *)
THEOREM NothingCountedTwice == NeverReorganised /\ ApiSpec => []NoDoubleCount
<1>1. ASSUME NeverReorganised
      PROVE  ApiSpec => []NoDoubleCount
  <2>1. ApiInit => LinearInv /\ NoDoubleCount
    BY InitLinearInv DEF ApiInit, NoDoubleCount, NoRequest
  <2>2. ApiInv /\ LinearInv /\ NoDoubleCount /\ [ApiNext]_apiVars => (LinearInv /\ NoDoubleCount)'
    BY <1>1, PollerOfApi, NextLinearInv, NextNoDoubleCount DEF ApiInv
  <2> QED BY ApiInvariance, <2>1, <2>2, PTL DEF ApiSpec
<1> QED BY <1>1
-----------------------------------------------------------------------------
(* The history *)

(* What a request has read is still in the tables, and there are finitely   *)
(* many references, so that a limit above their number returns them all.    *)
HistoryInv ==
    /\ IsFiniteSet(tx_reference)
    /\ request.kind \in {"utxos", "history"} =>
          \A o \in request.rows : HasRow(utxo, o) /\ AddressOf[ScriptOf[o]] \in request.address
    /\ request.history \subseteq tx_reference
    /\ HistoryCoversRows

(* The values of a function on a finite set are finitely many. *)
LEMMA FiniteImage ==
    ASSUME NEW S, IsFiniteSet(S), NEW f
    PROVE  IsFiniteSet({f[x] : x \in S})
<1> DEFINE T == {f[x] : x \in S}
           g == [x \in S |-> f[x]]
<1>1. g \in Surjection(S, T)
  BY DEF Surjection
<1> HIDE DEF T, g
<1>2. IsFiniteSet(T)
  BY <1>1, FS_Surjection
<1> QED BY <1>2 DEF T

(* A block has finitely many references. *)
LEMMA FiniteReferences ==
    ASSUME NEW b \in Block, NEW u \in [OutPoint -> Row], NEW W \in SUBSET Script
    PROVE  IsFiniteSet({r.key : r \in ParseBlockWithCache(b, u, W).refs})
<1> DEFINE k == ParseBlockWithCache(b, u, W)
           ends == [t \in Tx |-> OutputsOf(t) \cup Vin[t]]
           E == {ends[t] : t \in TxsOf[b]}
           O == UNION E
           D == (TxsOf[b] \X O) \X Direction
           key == [p \in D |-> <<p[1][1], AddressOf[ScriptOf[p[1][2]]], p[2]>>]
           keys == {key[p] : p \in D}
<1>1. IsFiniteSet(TxsOf[b]) /\ TxsOf[b] \subseteq Tx
  BY FinitenessAssumption, DataAssumption
<1>2. \A t \in TxsOf[b] : IsFiniteSet(ends[t])
  BY <1>1, FinitenessAssumption, FS_Union
<1>3. IsFiniteSet(E)
  <2> HIDE DEF ends
  <2> QED BY <1>1, FiniteImage
<1>4. \A T \in E : IsFiniteSet(T)
  BY <1>2
<1>5. IsFiniteSet(O)
  <2> HIDE DEF E
  <2> QED BY <1>3, <1>4, FS_UNION
<1>6. IsFiniteSet(Direction)
  <2>1. Direction = ({} \cup {"in"}) \cup {"out"}
    BY DEF Direction
  <2> QED BY <2>1, FS_EmptySet, FS_AddElement
<1>7. IsFiniteSet(D)
  <2> HIDE DEF O
  <2> QED BY <1>1, <1>5, <1>6, FS_Product
<1>8. IsFiniteSet(keys)
  <2> HIDE DEF D, key
  <2> QED BY <1>7, FiniteImage
<1>9. ASSUME NEW r \in k.refs
      PROVE  r.key \in keys
  <2>1. PICK t \in TxsOf[b] : r \in RefsOfTx(t, BatchGetUTXOs(u, InputsOf(b)), W)
    BY <1>9 DEF ParseBlockWithCache
  <2>2. PICK o \in OutputsOf(t) \cup Vin[t], d \in Direction :
           r.key = <<t, AddressOf[ScriptOf[o]], d>>
    BY <2>1 DEF RefsOfTx, Direction
  <2>3. o \in O
    BY <1>1, <2>2
  <2>4. <<<<t, o>>, d>> \in D /\ key[<<<<t, o>>, d>>] = r.key
    <3> HIDE DEF O
    <3> QED BY <2>2, <2>3
  <2> HIDE DEF D, key
  <2> QED BY <2>4
<1>10. {r.key : r \in k.refs} \in SUBSET keys
  BY <1>9
<1> HIDE DEF keys, k
<1> QED BY <1>8, <1>10, FS_Subset DEF k

(* The poller removes neither rows nor references, and adds finitely many.  *)
LEMMA PollerAdds ==
    ASSUME IInv, [Next]_vars, IsFiniteSet(tx_reference)
    PROVE  /\ tx_reference \subseteq tx_reference' /\ IsFiniteSet(tx_reference')
           /\ \A o \in OutPoint : HasRow(utxo, o) => HasRow(utxo', o)
<1>1. CASE UNCHANGED <<utxo, tx_reference>>
  BY <1>1 DEF HasRow
<1>2. CASE pc = "commit" /\ StoreBlock
  <2>1. /\ blockHash \in Block /\ utxo \in [OutPoint -> Row] /\ watchedScriptMap \in SUBSET Script
        /\ work = ParseBlockWithCache(blockHash, utxo, watchedScriptMap)
    BY <1>2 DEF IInv, LocalsInv, TypeOK
  <2>2. work.new \in SUBSET OutPoint /\ work.spent \in SUBSET InputsOf(blockHash)
    BY <2>1, ParseResult
  <2>3. \A o \in OutPoint : HasRow(utxo, o) => HasRow(utxo', o)
    BY <1>2, <2>1, <2>2, StoreOutputs DEF StoreBlock
  <2>4. IsFiniteSet({r.key : r \in work.refs})
    BY <2>1, FiniteReferences
  <2>5. tx_reference' = tx_reference \cup {r.key : r \in work.refs}
    BY <1>2 DEF StoreBlock
  <2> QED BY <2>3, <2>4, <2>5, FS_Union
<1>3. UNCHANGED <<utxo, tx_reference>> \/ (pc = "commit" /\ StoreBlock)
  BY DEF Next, Poller, vars, database, NodeAdvances, AddWatchedScript, CacheExpires,
         ProcessBlocks, ProcessBlockChunk, GetBlockHash, CheckReorg, GetAndParseBlock, RejectBlock,
         Restart, ErrorReturn, Crash, CommitBlock, CommitUnacknowledged
<1> QED BY <1>1, <1>2, <1>3

(* The statement of the history returns a reference, or as many newer ones  *)
(* as were asked for.                                                       *)
LEMMA HistoryComplete ==
    ASSUME IsFiniteSet(tx_reference), NEW a, NEW n \in Nat, NEW k \in ReferencesOf(a),
           NEW H \in GetTransactionReferences(a, n)
    PROVE  \/ k \in H
           \/ Cardinality(H) = n /\ \A l \in H : created_at[l] >= created_at[k]
<1> SUFFICES ASSUME k \notin H
             PROVE  Cardinality(H) = n /\ \A l \in H : created_at[l] >= created_at[k]
  OBVIOUS
<1>1. /\ H \in SUBSET ReferencesOf(a)
      /\ Cardinality(H) = Lower(n, Cardinality(ReferencesOf(a)))
      /\ \A l \in H, m \in ReferencesOf(a) \ H : created_at[l] >= created_at[m]
  BY DEF GetTransactionReferences
<1>2. IsFiniteSet(ReferencesOf(a))
  <2>1. ReferencesOf(a) \in SUBSET tx_reference
    BY DEF ReferencesOf
  <2> QED BY <2>1, FS_Subset
<1>3. Cardinality(H) # Cardinality(ReferencesOf(a))
  BY <1>1, <1>2, FS_Subset
<1>4. Cardinality(H) = n
  BY <1>1, <1>3 DEF Lower
<1> QED BY <1>1, <1>4

(* The reference of a payment to a script watched from the start. *)
Shown(o) == <<Creator[o], AddressOf[ScriptOf[o]], "in">>

(* It is in the table when the output is. *)
LEMMA ShownReferenced ==
    ASSUME IInv, NEW o \in OutPoint, HasRow(utxo, o), ScriptOf[o] \in InitialScripts
    PROVE  Shown(o) \in tx_reference
BY DEF IInv, TablesInv, InitialScriptsFollowed, Shown

(* A poller's step: references keep their created_at, and none disappears.  *)
LEMMA PollerKeepsHistory ==
    ASSUME ApiInv, HistoryInv, PollerStep
    PROVE  HistoryInv'
<1>1. /\ tx_reference \subseteq tx_reference' /\ IsFiniteSet(tx_reference')
      /\ \A o \in OutPoint : HasRow(utxo, o) => HasRow(utxo', o)
  BY PollerAdds DEF PollerStep, ApiInv, HistoryInv
<1>2. request' = request
  BY DEF PollerStep
<1>3. \A k \in tx_reference : created_at'[k] = created_at[k]
  BY DEF PollerStep, ApiInv, IInv, TypeOK
<1>4. request.rows \subseteq OutPoint /\ request.history \subseteq tx_reference
  BY DEF ApiInv, ApiTypeOK, Request, HistoryInv
<1>5. ASSUME request.kind = "history", NEW o \in request.rows, ScriptOf[o] \in InitialScripts
      PROVE  \/ Shown(o) \in request.history
             \/ /\ Cardinality(request.history) = request.limit
                /\ \A k \in request.history : created_at'[k] >= created_at'[Shown(o)]
  <2>1. o \in OutPoint /\ HasRow(utxo, o)
    BY <1>4, <1>5 DEF HistoryInv
  <2>2. Shown(o) \in tx_reference
    BY <1>5, <2>1, ShownReferenced DEF ApiInv
  <2>3. \/ Shown(o) \in request.history
        \/ /\ Cardinality(request.history) = request.limit
           /\ \A k \in request.history : created_at[k] >= created_at[Shown(o)]
    BY <1>5 DEF HistoryInv, HistoryCoversRows, Shown
  <2> QED BY <1>3, <1>4, <2>2, <2>3
<1>6. HistoryCoversRows'
  BY <1>2, <1>5 DEF HistoryCoversRows, Shown
<1> QED BY <1>1, <1>2, <1>4, <1>6 DEF HistoryInv

(* A query: the history follows a GET /utxos or shows no rows at all. *)
LEMMA QueryKeepsHistory ==
    ASSUME ApiInv, HistoryInv, ApiStep, UNCHANGED created_at
    PROVE  HistoryInv'
<1>1. UNCHANGED <<utxo, tx_reference>>
  BY DEF ApiStep, GetBalance, GetUTXOs, SumBalance, CalculateConfirmations, ConfirmationsUnread,
         GetTransactionHistory, vars, database
<1>2. request \in Request /\ IsFiniteSet(tx_reference)
  BY DEF ApiInv, ApiTypeOK, HistoryInv
<1>3. CASE (\E a \in Address : GetBalance(a)) \/ SumBalance
  <2>1. request'.kind = "balance" /\ request'.history \subseteq tx_reference
    <3>1. CASE \E a \in Address : GetBalance(a)
      BY <3>1 DEF GetBalance, NoRequest
    <3>2. CASE SumBalance
      <4>1. request.kind = "balance" /\ request'.kind = request.kind /\ request'.history = request.history
        BY <1>2, <3>2 DEF SumBalance, Request
      <4> QED BY <4>1 DEF HistoryInv
    <3> QED BY <1>3, <3>1, <3>2
  <2> QED BY <1>1, <1>2, <2>1 DEF HistoryInv, HistoryCoversRows
<1>4. CASE \E a \in Address : GetUTXOs(a)
  <2>1. PICK a \in Address : GetUTXOs(a)
    BY <1>4
  <2>2. /\ request'.kind = "utxos" /\ request'.rows = RowsOf(a) /\ request'.address = {a}
        /\ request'.history = {}
    BY <2>1 DEF GetUTXOs, NoRequest
  <2>3. \A o \in RowsOf(a) : HasRow(utxo, o) /\ AddressOf[ScriptOf[o]] \in {a}
    BY DEF RowsOf
  <2>4. \A o \in request'.rows : HasRow(utxo', o) /\ AddressOf[ScriptOf[o]] \in request'.address
    BY <1>1, <2>2, <2>3
  <2> QED BY <1>1, <1>2, <2>2, <2>4 DEF HistoryInv, HistoryCoversRows
<1>5. CASE \E o \in OutPoint : CalculateConfirmations(o) \/ ConfirmationsUnread(o)
  <2>1. /\ request'.kind = request.kind /\ request'.rows = request.rows /\ request.kind = "utxos"
        /\ request'.address = request.address /\ request'.history = request.history
    BY <1>2, <1>5 DEF CalculateConfirmations, ConfirmationsUnread, Answer, Request
  <2> QED BY <1>1, <2>1 DEF HistoryInv, HistoryCoversRows
<1>6. CASE \E a \in Address, n \in HistoryLimits : GetTransactionHistory(a, n)
  <2>1. PICK a \in Address, n \in HistoryLimits : GetTransactionHistory(a, n)
    BY <1>6
  <2>2. PICK H \in GetTransactionReferences(a, n) :
           /\ request'.kind = "history" /\ request'.address = {a}
           /\ request'.rows = IF request.kind = "utxos" /\ request.address = {a}
                              THEN request.rows ELSE {}
           /\ request'.limit = n /\ request'.history = H
    BY <2>1 DEF GetTransactionHistory, NoRequest
  <2>3. ASSUME NEW o \in request'.rows
        PROVE  o \in OutPoint /\ HasRow(utxo, o) /\ AddressOf[ScriptOf[o]] = a
    <3>1. request.kind = "utxos" /\ request.address = {a} /\ o \in request.rows
      BY <2>2, <2>3
    <3> QED BY <1>2, <3>1 DEF HistoryInv, Request
  <2>4. H \subseteq tx_reference /\ n \in Nat
    BY ApiAssumption DEF GetTransactionReferences, ReferencesOf
  <2>5. ASSUME NEW o \in request'.rows, ScriptOf[o] \in InitialScripts
        PROVE  Shown(o) \in H \/ (Cardinality(H) = n /\ \A l \in H : created_at[l] >= created_at[Shown(o)])
    <3>1. Shown(o) \in tx_reference
      BY <2>3, <2>5, ShownReferenced DEF ApiInv
    <3>2. Shown(o) \in ReferencesOf(a)
      BY <2>3, <2>5, <3>1 DEF ReferencesOf, Shown
    <3> QED BY <1>2, <2>4, <3>2, HistoryComplete
  <2>6. HistoryCoversRows'
    BY <2>2, <2>5 DEF HistoryCoversRows, Shown
  <2> QED BY <1>1, <1>2, <2>2, <2>3, <2>4, <2>6 DEF HistoryInv
<1> QED BY <1>3, <1>4, <1>5, <1>6 DEF ApiStep

(* Every output of a script watched from the start that GET /utxos showed   *)
(* is in the history asked for next, or has been crowded out by references  *)
(* that are no older; reorganisations, failures and crashes included.       *)
THEOREM HistoryCovers == ApiSpec => []HistoryCoversRows
<1>1. ApiInit => HistoryInv
  <2> SUFFICES ASSUME ApiInit PROVE HistoryInv
    OBVIOUS
  <2>1. tx_reference = {} /\ request.kind = "none" /\ request.history = {}
    BY DEF ApiInit, Init, TablesEmpty, NoRequest
  <2> QED BY <2>1, FS_EmptySet DEF HistoryInv, HistoryCoversRows
<1>2. ApiInv /\ HistoryInv /\ [ApiNext]_apiVars => HistoryInv'
  <2> SUFFICES ASSUME ApiInv, HistoryInv, [ApiNext]_apiVars PROVE HistoryInv'
    OBVIOUS
  <2>1. CASE UNCHANGED apiVars
    BY <2>1 DEF apiVars, vars, database, HistoryInv, HistoryCoversRows, HasRow
  <2> QED BY <2>1, PollerKeepsHistory, QueryKeepsHistory DEF ApiNext
<1>3. HistoryInv => HistoryCoversRows
  BY DEF HistoryInv
<1> QED BY ApiInvariance, <1>1, <1>2, <1>3, PTL DEF ApiSpec

-----------------------------------------------------------------------------
(* The amounts: what the doubles of parser.go lose of a value. *)

(* A set that holds 0 and with every number the next one holds all of them. *)
LEMMA SetInduction ==
    ASSUME NEW S \in SUBSET Nat, 0 \in S, \A i \in S : i + 1 \in S
    PROVE  S = Nat
<1> SUFFICES ASSUME Nat \ S # {}
             PROVE  FALSE
  OBVIOUS
<1>1. PICK k \in Nat \ S : \A j \in Nat \ S : k <= j
  BY LeastNatural
<1>2. k - 1 \in S
  BY <1>1
<1> QED BY <1>1, <1>2

(* The powers of two are the natural numbers that doubling 1 yields. *)
LEMMA Powers == /\ Pow2 \in [Nat -> Nat]
                /\ Pow2[0] = 1
                /\ \A i \in Nat : Pow2[i + 1] = 2 * Pow2[i]
<1> DEFINE Doubling(f, i) == f \in [0..i -> Nat] /\ f[0] = 1 /\ \A j \in 1..i : f[j] = 2 * f[j - 1]
           S == {i \in Nat : \E f : Doubling(f, i)}
           T == {i \in Nat : \A f, g : Doubling(f, i) /\ Doubling(g, i) => f[i] = g[i]}
<1>1. S = Nat
  <2>1. 0 \in S
    <3>1. Doubling([j \in 0..0 |-> 1], 0)
      OBVIOUS
    <3> QED BY <3>1
  <2>2. ASSUME NEW i \in S
        PROVE  i + 1 \in S
    <3>1. PICK f : Doubling(f, i)
      OBVIOUS
    <3> DEFINE g == [j \in 0..(i + 1) |-> IF j <= i THEN f[j] ELSE 2 * f[i]]
    <3>2. Doubling(g, i + 1)
      BY <3>1
    <3> HIDE DEF Doubling, g
    <3>3. \E e : Doubling(e, i + 1)
      BY <3>2
    <3> QED BY <3>3
  <2> HIDE DEF S
  <2>3. S \in SUBSET Nat
    BY DEF S
  <2> QED BY <2>1, <2>2, <2>3, SetInduction
<1>2. T = Nat
  <2>1. 0 \in T
    <3>1. \A f : Doubling(f, 0) => f[0] = 1
      OBVIOUS
    <3> HIDE DEF Doubling
    <3> QED BY <3>1
  <2>2. ASSUME NEW i \in T
        PROVE  i + 1 \in T
    <3> HIDE DEF Doubling
    <3> SUFFICES ASSUME NEW f, NEW g, Doubling(f, i + 1), Doubling(g, i + 1)
                 PROVE  f[i + 1] = g[i + 1]
      OBVIOUS
    <3> USE DEF Doubling
    <3> DEFINE h(e) == [j \in 0..i |-> e[j]]
    <3>1. Doubling(h(f), i) /\ Doubling(h(g), i)
      OBVIOUS
    <3>2. h(f)[i] = h(g)[i]
      BY <3>1
    <3>3. f[i] = g[i]
      BY <3>2
    <3> QED BY <3>3
  <2> HIDE DEF T
  <2>3. T \in SUBSET Nat
    BY DEF T
  <2> QED BY <2>1, <2>2, <2>3, SetInduction
<1> DEFINE F(i) == CHOOSE f : Doubling(f, i)
           p == [i \in Nat |-> F(i)[i]]
<1>3. \A i \in Nat : Doubling(F(i), i)
  <2> HIDE DEF Doubling
  <2> QED BY <1>1
<1> HIDE DEF F
<1>4. p \in [Nat -> Nat] /\ p[0] = 1
  BY <1>3
<1>5. ASSUME NEW i \in Nat
      PROVE  p[i + 1] = 2 * p[i]
  <2> DEFINE h == [j \in 0..i |-> F(i + 1)[j]]
  <2>1. Doubling(F(i + 1), i + 1)
    BY <1>3
  <2>2. Doubling(h, i)
    BY <2>1
  <2>3. h[i] = F(i)[i]
    <3> HIDE DEF Doubling, h
    <3> QED BY <1>2, <1>3, <2>2
  <2> QED BY <2>1, <2>3
<1>6. p = [i \in Nat |-> IF i = 0 THEN 1 ELSE 2 * p[i - 1]]
  <2>1. ASSUME NEW i \in Nat
        PROVE  p[i] = IF i = 0 THEN 1 ELSE 2 * p[i - 1]
    <3>1. CASE i = 0
      BY <1>4, <3>1
    <3>2. CASE i # 0
      <4>1. i - 1 \in Nat /\ (i - 1) + 1 = i
        BY <3>2
      <4> QED BY <3>2, <4>1, <1>5
    <3> QED BY <3>1, <3>2
  <2> HIDE DEF p
  <2>2. p \in [Nat -> Nat]
    BY <1>4
  <2> QED BY <2>1, <2>2
<1> HIDE DEF p
<1>7. Pow2 = [i \in Nat |-> IF i = 0 THEN 1 ELSE 2 * Pow2[i - 1]]
  <2>1. \E q : q = [i \in Nat |-> IF i = 0 THEN 1 ELSE 2 * q[i - 1]]
    BY <1>6, Zenon
  <2> QED BY <2>1, Zenon DEF Pow2
<1>8. Pow2[0] = 1 /\ \A i \in Nat : Pow2[i + 1] = 2 * Pow2[i]
  BY <1>7
<1>9. \A i \in Nat : Pow2[i] \in Nat
  <2> DEFINE N == {i \in Nat : Pow2[i] \in Nat}
  <2>1. 0 \in N /\ \A i \in N : i + 1 \in N
    BY <1>8
  <2> HIDE DEF N
  <2>2. N \in SUBSET Nat
    BY DEF N
  <2>3. N = Nat
    BY <2>1, <2>2, SetInduction
  <2> QED BY <2>3 DEF N
<1> QED BY <1>7, <1>8, <1>9

(* The powers of two grow. *)
LEMMA PowersGrow ==
    ASSUME NEW i \in Nat, NEW j \in Nat, i <= j
    PROVE  Pow2[i] <= Pow2[j] /\ Pow2[i] > 0
<1> DEFINE P == {k \in Nat : Pow2[k] > 0}
           S == {d \in Nat : Pow2[i] <= Pow2[i + d]}
<1>1. P = Nat
  <2>1. 0 \in P /\ \A k \in P : k + 1 \in P
    BY Powers
  <2> QED BY <2>1, SetInduction
<1>2. S = Nat
  <2>1. 0 \in S
    BY Powers
  <2>2. ASSUME NEW d \in S
        PROVE  d + 1 \in S
    <3>1. i + d \in Nat /\ i + (d + 1) = (i + d) + 1
      OBVIOUS
    <3> QED BY <3>1, Powers
  <2> QED BY <2>1, <2>2, SetInduction
<1>3. Pow2[i] <= Pow2[i + (j - i)]
  BY <1>2, j - i \in Nat
<1> QED BY <1>1, <1>3, i + (j - i) = j

(* The powers that bound the amounts. *)
LEMMA PowerValues ==
    /\ Pow2[2] = 4 /\ Pow2[25] = 33554432 /\ Pow2[26] = 67108864 /\ Pow2[27] = 134217728
    /\ Pow2[28] = 268435456 /\ Pow2[51] = 2251799813685248
<1>1. \A i \in Nat : Pow2[i + 5] = 32 * Pow2[i]
  <2> TAKE i \in Nat
  <2>1. Pow2[i + 1] = 2 * Pow2[i] /\ Pow2[i + 2] = 2 * Pow2[i + 1] /\ Pow2[i + 3] = 2 * Pow2[i + 2]
        /\ Pow2[i + 4] = 2 * Pow2[i + 3] /\ Pow2[i + 5] = 2 * Pow2[i + 4]
    <3>1. \A j \in {i, i + 1, i + 2, i + 3, i + 4} : Pow2[j + 1] = 2 * Pow2[j]
      BY Powers
    <3>2. /\ (i + 1) + 1 = i + 2 /\ (i + 2) + 1 = i + 3
          /\ (i + 3) + 1 = i + 4 /\ (i + 4) + 1 = i + 5
      OBVIOUS
    <3> QED BY <3>1, <3>2
  <2> QED BY <2>1, Powers
<1>2. Pow2[0] = 1 /\ Pow2[1] = 2 /\ Pow2[2] = 4
  BY Powers, 0 + 1 = 1, 1 + 1 = 2
<1>3. Pow2[5] = 32 /\ Pow2[10] = 1024 /\ Pow2[15] = 32768 /\ Pow2[20] = 1048576
      /\ Pow2[25] = 33554432 /\ Pow2[30] = 1073741824
  BY <1>1, <1>2, 0 + 5 = 5, 5 + 5 = 10, 10 + 5 = 15, 15 + 5 = 20, 20 + 5 = 25, 25 + 5 = 30, SMT
<1>4. Pow2[35] = 34359738368 /\ Pow2[40] = 1099511627776 /\ Pow2[45] = 35184372088832
      /\ Pow2[50] = 1125899906842624
  BY <1>1, <1>3, 30 + 5 = 35, 35 + 5 = 40, 40 + 5 = 45, 45 + 5 = 50, SMT
<1>5. Pow2[26] = 67108864 /\ Pow2[27] = 134217728 /\ Pow2[28] = 268435456
  BY <1>3, Powers, 25 + 1 = 26, 26 + 1 = 27, 27 + 1 = 28, SMT
<1>6. Pow2[51] = 2251799813685248
  BY <1>4, Powers, 50 + 1 = 51, SMT
<1> QED BY <1>2, <1>3, <1>5, <1>6, SMT

(* The number of satoshis in an amount, and the amounts of any size. *)
Satoshis(n) == n[1] * Unit + n[2]
AnyAmount == Nat \X (0..Unit - 1)

(* The unit is a number; its value is used only where it matters. *)
LEMMA UnitIsNatural == Unit \in Nat /\ Unit > 0
BY SMT DEF Unit

(* Quotient and remainder by the unit. *)
LEMMA UnitDivision ==
    ASSUME NEW s \in Nat
    PROVE  /\ s \div Unit \in Nat /\ s % Unit \in Nat /\ s % Unit < Unit
           /\ s = (s \div Unit) * Unit + (s % Unit)
BY SMT DEF Unit

(* An amount and its parts. *)
LEMMA AmountParts ==
    /\ \A n \in AnyAmount : n[1] \in Nat /\ n[2] \in Nat /\ n[2] < Unit /\ n = <<n[1], n[2]>>
    /\ \A m1, m2 \in Nat : m2 < Unit => <<m1, m2>> \in AnyAmount
    /\ \A n \in AnyAmount : Satoshis(n) \in Nat
<1>1. \A n \in AnyAmount : n[1] \in Nat /\ n[2] \in Nat /\ n[2] < Unit /\ n = <<n[1], n[2]>>
  BY UnitIsNatural, SMT DEF AnyAmount
<1>2. \A m1, m2 \in Nat : m2 < Unit => <<m1, m2>> \in AnyAmount
  BY UnitIsNatural, SMT DEF AnyAmount
<1>3. \A m1, m2 \in Nat : m1 * Unit + m2 \in Nat
  BY SMT DEF Unit
<1> QED BY <1>1, <1>2, <1>3 DEF Satoshis

(* Doubling an amount doubles its satoshis. *)
LEMMA TwiceTheSatoshis ==
    ASSUME NEW n \in AnyAmount
    PROVE  Times2(n) \in AnyAmount /\ Satoshis(Times2(n)) = 2 * Satoshis(n)
<1>1. n[1] \in Nat /\ n[2] \in Nat /\ 2 * n[2] \in Nat
  BY AmountParts
<1>2. PICK q \in Nat, r \in Nat : /\ q = (2 * n[2]) \div Unit /\ r = (2 * n[2]) % Unit
                                  /\ r < Unit /\ 2 * n[2] = q * Unit + r
  BY <1>1, UnitDivision
<1>3. Times2(n) = <<2 * n[1] + q, r>> /\ 2 * n[1] + q \in Nat
  BY <1>1, <1>2 DEF Times2
<1>4. Times2(n) \in AnyAmount
  BY <1>2, <1>3, AmountParts
<1>5. (2 * n[1] + q) * Unit + r = 2 * (n[1] * Unit + n[2])
  <2>1. \A a, b, c, d \in Nat : 2 * b = c * Unit + d => (2 * a + c) * Unit + d = 2 * (a * Unit + b)
    BY SMT DEF Unit
  <2> QED BY <1>1, <1>2, <2>1
<1> QED BY <1>3, <1>4, <1>5 DEF Satoshis

(* Shifting an amount is doubling it so many times. *)
LEMMA ShiftIsDoubling ==
    ASSUME NEW n, NEW i \in Nat
    PROVE  \E f : /\ f = [j \in 0..i |-> IF j = 0 THEN n ELSE Times2(f[j - 1])]
                  /\ Shifted(n, i) = f[i]
<1> DEFINE Doubles(f, k) == f = [j \in 0..k |-> IF j = 0 THEN n ELSE Times2(f[j - 1])]
           S == {k \in Nat : \E f : Doubles(f, k)}
<1>1. S = Nat
  <2>1. 0 \in S
    <3>1. Doubles([j \in 0..0 |-> n], 0)
      OBVIOUS
    <3> HIDE DEF Doubles
    <3>2. \E f : Doubles(f, 0)
      BY <3>1
    <3> QED BY <3>2
  <2>2. ASSUME NEW k \in S
        PROVE  k + 1 \in S
    <3>1. PICK f : Doubles(f, k)
      OBVIOUS
    <3> DEFINE g == [j \in 0..(k + 1) |-> IF j <= k THEN f[j] ELSE Times2(f[k])]
    <3>2. Doubles(g, k + 1)
      <4>1. ASSUME NEW j \in 0..(k + 1)
            PROVE  g[j] = IF j = 0 THEN n ELSE Times2(g[j - 1])
        BY <3>1
      <4> QED BY <4>1
    <3> HIDE DEF Doubles, g
    <3>3. \E e : Doubles(e, k + 1)
      BY <3>2
    <3> QED BY <3>3
  <2> HIDE DEF S
  <2>3. S \in SUBSET Nat
    BY DEF S
  <2> QED BY <2>1, <2>2, <2>3, SetInduction
<1>2. \E f : f = [j \in 0..i |-> IF j = 0 THEN n ELSE Times2(f[j - 1])]
  BY <1>1
<1> DEFINE s == CHOOSE s : s = [j \in 0..i |-> IF j = 0 THEN n ELSE Times2(s[j - 1])]
<1>3. s = [j \in 0..i |-> IF j = 0 THEN n ELSE Times2(s[j - 1])]
  BY <1>2, Zenon
<1>4. Shifted(n, i) = s[i]
  BY Zenon DEF Shifted
<1> HIDE DEF s
<1> QED BY <1>3, <1>4, Zenon

(* Shifting by one place more is doubling once more. *)
LEMMA ShiftStep ==
    ASSUME NEW n
    PROVE  Shifted(n, 0) = n /\ \A i \in Nat : Shifted(n, i + 1) = Times2(Shifted(n, i))
<1> DEFINE Doubles(f, k) == f = [j \in 0..k |-> IF j = 0 THEN n ELSE Times2(f[j - 1])]
           Agree(i, j) == \A f, g : Doubles(f, i) /\ Doubles(g, i + 1) => f[j] = g[j]
<1>1. \A i \in Nat : \E f : Doubles(f, i) /\ Shifted(n, i) = f[i]
  BY ShiftIsDoubling
<1>2. ASSUME NEW i \in Nat
      PROVE  Agree(i, i)
  <2> DEFINE S == {j \in Nat : j <= i => Agree(i, j)}
  <2>1. 0 \in S
    OBVIOUS
  <2>2. ASSUME NEW j \in S
        PROVE  j + 1 \in S
    <3> SUFFICES ASSUME j + 1 <= i, NEW f, NEW g, Doubles(f, i), Doubles(g, i + 1)
                 PROVE  f[j + 1] = g[j + 1]
      <4> HIDE DEF Doubles
      <4> QED OBVIOUS
    <3>1. f[j] = g[j]
      <4> HIDE DEF Doubles
      <4> QED OBVIOUS
    <3>2. f[j + 1] = Times2(f[j]) /\ g[j + 1] = Times2(g[j])
      <4>1. j + 1 \in 0..i /\ j + 1 \in 0..(i + 1) /\ j + 1 # 0 /\ (j + 1) - 1 = j
        OBVIOUS
      <4> QED BY <4>1
    <3> QED BY <3>1, <3>2
  <2>3. i \in S
    <3> HIDE DEF S
    <3>1. S \in SUBSET Nat
      BY DEF S
    <3> QED BY <2>1, <2>2, <3>1, SetInduction
  <2> HIDE DEF Agree
  <2> QED BY <2>3
<1>3. ASSUME NEW i \in Nat
      PROVE  Shifted(n, i + 1) = Times2(Shifted(n, i))
  <2>1. PICK f : Doubles(f, i) /\ Shifted(n, i) = f[i]
    BY <1>1
  <2>2. PICK g : Doubles(g, i + 1) /\ Shifted(n, i + 1) = g[i + 1]
    <3> HIDE DEF Doubles
    <3> QED BY <1>1
  <2>3. f[i] = g[i]
    <3> HIDE DEF Doubles
    <3> QED BY <1>2, <2>1, <2>2
  <2>4. g[i + 1] = Times2(g[i])
    BY <2>2
  <2> QED BY <2>1, <2>2, <2>3, <2>4
<1>4. Shifted(n, 0) = n
  <2>1. PICK f : Doubles(f, 0) /\ Shifted(n, 0) = f[0]
    BY <1>1
  <2> QED BY <2>1
<1> QED BY <1>3, <1>4

(* A shifted amount is one. *)
LEMMA ShiftedAmount ==
    ASSUME NEW n \in AnyAmount
    PROVE  \A i \in Nat : /\ Shifted(n, i) \in AnyAmount
                          /\ Satoshis(Shifted(n, i + 1)) = 2 * Satoshis(Shifted(n, i))
<1> DEFINE S == {i \in Nat : Shifted(n, i) \in AnyAmount}
<1>1. 0 \in S /\ \A i \in S : i + 1 \in S
  BY ShiftStep, TwiceTheSatoshis
<1>2. S = Nat
  <2> HIDE DEF S
  <2>1. S \in SUBSET Nat
    BY DEF S
  <2> QED BY <1>1, <2>1, SetInduction
<1> QED BY <1>2, ShiftStep, TwiceTheSatoshis

(* PowerOfTwo[i] is 2^i satoshis. *)
LEMMA PowerAmounts ==
    ASSUME NEW i \in 0..51
    PROVE  PowerOfTwo[i] \in AnyAmount /\ Satoshis(PowerOfTwo[i]) = Pow2[i]
<1> DEFINE one == <<0, 1>>
           S == {j \in Nat : Satoshis(Shifted(one, j)) = Pow2[j]}
<1>1. one \in AnyAmount /\ Satoshis(one) = 1
  <2>1. 1 < Unit /\ 0 * Unit + 1 = 1
    BY SMT DEF Unit
  <2> QED BY <2>1, AmountParts DEF Satoshis
<1> HIDE DEF one
<1>2. S = Nat
  <2>1. 0 \in S /\ \A j \in S : j + 1 \in S
    BY <1>1, ShiftStep, ShiftedAmount, Powers
  <2> HIDE DEF S
  <2>2. S \in SUBSET Nat
    BY DEF S
  <2> QED BY <2>1, <2>2, SetInduction
<1>3. PowerOfTwo[i] = Shifted(one, i)
  BY DEF PowerOfTwo, one
<1> QED BY <1>1, <1>2, <1>3, ShiftedAmount

(* The order of amounts is that of their satoshis. *)
LEMMA LessIsLess ==
    ASSUME NEW m \in AnyAmount, NEW n \in AnyAmount
    PROVE  Less(m, n) <=> Satoshis(m) < Satoshis(n)
<1>1. m[1] \in Nat /\ m[2] \in Nat /\ m[2] < Unit /\ n[1] \in Nat /\ n[2] \in Nat /\ n[2] < Unit
  BY AmountParts
<1>2. \A a, b, c, d \in Nat : b < Unit /\ d < Unit =>
         ((a < c \/ (a = c /\ b < d)) <=> a * Unit + b < c * Unit + d)
  BY SMT DEF Unit
<1> QED BY <1>1, <1>2 DEF Less, Satoshis

(* The amounts that exist are below 2^51 satoshis and below 2^25 BTC. *)
LEMMA AmountBounds ==
    ASSUME NEW n \in Amount
    PROVE  n \in AnyAmount /\ n[1] < Pow2[25] /\ Satoshis(n) < Pow2[51]
<1>1. Supply \in Nat /\ Supply <= 33554432
  BY SMT DEF Supply
<1>2. n \in AnyAmount /\ n[1] \in Nat /\ n[1] < Supply
  BY <1>1, SMT DEF Amount, AnyAmount
<1>3. \A a, b \in Nat : a < Supply /\ b < Unit => a * Unit + b < 2251799813685248
  BY SMT DEF Unit, Supply
<1>4. n[2] \in Nat /\ n[2] < Unit
  BY <1>2, AmountParts
<1>5. n[1] < 33554432 /\ Satoshis(n) < 2251799813685248
  BY <1>1, <1>2, <1>3, <1>4, SMT DEF Satoshis
<1> QED BY <1>2, <1>5, PowerValues, SMT

(* A number below 2^u lies between two powers of two. *)
LEMMA BetweenPowers ==
    ASSUME NEW v \in Nat, v > 0, NEW u \in Nat, v < Pow2[u]
    PROVE  \E l \in 1..u : Pow2[l - 1] <= v /\ v < Pow2[l]
<1> DEFINE K == {l \in Nat : v < Pow2[l]}
<1>1. PICK l \in K : \A k \in K : l <= k
  <2>1. K \in SUBSET Nat /\ u \in K
    OBVIOUS
  <2> HIDE DEF K
  <2> QED BY <2>1, LeastNatural
<1>2. l # 0
  BY <1>1, Powers
<1>3. l - 1 \in Nat /\ l - 1 \notin K
  BY <1>1, <1>2
<1>4. Pow2[l - 1] <= v
  BY <1>3, Powers
<1>5. l <= u
  BY <1>1
<1> QED BY <1>1, <1>2, <1>4, <1>5

(* Bits(n) is the number of bits of n satoshis. *)
LEMMA BitsOfAmount ==
    ASSUME NEW n \in Amount, n # <<0, 0>>
    PROVE  Bits(n) \in 1..51 /\ Pow2[Bits(n) - 1] <= Satoshis(n) /\ Satoshis(n) < Pow2[Bits(n)]
<1>1. n \in AnyAmount /\ Satoshis(n) < Pow2[51] /\ n = <<n[1], n[2]>> /\ n[1] \in Nat /\ n[2] \in Nat
  BY AmountBounds, AmountParts
<1>2. Satoshis(n) \in Nat /\ Satoshis(n) > 0
  <2>1. \A a, b \in Nat : a # 0 \/ b # 0 => a * Unit + b > 0
    BY SMT DEF Unit
  <2>2. n[1] # 0 \/ n[2] # 0
    BY <1>1
  <2> QED BY <1>1, <2>1, <2>2, AmountParts DEF Satoshis
<1>3. \A l \in 1..51 : (~Less(n, PowerOfTwo[l - 1]) /\ Less(n, PowerOfTwo[l])) <=>
                       (Pow2[l - 1] <= Satoshis(n) /\ Satoshis(n) < Pow2[l])
  <2> TAKE l \in 1..51
  <2>1. l \in 0..51 /\ l - 1 \in 0..51 /\ Pow2[l - 1] \in Nat /\ Pow2[l] \in Nat
    BY Powers
  <2>2. /\ Less(n, PowerOfTwo[l - 1]) <=> Satoshis(n) < Pow2[l - 1]
        /\ Less(n, PowerOfTwo[l]) <=> Satoshis(n) < Pow2[l]
    BY <1>1, <2>1, PowerAmounts, LessIsLess
  <2> QED BY <1>2, <2>1, <2>2
<1>4. \E l \in 1..51 : ~Less(n, PowerOfTwo[l - 1]) /\ Less(n, PowerOfTwo[l])
  <2>1. \E l \in 1..51 : Pow2[l - 1] <= Satoshis(n) /\ Satoshis(n) < Pow2[l]
    BY <1>1, <1>2, BetweenPowers
  <2> QED BY <1>3, <2>1
<1>5. /\ Bits(n) \in 1..51
      /\ ~Less(n, PowerOfTwo[Bits(n) - 1]) /\ Less(n, PowerOfTwo[Bits(n)])
  BY <1>4, Zenon DEF Bits
<1> QED BY <1>3, <1>5

(* The exponent of an amount of at least one bitcoin. *)
LEMMA ExponentOfWhole ==
    ASSUME NEW n \in Amount, n[1] > 0
    PROVE  Exponent(n) \in 0..24 /\ Pow2[Exponent(n)] <= n[1] /\ n[1] < Pow2[Exponent(n) + 1]
<1>1. n[1] \in Nat /\ n[1] < Pow2[25]
  BY AmountBounds, AmountParts
<1>2. PICK l \in 1..25 : Pow2[l - 1] <= n[1] /\ n[1] < Pow2[l]
  BY <1>1, BetweenPowers
<1>3. \E k \in 0..24 : Pow2[k] <= n[1] /\ n[1] < Pow2[k + 1]
  <2>1. l - 1 \in 0..24 /\ (l - 1) + 1 = l
    OBVIOUS
  <2> QED BY <1>2, <2>1
<1>4. Exponent(n) = CHOOSE k \in 0..24 : Pow2[k] <= n[1] /\ n[1] < Pow2[k + 1]
  BY DEF Exponent
<1> QED BY <1>3, <1>4, Zenon

(* The exponent of an amount below one bitcoin. *)
LEMMA ExponentOfFraction ==
    ASSUME NEW n \in Amount, n # <<0, 0>>, ~(n[1] > 0)
    PROVE  \E i \in 1..27 : Exponent(n) = -i /\ Shifted(n, i)[1] = 1
<1> DEFINE v(i) == Satoshis(Shifted(n, i))
           K == {i \in Nat : v(i) >= Unit}
<1>1. n \in AnyAmount /\ n = <<n[1], n[2]>> /\ n[1] = 0 /\ n[2] \in Nat /\ n[2] < Unit /\ n[2] > 0
  <2>1. n \in AnyAmount
    BY AmountBounds
  <2> QED BY <2>1, AmountParts
<1>2. v(0) = n[2]
  <2>1. \A b \in Nat : 0 * Unit + b = b
    BY SMT DEF Unit
  <2> QED BY <1>1, <2>1, ShiftStep DEF Satoshis
<1>3. \A i \in Nat : v(i) \in Nat /\ v(i + 1) = 2 * v(i)
  BY <1>1, ShiftedAmount, AmountParts
<1> HIDE DEF v
<1>4. 27 \in K
  <2> DEFINE S == {i \in Nat : Pow2[i] <= v(i)}
  <2>1. 0 \in S /\ \A i \in S : i + 1 \in S
    BY <1>1, <1>2, <1>3, Powers
  <2>2. S = Nat
    <3> HIDE DEF S
    <3>1. S \in SUBSET Nat
      BY DEF S
    <3> QED BY <2>1, <3>1, SetInduction
  <2>3. Pow2[27] <= v(27)
    BY <2>2
  <2>4. Unit <= 134217728 /\ Unit \in Nat
    BY SMT DEF Unit
  <2> QED BY <1>3, <2>3, <2>4, PowerValues, SMT
<1>5. PICK i \in K : \A k \in K : i <= k
  <2>1. K \in SUBSET Nat
    OBVIOUS
  <2> HIDE DEF K
  <2> QED BY <1>4, <2>1, LeastNatural
<1>6. i \in 1..27
  BY <1>1, <1>2, <1>4, <1>5, UnitIsNatural
<1>7. v(i) >= Unit /\ v(i) < 2 * Unit
  <2>1. i - 1 \in Nat /\ i - 1 \notin K /\ (i - 1) + 1 = i
    BY <1>5, <1>6
  <2>2. v(i - 1) \in Nat /\ v(i - 1) < Unit /\ v(i) = 2 * v(i - 1)
    BY <1>3, <2>1, UnitIsNatural
  <2> QED BY <1>5, <2>2, UnitIsNatural
<1>8. Shifted(n, i)[1] = 1
  <2>1. \A a, b \in Nat : b < Unit /\ a * Unit + b >= Unit /\ a * Unit + b < 2 * Unit => a = 1
    BY SMT DEF Unit
  <2>2. Shifted(n, i) \in AnyAmount
    BY <1>1, <1>6, ShiftedAmount
  <2> QED BY <1>7, <2>1, <2>2, AmountParts DEF v, Satoshis
<1>9. \E k \in 1..27 : Shifted(n, k)[1] = 1
  BY <1>6, <1>8
<1>10. Exponent(n) = -(CHOOSE k \in 1..27 : Shifted(n, k)[1] = 1)
  BY DEF Exponent
<1>11. PICK k \in 1..27 : Exponent(n) = -k /\ Shifted(n, k)[1] = 1
  BY <1>9, <1>10, Zenon
<1> QED BY <1>11

(* Multiplying by Unit adds 26 or 27 binary places. *)
LEMMA PlacesOfUnit ==
    ASSUME NEW n \in Amount, n # <<0, 0>>
    PROVE  Exponent(n) \in -27..24 /\ Bits(n) - 1 - Exponent(n) \in 26..27
<1> DEFINE l == Bits(n)
<1>1. l \in 1..51 /\ Pow2[l - 1] <= Satoshis(n) /\ Satoshis(n) < Pow2[l]
  BY BitsOfAmount
<1>2. n \in AnyAmount /\ n[1] \in Nat /\ n[2] \in Nat /\ n[2] < Unit /\ Satoshis(n) \in Nat
  <2>1. n \in AnyAmount
    BY AmountBounds
  <2> QED BY <2>1, AmountParts
<1> HIDE DEF l
<1>3. \A i, j \in Nat : Pow2[i] < Pow2[j] => i < j
  BY PowersGrow, Powers
<1>4. CASE n[1] > 0
  <2> DEFINE k == Exponent(n)
             S == {i \in Nat : Pow2[i + 26] = 67108864 * Pow2[i]}
  <2>1. k \in 0..24 /\ Pow2[k] <= n[1] /\ n[1] < Pow2[k + 1]
    BY <1>4, ExponentOfWhole
  <2> HIDE DEF k
  <2>2. S = Nat
    <3>1. 0 \in S
      BY Powers, PowerValues, 0 + 26 = 26, SMT
    <3>2. ASSUME NEW i \in S
          PROVE  i + 1 \in S
      <4>1. (i + 1) + 26 = (i + 26) + 1 /\ i + 26 \in Nat /\ i + 1 \in Nat
        OBVIOUS
      <4>2. Pow2[(i + 26) + 1] = 2 * Pow2[i + 26] /\ Pow2[i + 1] = 2 * Pow2[i] /\ Pow2[i] \in Nat
        BY <4>1, Powers
      <4>3. Pow2[i + 26] = 67108864 * Pow2[i]
        BY SMT
      <4>4. Pow2[(i + 1) + 26] = 67108864 * Pow2[i + 1]
        BY <4>1, <4>2, <4>3, SMT
      <4> QED BY <4>4, SMT
    <3> HIDE DEF S
    <3>3. S \in SUBSET Nat
      BY SMT DEF S
    <3> QED BY <3>1, <3>2, <3>3, SetInduction
  <2>3. /\ Pow2[k + 26] = 67108864 * Pow2[k] /\ Pow2[k + 28] = 268435456 * Pow2[k]
        /\ Pow2[k + 1] = 2 * Pow2[k] /\ Pow2[k] \in Nat /\ Pow2[k] > 0
    <3>1. k \in Nat /\ k + 26 \in Nat /\ (k + 26) + 1 = k + 27 /\ (k + 27) + 1 = k + 28 /\ k + 27 \in Nat
      BY <2>1
    <3>2. Pow2[k + 26] = 67108864 * Pow2[k]
      BY <2>2, <3>1, SMT
    <3>3. /\ Pow2[k + 27] = 2 * Pow2[k + 26] /\ Pow2[k + 28] = 2 * Pow2[k + 27]
          /\ Pow2[k + 1] = 2 * Pow2[k] /\ Pow2[k] \in Nat
      BY <3>1, Powers
    <3>4. Pow2[k] > 0
      BY <3>1, PowersGrow
    <3> QED BY <3>2, <3>3, <3>4, SMT
  <2>4. Pow2[k + 26] < Pow2[l] /\ Pow2[l - 1] < Pow2[k + 28]
    <3>1. \A a, b, p \in Nat : p > 0 /\ p <= a /\ a < 2 * p /\ b < Unit =>
             67108864 * p <= a * Unit + b /\ a * Unit + b < 268435456 * p
      BY SMT DEF Unit
    <3>2. 67108864 * Pow2[k] <= Satoshis(n) /\ Satoshis(n) < 268435456 * Pow2[k]
      BY <1>2, <2>1, <2>3, <3>1, SMT DEF Satoshis
    <3>3. Pow2[l] \in Nat /\ Pow2[l - 1] \in Nat
      BY <1>1, Powers
    <3> QED BY <1>1, <1>2, <2>3, <3>2, <3>3, SMT
  <2>5. k + 26 < l /\ l - 1 < k + 28
    BY <1>1, <1>3, <2>1, <2>4
  <2> QED BY <1>1, <2>1, <2>5 DEF k, l
<1>5. CASE ~(n[1] > 0)
  <2> DEFINE v(j) == Satoshis(Shifted(n, j))
             S == {j \in Nat : Pow2[(l - 1) + j] <= v(j) /\ v(j) < Pow2[l + j]}
  <2>1. PICK i \in 1..27 : Exponent(n) = -i /\ Shifted(n, i)[1] = 1
    BY <1>5, ExponentOfFraction
  <2>2. \A j \in Nat : v(j) \in Nat /\ v(j + 1) = 2 * v(j)
    BY <1>2, ShiftedAmount, AmountParts
  <2>3. v(0) = Satoshis(n)
    BY ShiftStep
  <2>4. Unit <= v(i) /\ v(i) < 2 * Unit
    <3>1. Shifted(n, i) \in AnyAmount
      BY <1>2, ShiftedAmount, i \in Nat
    <3>2. \A b \in Nat : b < Unit => Unit <= 1 * Unit + b /\ 1 * Unit + b < 2 * Unit
      BY SMT DEF Unit
    <3> QED BY <2>1, <3>1, <3>2, AmountParts DEF Satoshis
  <2> HIDE DEF v
  <2>5. S = Nat
    <3>1. 0 \in S
      BY <1>1, <2>3
    <3>2. ASSUME NEW j \in S
          PROVE  j + 1 \in S
      <4>1. /\ (l - 1) + j \in Nat /\ l + j \in Nat /\ (l - 1) + (j + 1) = ((l - 1) + j) + 1
            /\ l + (j + 1) = (l + j) + 1
        BY <1>1
      <4>2. /\ Pow2[(l - 1) + (j + 1)] = 2 * Pow2[(l - 1) + j] /\ Pow2[l + (j + 1)] = 2 * Pow2[l + j]
            /\ Pow2[(l - 1) + j] \in Nat /\ Pow2[l + j] \in Nat
        BY <4>1, Powers
      <4> QED BY <2>2, <4>2
    <3> HIDE DEF S
    <3>3. S \in SUBSET Nat
      BY DEF S
    <3> QED BY <3>1, <3>2, <3>3, SetInduction
  <2>6. Pow2[(l - 1) + i] <= v(i) /\ v(i) < Pow2[l + i]
    BY <2>5
  <2>7. 67108864 < Unit /\ 2 * Unit < 268435456 /\ Unit \in Nat
    BY SMT DEF Unit
  <2>8. Pow2[26] < Pow2[l + i] /\ Pow2[(l - 1) + i] < Pow2[28]
    <3>1. (l - 1) + i \in Nat /\ l + i \in Nat
      BY <1>1
    <3>2. Pow2[l + i] \in Nat /\ Pow2[(l - 1) + i] \in Nat
      BY <3>1, Powers
    <3> QED BY <2>2, <2>4, <2>6, <2>7, <3>2, PowerValues, SMT
  <2>9. 26 < l + i /\ (l - 1) + i < 28
    BY <1>1, <1>3, <2>8
  <2> QED BY <1>1, <2>1, <2>9 DEF l
<1> QED BY <1>4, <1>5

(* Reading an amount is off by half a unit of the last place at most. *)
LEMMA ReadErrorBound ==
    ASSUME NEW n \in Amount, n # <<0, 0>>
    PROVE  ReadError(n) \in Int /\ -67108864 < ReadError(n) /\ ReadError(n) < 67108864
<1> DEFINE d == 52 - Exponent(n)
           Rests(f, k) == f = [j \in 0..k |-> IF j = 0 THEN n[2] ELSE (2 * f[j - 1]) % Unit]
<1>1. d \in Nat
  BY PlacesOfUnit
<1>2. n[2] \in Nat /\ n[2] < Unit
  BY AmountBounds, AmountParts
<1> HIDE DEF d
<1>3. \E f : Rests(f, d)
  <2> DEFINE S == {k \in Nat : \E f : Rests(f, k)}
  <2>1. 0 \in S
    <3>1. Rests([j \in 0..0 |-> n[2]], 0)
      OBVIOUS
    <3> HIDE DEF Rests
    <3>2. \E f : Rests(f, 0)
      BY <3>1
    <3> QED BY <3>2
  <2>2. ASSUME NEW k \in S
        PROVE  k + 1 \in S
    <3>1. PICK f : Rests(f, k)
      OBVIOUS
    <3> DEFINE g == [j \in 0..(k + 1) |-> IF j <= k THEN f[j] ELSE (2 * f[k]) % Unit]
    <3>2. Rests(g, k + 1)
      <4>1. ASSUME NEW j \in 0..(k + 1)
            PROVE  g[j] = IF j = 0 THEN n[2] ELSE (2 * g[j - 1]) % Unit
        BY <3>1
      <4> QED BY <4>1
    <3> HIDE DEF Rests, g
    <3>3. \E e : Rests(e, k + 1)
      BY <3>2
    <3> QED BY <3>3
  <2> HIDE DEF S
  <2>3. S \in SUBSET Nat
    BY DEF S
  <2>4. d \in S
    BY <1>1, <2>1, <2>2, <2>3, SetInduction
  <2> HIDE DEF Rests
  <2> QED BY <2>4 DEF S
<1> DEFINE rest == CHOOSE f : Rests(f, d)
           r == rest[d]
<1>4. Rests(rest, d)
  <2> HIDE DEF Rests
  <2> QED BY <1>3
<1>5. ReadError(n) = IF 2 * r < Unit THEN -r ELSE Unit - r
  BY Zenon DEF ReadError, d
<1> HIDE DEF rest
<1>6. r \in Nat /\ r < Unit
  <2> DEFINE S == {j \in Nat : j <= d => rest[j] \in Nat /\ rest[j] < Unit}
  <2>1. 0 \in S
    BY <1>1, <1>2, <1>4
  <2>2. ASSUME NEW j \in S
        PROVE  j + 1 \in S
    <3> SUFFICES ASSUME j + 1 <= d
                 PROVE  rest[j + 1] \in Nat /\ rest[j + 1] < Unit
      OBVIOUS
    <3>1. rest[j] \in Nat /\ 2 * rest[j] \in Nat
      BY <1>1
    <3>2. rest[j + 1] = (2 * rest[j]) % Unit
      <4>1. j + 1 \in 0..d /\ j + 1 # 0 /\ (j + 1) - 1 = j
        BY <1>1
      <4> QED BY <1>4, <4>1
    <3> QED BY <3>1, <3>2, UnitDivision
  <2>3. d \in S
    <3> HIDE DEF S
    <3>1. S \in SUBSET Nat
      BY DEF S
    <3> QED BY <1>1, <2>1, <2>2, <3>1, SetInduction
  <2> QED BY <2>3
<1> HIDE DEF r
<1>7. Unit \in Nat /\ Unit < 134217728
  BY SMT DEF Unit
<1> QED BY <1>5, <1>6, <1>7, SMT

(* A number divided by a large one rounds to a small one. *)
LEMMA RoundingBound ==
    ASSUME NEW a \in Int, -67108864 < a, a < 67108864, NEW b \in Nat, b >= 33554432
    PROVE  RoundHalfEven(a, b) \in -2..2
<1>1. a \div b \in Int /\ a % b \in Nat /\ a % b < b /\ a = b * (a \div b) + (a % b)
  BY SMT
<1>2. PICK q \in Int, m \in Nat : q = a \div b /\ m = a % b /\ m < b /\ a = b * q + m
  BY <1>1
<1>3. q >= -2 /\ q <= 1
  <2>1. CASE q >= 2
    <3>1. b * q >= b * 2
      BY <1>2, <2>1, SMT
    <3> QED BY <1>2, <3>1, SMT
  <2>2. CASE q <= -3
    <3>1. b * q <= b * (-3)
      BY <1>2, <2>2, SMT
    <3> QED BY <1>2, <3>1, SMT
  <2> QED BY <1>2, <2>1, <2>2
<1>4. RoundHalfEven(a, b) \in {q, q + 1}
  BY <1>2 DEF RoundHalfEven
<1> QED BY <1>2, <1>3, <1>4

(* At most one satoshi is lost. *)
LEMMA OneSatoshiAtMost ==
    ASSUME NEW n \in Amount
    PROVE  Lost(n) \in {0, 1} /\ (n = <<0, 0>> => Lost(n) = 0)
<1>1. CASE n = <<0, 0>>
  BY <1>1 DEF Lost
<1>2. CASE n # <<0, 0>>
  <2> DEFINE below == n = PowerOfTwo[Bits(n) - 1] /\ ReadError(n) < 0
             one == IF below THEN 1 ELSE 0
             unit == Pow2[Bits(n) - 1 - Exponent(n) - (IF below THEN 1 ELSE 0)]
             places == 53 - Bits(n) + (IF below THEN 1 ELSE 0)
             error == RoundHalfEven(ReadError(n), unit)
             kept == IF places < 30 THEN places ELSE 30
  <2>1. Lost(n) = -(error \div Pow2[kept])
    BY <1>2 DEF Lost
  <2>2. one \in {0, 1}
    OBVIOUS
  <2>3. unit \in Nat /\ unit >= 33554432
    <3>1. /\ Bits(n) \in Int /\ Exponent(n) \in Int
          /\ Bits(n) - 1 - Exponent(n) - one \in 25..27 /\ unit = Pow2[Bits(n) - 1 - Exponent(n) - one]
      BY <1>2, <2>2, BitsOfAmount, PlacesOfUnit
    <3> HIDE DEF unit, one
    <3>2. PICK p \in 25..27 : unit = Pow2[p]
      BY <3>1
    <3>3. unit \in {Pow2[25], Pow2[26], Pow2[27]}
      BY <3>2
    <3> QED BY <3>3, PowerValues, SMT
  <2>4. error \in -2..2
    <3> HIDE DEF unit
    <3> QED BY <1>2, <2>3, ReadErrorBound, RoundingBound, SMT
  <2>5. kept \in Nat /\ kept >= 2
    <3>1. places = 53 - Bits(n) + one
      OBVIOUS
    <3> HIDE DEF one, places
    <3> QED BY <1>2, <2>2, <3>1, BitsOfAmount
  <2> HIDE DEF error, kept
  <2>6. Pow2[kept] \in Nat /\ Pow2[kept] >= 4
    <3>1. Pow2[2] = 4
      BY PowerValues, SMT
    <3>2. Pow2[2] <= Pow2[kept]
      BY <2>5, PowersGrow
    <3> QED BY <2>5, <3>1, <3>2, Powers
  <2>7. \A e \in -2..2, p \in Nat : p >= 4 => -(e \div p) \in {0, 1}
    <3> TAKE e \in -2..2, p \in Nat
    <3> HAVE p >= 4
    <3>1. e \div p \in Int /\ e % p \in Nat /\ e % p < p /\ e = p * (e \div p) + (e % p)
      BY SMT
    <3>2. PICK q \in Int, m \in Nat : q = e \div p /\ m < p /\ e = p * q + m
      BY <3>1
    <3>3. q \in -1..0
      <4>1. CASE q >= 1
        <5>1. p * q >= p
          BY <3>2, <4>1, SMT
        <5> QED BY <3>2, <5>1, SMT
      <4>2. CASE q <= -2
        <5>1. p * q <= p * (-2)
          BY <3>2, <4>2, SMT
        <5> QED BY <3>2, <5>1, SMT
      <4> QED BY <3>2, <4>1, <4>2
    <3> QED BY <3>2, <3>3
  <2> QED BY <1>2, <2>1, <2>4, <2>6, <2>7
<1> QED BY <1>1, <1>2

(* What is stored of an amount is that amount or one satoshi less. *)
THEOREM ConvertedAmount ==
    ASSUME NEW n \in Amount
    PROVE  /\ Convert(n) \in AnyAmount
           /\ Satoshis(Convert(n)) \in {Satoshis(n), Satoshis(n) - 1}
<1>1. n \in AnyAmount /\ n = <<n[1], n[2]>> /\ n[1] \in Nat /\ n[2] \in Nat /\ n[2] < Unit
  <2>1. n \in AnyAmount
    BY AmountBounds
  <2> QED BY <2>1, AmountParts
<1>2. Lost(n) \in {0, 1} /\ (n = <<0, 0>> => Lost(n) = 0)
  BY OneSatoshiAtMost
<1>3. CASE n[2] >= Lost(n)
  <2>1. Convert(n) = <<n[1], n[2] - Lost(n)>> /\ n[2] - Lost(n) \in Nat /\ n[2] - Lost(n) < Unit
    BY <1>1, <1>2, <1>3, UnitIsNatural DEF Convert
  <2>2. \A a, b \in Nat : \A c \in {0, 1} : a * Unit + (b - c) \in {a * Unit + b, (a * Unit + b) - 1}
    BY SMT DEF Unit
  <2>3. Convert(n) \in AnyAmount
    BY <1>1, <2>1, AmountParts
  <2>4. Convert(n)[1] = n[1] /\ Convert(n)[2] = n[2] - Lost(n)
    BY <2>1
  <2>5. n[1] * Unit + (n[2] - Lost(n)) \in {n[1] * Unit + n[2], (n[1] * Unit + n[2]) - 1}
    BY <1>1, <1>2, <2>2, Zenon
  <2>6. Satoshis(Convert(n)) = n[1] * Unit + (n[2] - Lost(n)) /\ Satoshis(n) = n[1] * Unit + n[2]
    BY <2>4, Zenon DEF Satoshis
  <2> QED BY <2>3, <2>5, <2>6
<1>4. CASE ~(n[2] >= Lost(n))
  <2>1. Lost(n) = 1 /\ n[2] = 0 /\ n[1] > 0
    BY <1>1, <1>2, <1>4
  <2>2. Convert(n) = <<n[1] - 1, Unit + 0 - 1>> /\ n[1] - 1 \in Nat
    BY <1>1, <1>4, <2>1 DEF Convert
  <2>3. Unit + 0 - 1 \in Nat /\ Unit + 0 - 1 < Unit
    BY UnitIsNatural
  <2>4. \A a \in Nat : (a - 1) * Unit + (Unit + 0 - 1) = (a * Unit + 0) - 1
    BY SMT DEF Unit
  <2>5. Convert(n) \in AnyAmount
    BY <2>2, <2>3, AmountParts
  <2>6. Convert(n)[1] = n[1] - 1 /\ Convert(n)[2] = Unit + 0 - 1
    BY <2>2
  <2>7. Satoshis(Convert(n)) = (n[1] - 1) * Unit + (Unit + 0 - 1) /\ Satoshis(n) = n[1] * Unit + 0
    BY <2>1, <2>6, Zenon DEF Satoshis
  <2>8. (n[1] - 1) * Unit + (Unit + 0 - 1) = (n[1] * Unit + 0) - 1
    BY <1>1, <2>4, Zenon
  <2> QED BY <2>5, <2>7, <2>8
<1> QED BY <1>3, <1>4

-----------------------------------------------------------------------------
(* The sums: what a balance adds up. *)

(* A family with the empty set that holds a set whenever it holds it without *)
(* any one of its elements has every subset of a finite set.                *)
LEMMA SubsetInduction ==
    ASSUME NEW S, IsFiniteSet(S), NEW W, {} \in W,
           \A T \in SUBSET S : T # {} /\ (\A y \in T : T \ {y} \in W) => T \in W
    PROVE  SUBSET S \subseteq W
<1> DEFINE K == {k \in Nat : \A T \in SUBSET S : Cardinality(T) = k => T \in W}
<1>1. \A T \in SUBSET S : IsFiniteSet(T) /\ Cardinality(T) \in Nat
  BY FS_Subset, FS_CardinalityType
<1>2. 0 \in K
  BY <1>1, FS_EmptySet
<1>3. ASSUME NEW k \in K
      PROVE  k + 1 \in K
  <2> SUFFICES ASSUME NEW T \in SUBSET S, Cardinality(T) = k + 1
               PROVE  T \in W
    OBVIOUS
  <2>1. T # {}
    <3>1. Cardinality({}) = 0 /\ k + 1 # 0
      BY FS_EmptySet
    <3> QED BY <3>1, Zenon
  <2>2. ASSUME NEW y \in T
        PROVE  T \ {y} \in W
    <3>1. Cardinality(T \ {y}) = k
      BY <1>1, FS_RemoveElement
    <3> QED BY <3>1
  <2> QED BY <2>1, <2>2
<1>4. K = Nat
  <2> HIDE DEF K
  <2>1. K \in SUBSET Nat
    BY DEF K
  <2> QED BY <1>2, <1>3, <2>1, SetInduction
<1> QED BY <1>1, <1>4

(* F is the sum of w over the subsets of S, in whatever order it is taken. *)
SumsUp(F, w, S) ==
    /\ F \in [SUBSET S -> Int] /\ F[{}] = 0
    /\ \A T \in SUBSET S : \A y \in T : F[T] = w[y] + F[T \ {y}]

(* Integers over a finite set have sums. *)
LEMMA SumsExist ==
    ASSUME NEW S, IsFiniteSet(S), NEW w, \A o \in S : w[o] \in Int
    PROVE  \E F : SumsUp(F, w, S)
<1> DEFINE W == {T \in SUBSET S : \E F : SumsUp(F, w, T)}
<1>1. {} \in W
  <2>1. SumsUp([T \in SUBSET {} |-> 0], w, {})
    BY DEF SumsUp
  <2> QED BY <2>1
<1>2. ASSUME NEW T \in SUBSET S, T # {}, \A y \in T : T \ {y} \in W
      PROVE  T \in W
  <2>1. PICK a \in T : TRUE
    BY <1>2
  <2>2. PICK F : SumsUp(F, w, T \ {a})
    BY <1>2
  <2> DEFINE G == [U \in SUBSET T |-> IF a \in U THEN w[a] + F[U \ {a}] ELSE F[U]]
  <2>3. w[a] \in Int /\ \A U \in SUBSET (T \ {a}) : F[U] \in Int
    BY <2>2 DEF SumsUp
  <2>4. G \in [SUBSET T -> Int]
    <3>1. ASSUME NEW U \in SUBSET T
          PROVE  (IF a \in U THEN w[a] + F[U \ {a}] ELSE F[U]) \in Int
      <4>1. U \ {a} \in SUBSET (T \ {a})
        OBVIOUS
      <4>2. a \notin U => U \in SUBSET (T \ {a})
        OBVIOUS
      <4>3. F[U \ {a}] \in Int /\ (a \notin U => F[U] \in Int)
        BY <2>3, <4>1, <4>2
      <4> QED BY <2>3, <4>3
    <3> QED BY <3>1
  <2>5. G[{}] = 0
    BY <2>2 DEF SumsUp
  <2>6. ASSUME NEW U \in SUBSET T, NEW y \in U
        PROVE  G[U] = w[y] + G[U \ {y}]
    <3>1. U \ {y} \in SUBSET T /\ U \ {a} \in SUBSET (T \ {a})
      OBVIOUS
    <3>2. CASE y = a
      BY <3>1, <3>2
    <3>3. CASE y # a /\ a \in U
      <4>1. y \in U \ {a} /\ (U \ {a}) \ {y} = (U \ {y}) \ {a} /\ a \in U \ {y}
        BY <3>3
      <4>2. F[U \ {a}] = w[y] + F[(U \ {a}) \ {y}]
        BY <2>2, <3>1, <4>1 DEF SumsUp
      <4>3. G[U] = w[a] + F[U \ {a}] /\ G[U \ {y}] = w[a] + F[(U \ {a}) \ {y}]
        BY <3>1, <3>3, <4>1
      <4>4. w[y] \in Int /\ F[(U \ {a}) \ {y}] \in Int /\ w[a] \in Int
        <5>1. (U \ {a}) \ {y} \in SUBSET (T \ {a}) /\ y \in S
          OBVIOUS
        <5> QED BY <2>3, <5>1
      <4> HIDE DEF G
      <4> QED BY <4>2, <4>3, <4>4
    <3>4. CASE a \notin U
      <4>1. U \in SUBSET (T \ {a}) /\ a \notin U \ {y}
        BY <3>4
      <4>2. F[U] = w[y] + F[U \ {y}]
        BY <2>2, <4>1 DEF SumsUp
      <4> QED BY <3>1, <3>4, <4>1, <4>2
    <3> QED BY <3>2, <3>3, <3>4
  <2>7. SumsUp(G, w, T)
    <3> HIDE DEF G
    <3> QED BY <2>4, <2>5, <2>6 DEF SumsUp
  <2> QED BY <2>7
<1> HIDE DEF W
<1>3. SUBSET S \subseteq W
  BY <1>1, <1>2, SubsetInduction
<1> QED BY <1>3 DEF W

(* The whole bitcoins (c = 1) or the satoshis left (c = 2) of a set of rows. *)
Column(v, c, S) == [o \in S |-> v[o][c]]
ColumnSum(v, c, S) == MapThenSumSet(LAMBDA o : v[o][c], S)

(* That is a sum, in whatever order the rows are taken. *)
LEMMA SumIsSum ==
    ASSUME NEW S, IsFiniteSet(S), NEW v, NEW c, NEW F, SumsUp(F, Column(v, c, S), S)
    PROVE  \A T \in SUBSET S : ColumnSum(v, c, T) = F[T]
<1> TAKE R \in SUBSET S
<1> DEFINE Iterates(f) == f = [s \in SUBSET R |-> IF s = {} THEN 0
                                 ELSE LET x == CHOOSE x \in s : TRUE IN v[x][c] + f[s \ {x}]]
           iter == CHOOSE f : Iterates(f)
           G == [T \in SUBSET R |-> F[T]]
<1>1. ColumnSum(v, c, R) = iter[R]
  BY Zenon DEF ColumnSum, MapThenSumSet, MapThenFoldSet
<1>2. \A o \in S : Column(v, c, S)[o] = v[o][c]
  BY DEF Column
<1>3. Iterates(G)
  <2>1. ASSUME NEW s \in SUBSET R
        PROVE  G[s] = IF s = {} THEN 0 ELSE LET x == CHOOSE x \in s : TRUE IN v[x][c] + G[s \ {x}]
    <3>1. CASE s = {}
      BY <3>1 DEF SumsUp
    <3>2. CASE s # {}
      <4> DEFINE x == CHOOSE x \in s : TRUE
      <4>1. x \in s
        BY <3>2
      <4> HIDE DEF x
      <4>2. F[s] = v[x][c] + F[s \ {x}]
        BY <1>2, <4>1 DEF SumsUp
      <4>3. G[s] = F[s] /\ G[s \ {x}] = F[s \ {x}]
        OBVIOUS
      <4>4. G[s] = v[x][c] + G[s \ {x}]
        BY <4>2, <4>3
      <4> HIDE DEF G
      <4> QED BY <3>2, <4>4 DEF x
    <3> QED BY <3>1, <3>2
  <2>2. G = [s \in SUBSET R |-> G[s]]
    OBVIOUS
  <2> HIDE DEF G
  <2> QED BY <2>1, <2>2, Zenon
<1>4. Iterates(iter)
  <2> HIDE DEF Iterates
  <2> QED BY <1>3
<1> HIDE DEF iter
<1> DEFINE W == {T \in SUBSET R : iter[T] = F[T]}
<1>5. {} \in W
  BY <1>4 DEF SumsUp
<1>6. ASSUME NEW T \in SUBSET R, T # {}, \A y \in T : T \ {y} \in W
      PROVE  T \in W
  <2> DEFINE x == CHOOSE x \in T : TRUE
  <2>1. x \in T
    BY <1>6
  <2>2. iter[T] = v[x][c] + iter[T \ {x}]
    BY <1>4, <1>6, Zenon
  <2> HIDE DEF x
  <2>3. F[T] = v[x][c] + F[T \ {x}]
    BY <1>2, <2>1 DEF SumsUp
  <2> QED BY <1>6, <2>1, <2>2, <2>3
<1> HIDE DEF W
<1>7. SUBSET R \subseteq W
  BY <1>5, <1>6, SubsetInduction, FS_Subset
<1> QED BY <1>1, <1>7 DEF W

(* A sum splits over a part of the set and the rest. *)
LEMMA SumSplits ==
    ASSUME NEW S, IsFiniteSet(S), NEW w, \A o \in S : w[o] \in Int, NEW F, SumsUp(F, w, S),
           NEW C \in SUBSET S
    PROVE  F[S] = F[C] + F[S \ C]
<1> DEFINE W == {T \in SUBSET S : F[T] = F[T \cap C] + F[T \ C]}
<1>1. \A T \in SUBSET S : F[T] \in Int
  BY DEF SumsUp
<1>2. {} \in W
  <2>1. {} \cap C = {} /\ {} \ C = {} /\ F[{}] = 0
    BY DEF SumsUp
  <2> QED BY <2>1
<1>3. ASSUME NEW T \in SUBSET S, T # {}, \A y \in T : T \ {y} \in W
      PROVE  T \in W
  <2>1. PICK y \in T : TRUE
    BY <1>3
  <2>2. /\ F[T] = w[y] + F[T \ {y}]
        /\ F[T \ {y}] = F[(T \ {y}) \cap C] + F[(T \ {y}) \ C]
    BY <1>3 DEF SumsUp
  <2>3. /\ w[y] \in Int /\ F[(T \ {y}) \cap C] \in Int /\ F[(T \ {y}) \ C] \in Int
        /\ F[T \ {y}] \in Int
    <3>1. /\ y \in S /\ (T \ {y}) \cap C \in SUBSET S /\ (T \ {y}) \ C \in SUBSET S
          /\ T \ {y} \in SUBSET S
      OBVIOUS
    <3> QED BY <1>1, <3>1
  <2>4. CASE y \in C
    <3>1. (T \ {y}) \cap C = (T \cap C) \ {y} /\ (T \ {y}) \ C = T \ C
      BY <2>4
    <3>2. F[T \cap C] = w[y] + F[(T \cap C) \ {y}]
      <4>1. T \cap C \in SUBSET S /\ y \in T \cap C
        BY <2>4
      <4> QED BY <4>1 DEF SumsUp
    <3>3. F[T] = w[y] + ((F[(T \cap C) \ {y}]) + F[T \ C]) /\ F[(T \cap C) \ {y}] \in Int /\ F[T \ C] \in Int
      BY <2>2, <2>3, <3>1, Zenon
    <3>4. F[T] = F[T \cap C] + F[T \ C]
      BY <2>3, <3>2, <3>3
    <3> QED BY <3>4
  <2>5. CASE y \notin C
    <3>1. (T \ {y}) \ C = (T \ C) \ {y} /\ (T \ {y}) \cap C = T \cap C
      BY <2>5
    <3>2. F[T \ C] = w[y] + F[(T \ C) \ {y}]
      <4>1. T \ C \in SUBSET S /\ y \in T \ C
        BY <2>5
      <4> QED BY <4>1 DEF SumsUp
    <3>3. F[T] = w[y] + (F[T \cap C] + F[(T \ C) \ {y}]) /\ F[T \cap C] \in Int /\ F[(T \ C) \ {y}] \in Int
      BY <2>2, <2>3, <3>1, Zenon
    <3>4. F[T] = F[T \cap C] + F[T \ C]
      BY <2>3, <3>2, <3>3
    <3> QED BY <3>4
  <2> QED BY <2>4, <2>5
<1> HIDE DEF W
<1>4. S \in W
  BY <1>2, <1>3, SubsetInduction
<1>5. S \cap C = C
  OBVIOUS
<1> QED BY <1>4, <1>5 DEF W

(* The balance of a set of rows, some of them confirmed, falls short of     *)
(* their true value by one satoshi per row at most.                         *)
LEMMA BalanceOfRows ==
    ASSUME NEW S \in SUBSET OutPoint, IsFiniteSet(S), NEW C \in SUBSET S
    PROVE  Difference(Sum(ValueOf, S), Plus(Sum(value_sats, S \ C), Sum(value_sats, C)))
              \in 0..Cardinality(S)
<1> DEFINE part(v, c) == Column(v, c, S)
<1>1. ASSUME NEW o \in S
      PROVE  /\ ValueOf[o][1] \in Int /\ ValueOf[o][2] \in Int
             /\ value_sats[o][1] \in Int /\ value_sats[o][2] \in Int
             /\ (ValueOf[o][1] - value_sats[o][1]) * Unit + (ValueOf[o][2] - value_sats[o][2]) \in {0, 1}
  <2>1. ValueOf[o] \in Amount /\ value_sats[o] = Convert(ValueOf[o])
    BY ValueAssumption DEF value_sats
  <2>2. ValueOf[o] \in AnyAmount /\ value_sats[o] \in AnyAmount
    BY <2>1, AmountBounds, ConvertedAmount
  <2>3. Satoshis(value_sats[o]) \in {Satoshis(ValueOf[o]), Satoshis(ValueOf[o]) - 1}
    BY <2>1, ConvertedAmount
  <2>4. \A a, b, c, d \in Nat : c * Unit + d \in {a * Unit + b, (a * Unit + b) - 1} =>
           (a - c) * Unit + (b - d) \in {0, 1}
    BY SMT DEF Unit
  <2>5. /\ ValueOf[o][1] \in Nat /\ ValueOf[o][2] \in Nat
        /\ value_sats[o][1] \in Nat /\ value_sats[o][2] \in Nat
    BY <2>2, AmountParts
  <2>6. (ValueOf[o][1] - value_sats[o][1]) * Unit + (ValueOf[o][2] - value_sats[o][2]) \in {0, 1}
    BY <2>3, <2>4, <2>5, Zenon DEF Satoshis
  <2> QED BY <2>5, <2>6
<1>2. PICK F1, F2, G1, G2 : /\ SumsUp(F1, part(ValueOf, 1), S) /\ SumsUp(F2, part(ValueOf, 2), S)
                            /\ SumsUp(G1, part(value_sats, 1), S) /\ SumsUp(G2, part(value_sats, 2), S)
  <2>1. \A o \in S : /\ part(ValueOf, 1)[o] \in Int /\ part(ValueOf, 2)[o] \in Int
                     /\ part(value_sats, 1)[o] \in Int /\ part(value_sats, 2)[o] \in Int
    BY <1>1 DEF Column
  <2> HIDE DEF part
  <2>2. /\ \E F : SumsUp(F, part(ValueOf, 1), S)
        /\ \E F : SumsUp(F, part(ValueOf, 2), S)
        /\ \E F : SumsUp(F, part(value_sats, 1), S)
        /\ \E F : SumsUp(F, part(value_sats, 2), S)
    BY <2>1, SumsExist
  <2> QED BY <2>2
<1>3. ASSUME NEW T \in SUBSET S
      PROVE  /\ ColumnSum(ValueOf, 1, T) = F1[T]
             /\ ColumnSum(ValueOf, 2, T) = F2[T]
             /\ ColumnSum(value_sats, 1, T) = G1[T]
             /\ ColumnSum(value_sats, 2, T) = G2[T]
             /\ F1[T] \in Int /\ F2[T] \in Int /\ G1[T] \in Int /\ G2[T] \in Int
  <2>1. ColumnSum(ValueOf, 1, T) = F1[T]
    BY <1>2, SumIsSum, SMT
  <2>2. ColumnSum(ValueOf, 2, T) = F2[T]
    BY <1>2, SumIsSum, SMT
  <2>3. ColumnSum(value_sats, 1, T) = G1[T]
    BY <1>2, SumIsSum, SMT
  <2>4. ColumnSum(value_sats, 2, T) = G2[T]
    BY <1>2, SumIsSum, SMT
  <2>5. F1[T] \in Int /\ F2[T] \in Int /\ G1[T] \in Int /\ G2[T] \in Int
    BY <1>2 DEF SumsUp
  <2> QED BY <2>1, <2>2, <2>3, <2>4, <2>5
<1> DEFINE d(T) == (F1[T] - G1[T]) * Unit + (F2[T] - G2[T])
           W == {T \in SUBSET S : d(T) \in 0..Cardinality(T)}
<1>4. S \in W
  <2>1. {} \in W
    <3>1. F1[{}] = 0 /\ F2[{}] = 0 /\ G1[{}] = 0 /\ G2[{}] = 0
      BY <1>2 DEF SumsUp
    <3>2. (0 - 0) * Unit + (0 - 0) = 0
      BY SMT DEF Unit
    <3>3. d({}) = 0
      BY <3>1, <3>2
    <3> HIDE DEF d
    <3> QED BY <3>3, FS_EmptySet
  <2>2. ASSUME NEW T \in SUBSET S, T # {}, \A y \in T : T \ {y} \in W
        PROVE  T \in W
    <3>1. PICK y \in T : TRUE
      BY <2>2
    <3>2. /\ F1[T] = ValueOf[y][1] + F1[T \ {y}] /\ F2[T] = ValueOf[y][2] + F2[T \ {y}]
          /\ G1[T] = value_sats[y][1] + G1[T \ {y}] /\ G2[T] = value_sats[y][2] + G2[T \ {y}]
      <4>1. /\ part(ValueOf, 1)[y] = ValueOf[y][1] /\ part(ValueOf, 2)[y] = ValueOf[y][2]
            /\ part(value_sats, 1)[y] = value_sats[y][1] /\ part(value_sats, 2)[y] = value_sats[y][2]
        BY DEF Column
      <4> HIDE DEF part
      <4>2. /\ F1[T] = part(ValueOf, 1)[y] + F1[T \ {y}] /\ F2[T] = part(ValueOf, 2)[y] + F2[T \ {y}]
            /\ G1[T] = part(value_sats, 1)[y] + G1[T \ {y}]
            /\ G2[T] = part(value_sats, 2)[y] + G2[T \ {y}]
        BY <1>2, Zenon DEF SumsUp
      <4> QED BY <4>1, <4>2, Zenon
    <3>3. /\ F1[T \ {y}] \in Int /\ F2[T \ {y}] \in Int /\ G1[T \ {y}] \in Int /\ G2[T \ {y}] \in Int
      BY <1>3
    <3>4. d(T) = ((ValueOf[y][1] - value_sats[y][1]) * Unit + (ValueOf[y][2] - value_sats[y][2]))
                 + d(T \ {y})
      <4>1. PICK a \in Int, b \in Int, c \in Int, e \in Int :
               /\ a = ValueOf[y][1] /\ b = ValueOf[y][2]
               /\ c = value_sats[y][1] /\ e = value_sats[y][2]
        BY <1>1, Zenon
      <4>2. PICK a1 \in Int, b1 \in Int, c1 \in Int, e1 \in Int :
               a1 = F1[T \ {y}] /\ b1 = F2[T \ {y}] /\ c1 = G1[T \ {y}] /\ e1 = G2[T \ {y}]
        BY <3>3, Zenon
      <4>3. ((a + a1) - (c + c1)) * Unit + ((b + b1) - (e + e1))
               = ((a - c) * Unit + (b - e)) + ((a1 - c1) * Unit + (b1 - e1))
        BY SMT DEF Unit
      <4> QED BY <3>2, <4>1, <4>2, <4>3, Zenon
    <3>5. Cardinality(T) \in Nat /\ Cardinality(T \ {y}) = Cardinality(T) - 1
      BY FS_Subset, FS_CardinalityType, FS_RemoveElement
    <3>6. d(T \ {y}) \in 0..Cardinality(T \ {y})
      BY <2>2
    <3> HIDE DEF d
    <3>7. \A x \in {0, 1} : \A z \in 0..(Cardinality(T) - 1) : x + z \in 0..Cardinality(T)
      BY <3>5
    <3> QED BY <1>1, <3>4, <3>5, <3>6, <3>7
  <2> HIDE DEF W
  <2> QED BY <2>1, <2>2, SubsetInduction
<1>5. G1[S] = G1[C] + G1[S \ C] /\ G2[S] = G2[C] + G2[S \ C]
  <2>1. \A o \in S : part(value_sats, 1)[o] \in Int /\ part(value_sats, 2)[o] \in Int
    BY <1>1 DEF Column
  <2> HIDE DEF part
  <2> QED BY <1>2, <2>1, SumSplits
<1>6. S \in SUBSET S /\ C \in SUBSET S /\ S \ C \in SUBSET S
  OBVIOUS
<1>7. /\ Sum(ValueOf, S) = <<F1[S] + F2[S] \div Unit, F2[S] % Unit>>
      /\ Sum(value_sats, C) = <<G1[C] + G2[C] \div Unit, G2[C] % Unit>>
      /\ Sum(value_sats, S \ C) = <<G1[S \ C] + G2[S \ C] \div Unit, G2[S \ C] % Unit>>
  BY <1>3, <1>6, Zenon DEF Sum, ColumnSum
<1> DEFINE m == Sum(ValueOf, S)
           p == Sum(value_sats, S \ C)
           q == Sum(value_sats, C)
           total == Plus(p, q)
<1> DEFINE carried(b, s) == <<b + s \div Unit, s % Unit>>
<1>8. \A b, s \in Int : /\ carried(b, s)[1] \in Int /\ carried(b, s)[2] \in Int
                        /\ carried(b, s)[1] * Unit + carried(b, s)[2] = b * Unit + s
  <2> TAKE b \in Int, s \in Int
  <2>1. /\ b + (s \div Unit) \in Int /\ s % Unit \in Int
        /\ (b + (s \div Unit)) * Unit + (s % Unit) = b * Unit + s
    BY SMT DEF Unit
  <2>2. carried(b, s)[1] = b + (s \div Unit) /\ carried(b, s)[2] = s % Unit
    OBVIOUS
  <2> HIDE DEF carried
  <2> QED BY <2>1, <2>2, Zenon
<1>9. /\ m[1] \in Int /\ m[2] \in Int /\ p[1] \in Int /\ p[2] \in Int /\ q[1] \in Int /\ q[2] \in Int
      /\ m[1] * Unit + m[2] = F1[S] * Unit + F2[S]
      /\ p[1] * Unit + p[2] = G1[S \ C] * Unit + G2[S \ C]
      /\ q[1] * Unit + q[2] = G1[C] * Unit + G2[C]
  <2>1. m = carried(F1[S], F2[S]) /\ p = carried(G1[S \ C], G2[S \ C]) /\ q = carried(G1[C], G2[C])
    BY <1>7
  <2>2. /\ F1[S] \in Int /\ F2[S] \in Int /\ G1[S \ C] \in Int /\ G2[S \ C] \in Int
        /\ G1[C] \in Int /\ G2[C] \in Int
    BY <1>3, <1>6
  <2> HIDE DEF carried, m, p, q
  <2> QED BY <1>8, <2>1, <2>2, Zenon
<1> HIDE DEF m, p, q
<1>10. /\ total[1] \in Int /\ total[2] \in Int
       /\ total[1] * Unit + total[2] = (p[1] + q[1]) * Unit + (p[2] + q[2])
  <2>1. total = carried(p[1] + q[1], p[2] + q[2])
    BY DEF Plus
  <2>2. p[1] + q[1] \in Int /\ p[2] + q[2] \in Int
    BY <1>9
  <2> HIDE DEF carried, total
  <2> QED BY <1>8, <2>1, <2>2, Zenon
<1> HIDE DEF total
<1>11. (m[1] - total[1]) * Unit + (m[2] - total[2]) = d(S)
  <2>1. PICK m1 \in Int, m2 \in Int, t1 \in Int, t2 \in Int :
           m1 = m[1] /\ m2 = m[2] /\ t1 = total[1] /\ t2 = total[2]
    BY <1>9, <1>10, Zenon
  <2>2. PICK p1 \in Int, p2 \in Int, q1 \in Int, q2 \in Int :
           p1 = p[1] /\ p2 = p[2] /\ q1 = q[1] /\ q2 = q[2]
    BY <1>9, Zenon
  <2>3. PICK f1 \in Int, f2 \in Int, g1 \in Int, g2 \in Int, h1 \in Int, h2 \in Int :
           /\ f1 = F1[S] /\ f2 = F2[S] /\ g1 = G1[C] /\ g2 = G2[C]
           /\ h1 = G1[S \ C] /\ h2 = G2[S \ C]
    BY <1>3, <1>6, Zenon
  <2>4. /\ m1 * Unit + m2 = f1 * Unit + f2
        /\ t1 * Unit + t2 = (p1 + q1) * Unit + (p2 + q2)
        /\ p1 * Unit + p2 = h1 * Unit + h2
        /\ q1 * Unit + q2 = g1 * Unit + g2
    BY <1>9, <1>10, <2>1, <2>2, <2>3, Zenon
  <2>5. (m1 - t1) * Unit + (m2 - t2) = (f1 - (g1 + h1)) * Unit + (f2 - (g2 + h2))
    BY <2>4, SMT DEF Unit
  <2> QED BY <1>5, <2>1, <2>3, <2>5, Zenon
<1> HIDE DEF d
<1>12. d(S) \in 0..Cardinality(S)
  BY <1>4
<1> QED BY <1>11, <1>12, Zenon DEF Difference, m, total, p, q

(* A block creates finitely many outputs. *)
LEMMA FiniteOutputs ==
    ASSUME NEW b \in Block
    PROVE  IsFiniteSet({o \in OutPoint : Creator[o] \in TxsOf[b]})
<1> DEFINE outs == [t \in Tx |-> OutputsOf(t)]
           E == {outs[t] : t \in TxsOf[b]}
<1>1. IsFiniteSet(TxsOf[b]) /\ TxsOf[b] \subseteq Tx
  BY FinitenessAssumption, DataAssumption
<1>2. IsFiniteSet(E)
  <2> HIDE DEF outs
  <2> QED BY <1>1, FiniteImage
<1>3. \A T \in E : IsFiniteSet(T)
  BY <1>1, FinitenessAssumption
<1>4. {o \in OutPoint : Creator[o] \in TxsOf[b]} \in SUBSET (UNION E)
  BY <1>1 DEF OutputsOf
<1> HIDE DEF E
<1> QED BY <1>2, <1>3, <1>4, FS_UNION, FS_Subset

(* The rows of the table. *)
Rows == {o \in OutPoint : HasRow(utxo, o)}

(* The table and what a request has read of it are finite. *)
FiniteRows == IsFiniteSet(Rows) /\ IsFiniteSet(request.rows)

(* The poller and the queries keep the table and the requests finite. *)
LEMMA NextFiniteRows ==
    ASSUME ApiInv, FiniteRows, [ApiNext]_apiVars
    PROVE  FiniteRows'
<1>1. CASE UNCHANGED apiVars
  BY <1>1 DEF apiVars, vars, database, FiniteRows, Rows, HasRow
<1>2. CASE PollerStep
  <2>1. request' = request /\ [Next]_vars
    BY <1>2 DEF PollerStep
  <2>2. IsFiniteSet(Rows')
    <3>1. CASE UNCHANGED <<transaction, utxo>>
      BY <3>1 DEF FiniteRows, Rows, HasRow
    <3>2. CASE pc = "commit" /\ StoreBlock
      <4>1. /\ blockHash \in Block /\ utxo \in [OutPoint -> Row] /\ watchedScriptMap \in SUBSET Script
            /\ work = ParseBlockWithCache(blockHash, utxo, watchedScriptMap)
        BY <3>2 DEF ApiInv, IInv, LocalsInv, TypeOK
      <4>2. IsFiniteSet(work.new)
        BY <4>1, ParseResult, FiniteOutputs
      <4>3. \A o \in OutPoint : HasRow(utxo', o) => HasRow(utxo, o) \/ o \in work.new
        BY <3>2, <4>1, StoredBlock DEF StoreBlock
      <4>4. Rows' \in SUBSET (Rows \cup work.new)
        BY <4>3 DEF Rows
      <4> QED BY <4>2, <4>4, FS_Union, FS_Subset DEF FiniteRows
    <3> QED BY <2>1, <3>1, <3>2, PollerChanges
  <2> QED BY <2>1, <2>2 DEF FiniteRows
<1>3. CASE ApiStep
  <2>1. UNCHANGED utxo
    BY <1>3 DEF ApiStep, GetBalance, GetUTXOs, SumBalance, CalculateConfirmations,
                ConfirmationsUnread, GetTransactionHistory, vars, database
  <2>2. request \in Request
    BY DEF ApiInv, ApiTypeOK
  <2>3. request'.rows \subseteq Rows \/ request'.rows = request.rows
    <3>1. CASE \E a \in Address : GetBalance(a)
      BY <3>1 DEF GetBalance, NoRequest
    <3>2. CASE \E a \in Address : GetUTXOs(a)
      BY <3>2 DEF GetUTXOs, NoRequest, RowsOf, Rows
    <3>3. CASE \E a \in Address, n \in HistoryLimits : GetTransactionHistory(a, n)
      <4>1. request'.rows \in {request.rows, {}}
        BY <3>3 DEF GetTransactionHistory, NoRequest
      <4> QED BY <4>1
    <3>4. CASE SumBalance
      <4>1. PICK a : request'.rows = UnspentOf(a)
        BY <2>2, <3>4 DEF SumBalance, Request
      <4> QED BY <4>1 DEF UnspentOf, RowsOf, Rows
    <3>5. CASE \E o \in OutPoint : CalculateConfirmations(o) \/ ConfirmationsUnread(o)
      BY <2>2, <3>5 DEF CalculateConfirmations, ConfirmationsUnread, Answer, Request
    <3> QED BY <1>3, <3>1, <3>2, <3>3, <3>4, <3>5 DEF ApiStep
  <2>4. Rows' = Rows
    BY <2>1 DEF Rows, HasRow
  <2> QED BY <2>3, <2>4, FS_Subset DEF FiniteRows
<1> QED BY <1>1, <1>2, <1>3 DEF ApiNext

(* GET /balance never reports more than the outputs it adds up are worth,   *)
(* and at most one satoshi per output less, for every amount below 21       *)
(* million bitcoins, although parser.go stores int64(value * 100000000) of  *)
(* a value that the float64 cannot hold exactly.                            *)
THEOREM BalancesNearlyExact == ApiSpec => []BalanceNearlyExact
<1>1. ApiInit => FiniteRows
  <2> SUFFICES ASSUME ApiInit PROVE FiniteRows
    OBVIOUS
  <2>1. request.rows = {} /\ Rows = {}
    BY DEF ApiInit, Init, TablesEmpty, NoRequest, Rows, HasRow, NoRow
  <2> QED BY <2>1, FS_EmptySet DEF FiniteRows
<1>2. ApiInv /\ FiniteRows /\ [ApiNext]_apiVars => FiniteRows'
  BY NextFiniteRows
<1>3. ApiInv /\ FiniteRows => BalanceNearlyExact
  <2> SUFFICES ASSUME ApiInv, FiniteRows PROVE BalanceNearlyExact
    OBVIOUS
  <2>1. /\ request.rows \in SUBSET OutPoint /\ request.confirmed \in SUBSET request.rows
        /\ IsFiniteSet(request.rows)
    BY DEF ApiInv, ApiTypeOK, Request, FiniteRows
  <2>2. Difference(Sum(ValueOf, request.rows),
                   Plus(Sum(value_sats, request.rows \ request.confirmed),
                        Sum(value_sats, request.confirmed))) \in 0..Cardinality(request.rows)
    BY <2>1, BalanceOfRows
  <2> QED BY <2>2, Zenon DEF BalanceNearlyExact, Total, Pending, Confirmed
<1> QED BY ApiInvariance, <1>1, <1>2, <1>3, PTL DEF ApiSpec
=============================================================================
