-------------------------- MODULE IndexStoreProofs --------------------------
(***************************************************************************)
(* What the statements and the parser of IndexStore do, for every chain and *)
(* every content of the tables.  The theorems about the indexers cite these *)
(* lemmas instead of expanding the statements.                              *)
(***************************************************************************)
EXTENDS IndexStore, WellFoundedInduction, TLAPS

(* A non-empty set of natural numbers has a least element. *)
LEMMA LeastNatural ==
    ASSUME NEW K \in SUBSET Nat, K # {}
    PROVE  \E k \in K : \A j \in K : k <= j
<1>1. ASSUME NEW R, IsWellFoundedOn(R, Nat),
             \A i, n \in Nat : i < n => <<i, n>> \in R
      PROVE  \E k \in K : \A j \in K : k <= j
  <2>1. PICK k \in K : \A j \in K : ~(<<j, k>> \in R)
    BY IsWellFoundedOn(R, Nat), WFMin
  <2>2. ASSUME NEW j \in K
        PROVE  k <= j
    <3>1. ~(<<j, k>> \in R)
      BY <2>1
    <3>2. j < k => <<j, k>> \in R
      BY \A i, n \in Nat : i < n => <<i, n>> \in R
    <3>3. ~(j < k)
      BY <3>1, <3>2
    <3> QED BY <3>3
  <2> QED BY <2>2
<1>2. \A i, n \in Nat : i < n => <<i, n>> \in OpToRel(<, Nat)
  BY DEF OpToRel
<1> QED BY <1>1, <1>2, NatLessThanWellFounded

(* The first row of a non-empty batch is one of its rows. *)
LEMMA FirstOfBatch ==
    ASSUME NEW S \in SUBSET OutPoint, S # {}
    PROVE  FirstOf(S) \in S
<1> DEFINE K == {SortKey[p] : p \in S}
<1>1. K \in SUBSET Nat /\ K # {}
  BY DataAssumption
<1> HIDE DEF K
<1>2. PICK k \in K : \A j \in K : k <= j
  BY <1>1, LeastNatural
<1>3. PICK p \in S : SortKey[p] = k
  BY DEF K
<1>4. \A q \in S : SortKey[p] <= SortKey[q]
  BY <1>2, <1>3 DEF K
<1> QED BY <1>4 DEF FirstOf

(* An input of a block is spent by one of its transactions. *)
LEMMA SpenderInBlock ==
    ASSUME NEW b \in Block, NEW o \in InputsOf(b)
    PROVE  Spender(b, o) \in TxsOf[b] /\ o \in Vin[Spender(b, o)]
BY DEF InputsOf, Spender

(* Whatever row's transaction an UPDATE writes to spent_by_txid, it is a    *)
(* transaction of the block being stored.                                   *)
LEMMA BatchSpender ==
    ASSUME NEW b \in Block, NEW S \in SUBSET InputsOf(b), NEW o \in S
    PROVE  Spender(b, FirstOf(BatchOf(S, o))) \in TxsOf[b]
<1>1. InputsOf(b) \subseteq OutPoint
  BY DataAssumption DEF InputsOf
<1>2. BatchOf(S, o) \subseteq S /\ o \in BatchOf(S, o)
  BY DEF BatchOf
<1>3. FirstOf(BatchOf(S, o)) \in S
  BY <1>1, <1>2, FirstOfBatch
<1> QED BY <1>3, SpenderInBlock

(* Storing the transactions of b gives rows to exactly those of them that   *)
(* had none and changes no other row.                                       *)
LEMMA StoreTransactions ==
    ASSUME NEW tr \in [Tx -> Block \cup {NoBlock}], NEW b \in Block
    PROVE  LET tq == BatchStoreTransactions(tr, b) IN
           /\ tq \in [Tx -> Block \cup {NoBlock}]
           /\ \A t \in Tx : Stored(tr, t) => tq[t] = tr[t]
           /\ \A t \in Tx : ~Stored(tr, t) /\ t \in TxsOf[b] => tq[t] = b
           /\ \A t \in Tx : ~Stored(tr, t) /\ t \notin TxsOf[b] => tq[t] = NoBlock
BY DataAssumption DEF BatchStoreTransactions, Stored

(* The upsert and the update of one block: the rows that exist afterwards,  *)
(* and those that become spent.                                             *)
LEMMA StoreOutputs ==
    ASSUME NEW u \in [OutPoint -> Row], NEW b \in Block,
           NEW N \in SUBSET OutPoint, NEW S \in SUBSET InputsOf(b)
    PROVE  LET v == BulkMarkUTXOsSpent(BulkUpsertUTXOs(u, N, b), S, b) IN
           /\ v \in [OutPoint -> Row]
           /\ \A o \in OutPoint : HasRow(v, o) <=> HasRow(u, o) \/ o \in N
           /\ \A o \in OutPoint : v[o].status = "spent" =>
                 \/ o \in S /\ v[o].spentBy \in TxsOf[b]
                 \/ v[o] = u[o]
<1> DEFINE w == BulkUpsertUTXOs(u, N, b)
           v == BulkMarkUTXOsSpent(w, S, b)
<1>1. w \in [OutPoint -> Row]
  BY DEF BulkUpsertUTXOs, Row, Status
<1>2. \A o \in OutPoint : w[o] = IF o \in N
                                 THEN [u[o] EXCEPT !.status = "confirmed", !.block = b] ELSE u[o]
  BY DEF BulkUpsertUTXOs
<1>3. \A o \in OutPoint : /\ HasRow(w, o) <=> HasRow(u, o) \/ o \in N
                          /\ w[o].status = "spent" => w[o] = u[o]
  BY <1>2 DEF HasRow, Row
<1>4. \A o \in OutPoint :
        v[o] = IF o \in S /\ w[o].status # "none"
               THEN [w[o] EXCEPT !.status = "spent",
                                 !.spentBy = Spender(b, FirstOf(BatchOf(S, o)))]
               ELSE w[o]
  BY DEF BulkMarkUTXOsSpent
<1>5. \A o \in S : Spender(b, FirstOf(BatchOf(S, o))) \in TxsOf[b]
  BY BatchSpender
<1>6. \A o \in S : Spender(b, FirstOf(BatchOf(S, o))) \in Tx
  BY <1>5, DataAssumption
<1> HIDE DEF w
<1>7. v \in [OutPoint -> Row]
  <2>1. ASSUME NEW o \in OutPoint
        PROVE  v[o] \in Row
    <3> DEFINE sp == Spender(b, FirstOf(BatchOf(S, o)))
    <3>1. o \in S => sp \in Tx
      BY <1>6
    <3>2. v[o] = IF o \in S /\ w[o].status # "none"
                 THEN [w[o] EXCEPT !.status = "spent", !.spentBy = sp] ELSE w[o]
      BY <1>4
    <3> HIDE DEF v, sp
    <3> QED BY <1>1, <3>1, <3>2 DEF Row, Status
  <2>2. v = [o \in OutPoint |-> v[o]]
    BY DEF BulkMarkUTXOsSpent
  <2> HIDE DEF v
  <2> QED BY <2>1, <2>2
<1>8. \A o \in OutPoint : HasRow(v, o) <=> HasRow(w, o)
  BY <1>1, <1>4 DEF HasRow, Row
<1>9. \A o \in OutPoint : v[o].status = "spent" =>
        \/ o \in S /\ v[o].spentBy \in TxsOf[b]
        \/ v[o] = w[o]
  BY <1>1, <1>4, <1>5 DEF Row
<1> HIDE DEF v
<1>10. \A o \in OutPoint : v[o].status = "spent" =>
        \/ o \in S /\ v[o].spentBy \in TxsOf[b]
        \/ v[o] = u[o]
  BY <1>3, <1>9
<1> QED BY <1>3, <1>7, <1>8, <1>10 DEF w, v

(* The parser returns the outputs and some existing inputs of the block,    *)
(* and references of its transactions only.                                 *)
LEMMA ParseResult ==
    ASSUME NEW b \in Block, NEW u \in [OutPoint -> Row], NEW W \in SUBSET Script
    PROVE  LET k == ParseBlockWithCache(b, u, W) IN
           /\ k \in Work
           /\ k.new = {o \in OutPoint : Creator[o] \in TxsOf[b]}
           /\ k.spent \subseteq InputsOf(b)
           /\ \A r \in k.refs : r.key[1] \in TxsOf[b]
<1> DEFINE found == BatchGetUTXOs(u, InputsOf(b))
           refs == UNION {RefsOfTx(t, found, W) : t \in TxsOf[b]}
<1>1. InputsOf(b) \subseteq OutPoint /\ TxsOf[b] \subseteq Tx
  BY DataAssumption DEF InputsOf
<1>2. found \subseteq InputsOf(b)
  BY DEF BatchGetUTXOs
<1>3. ASSUME NEW t \in TxsOf[b], NEW r \in RefsOfTx(t, found, W)
      PROVE  r \in Ref /\ r.key[1] = t
  <2>1. \E o \in OutPoint, d \in Direction :
            r = [key |-> <<t, AddressOf[ScriptOf[o]], d>>, via |-> o]
    BY <1>1, <1>2, <1>3 DEF RefsOfTx, OutputsOf, Direction
  <2> QED BY <2>1, <1>1, DataAssumption DEF Ref, RefKey
<1> HIDE DEF found
<1>4. \A r \in refs : r \in Ref /\ r.key[1] \in TxsOf[b]
  BY <1>3
<1> HIDE DEF refs
<1>5. ParseBlockWithCache(b, u, W) =
        [new |-> {o \in OutPoint : Creator[o] \in TxsOf[b]}, spent |-> found, refs |-> refs]
  BY DEF ParseBlockWithCache, found, refs
<1> QED BY <1>1, <1>2, <1>4, <1>5 DEF Work

(* The parser builds a reference for every output of the block that pays a  *)
(* watched script and for every found input that paid one.                  *)
LEMMA ParseReferences ==
    ASSUME NEW b \in Block, NEW u \in [OutPoint -> Row], NEW W \in SUBSET Script,
           NEW o \in OutPoint, ScriptOf[o] \in W
    PROVE  LET k == ParseBlockWithCache(b, u, W)
               keys == {r.key : r \in k.refs} IN
           /\ Creator[o] \in TxsOf[b] => <<Creator[o], AddressOf[ScriptOf[o]], "in">> \in keys
           /\ o \in k.spent =>
                 \E t \in TxsOf[b] : o \in Vin[t] /\ <<t, AddressOf[ScriptOf[o]], "out">> \in keys
<1> DEFINE found == BatchGetUTXOs(u, InputsOf(b))
           k == ParseBlockWithCache(b, u, W)
           ref(t, d) == [key |-> <<t, AddressOf[ScriptOf[o]], d>>, via |-> o]
<1>1. /\ k.spent = found
      /\ k.refs = UNION {RefsOfTx(t, found, W) : t \in TxsOf[b]}
  BY DEF ParseBlockWithCache
<1>2. ASSUME Creator[o] \in TxsOf[b]
      PROVE  <<Creator[o], AddressOf[ScriptOf[o]], "in">> \in {r.key : r \in k.refs}
  <2>1. ref(Creator[o], "in") \in RefsOfTx(Creator[o], found, W)
    BY DEF RefsOfTx, OutputsOf
  <2>2. ref(Creator[o], "in") \in k.refs
    BY <1>1, <1>2, <2>1
  <2>3. ref(Creator[o], "in").key = <<Creator[o], AddressOf[ScriptOf[o]], "in">>
    OBVIOUS
  <2> HIDE DEF k
  <2> QED BY <2>2, <2>3
<1>3. ASSUME o \in k.spent
      PROVE  \E t \in TxsOf[b] : o \in Vin[t]
                /\ <<t, AddressOf[ScriptOf[o]], "out">> \in {r.key : r \in k.refs}
  <2>1. o \in found /\ o \in InputsOf(b)
    BY <1>1, <1>3 DEF BatchGetUTXOs
  <2>2. PICK t \in TxsOf[b] : o \in Vin[t]
    BY <2>1 DEF InputsOf
  <2>3. ref(t, "out") \in RefsOfTx(t, found, W)
    BY <2>1, <2>2 DEF RefsOfTx
  <2>4. ref(t, "out") \in k.refs
    BY <1>1, <2>3
  <2>5. ref(t, "out").key = <<t, AddressOf[ScriptOf[o]], "out">>
    OBVIOUS
  <2> HIDE DEF k
  <2> QED BY <2>2, <2>4, <2>5
<1> QED BY <1>2, <1>3

(* Storing block b keeps the tables atomic and makes b, and no other block, *)
(* indexed; it may have been indexed before.                                *)
LEMMA StoreKeepsAtomic ==
    ASSUME NEW tr \in [Tx -> Block \cup {NoBlock}], NEW u \in [OutPoint -> Row],
           NEW b \in Block, NEW S \in SUBSET InputsOf(b),
           NEW N, N = {o \in OutPoint : Creator[o] \in TxsOf[b]},
           TablesAtomic(tr, u), RowsNameHolder(tr)
    PROVE  LET tq == BatchStoreTransactions(tr, b)
               v == BulkMarkUTXOsSpent(BulkUpsertUTXOs(u, N, b), S, b) IN
           /\ TablesAtomic(tq, v)
           /\ RowsNameHolder(tq)
           /\ \A a \in Block : Indexed(tq, a) <=> Indexed(tr, a) \/ a = b
<1> DEFINE tq == BatchStoreTransactions(tr, b)
           v == BulkMarkUTXOsSpent(BulkUpsertUTXOs(u, N, b), S, b)
<1>1. /\ tq \in [Tx -> Block \cup {NoBlock}]
      /\ \A t \in Tx : Stored(tr, t) => tq[t] = tr[t]
      /\ \A t \in Tx : ~Stored(tr, t) /\ t \in TxsOf[b] => tq[t] = b
      /\ \A t \in Tx : ~Stored(tr, t) /\ t \notin TxsOf[b] => tq[t] = NoBlock
  BY StoreTransactions
<1>2. \A o \in OutPoint : HasRow(v, o) <=> HasRow(u, o) \/ o \in N
  <2>1. N \in SUBSET OutPoint
    OBVIOUS
  <2> QED BY <2>1, StoreOutputs
<1> HIDE DEF tq, v
<1>3. RowsNameHolder(tq)
  BY <1>1, DataAssumption DEF RowsNameHolder, Stored
<1>4. tq[Coinbase[b]] = b
  <2>1. Coinbase[b] \in Tx /\ Coinbase[b] \in TxsOf[b]
    BY DataAssumption, CoinbaseAssumption
  <2>2. CASE Stored(tr, Coinbase[b])
    <3>1. tr[Coinbase[b]] \in Block /\ Coinbase[b] \in TxsOf[tr[Coinbase[b]]]
      BY <2>1, <2>2 DEF RowsNameHolder, Stored
    <3> QED BY <1>1, <2>1, <2>2, <3>1, CoinbaseAssumption
  <2>3. CASE ~Stored(tr, Coinbase[b])
    BY <1>1, <2>1, <2>3
  <2> QED BY <2>2, <2>3
<1>5. ASSUME NEW a \in Block
      PROVE  Indexed(tq, a) <=> Indexed(tr, a) \/ a = b
  <2>1. Coinbase[a] \in Tx /\ a # NoBlock
    BY DataAssumption
  <2>2. CASE Stored(tr, Coinbase[a])
    BY <1>1, <1>4, <2>1, <2>2 DEF Indexed
  <2>3. CASE ~Stored(tr, Coinbase[a])
    BY <1>1, <1>4, <2>1, <2>3 DEF Indexed, Stored
  <2> QED BY <2>2, <2>3
<1>6. \A t \in Tx : Stored(tq, t) => Indexed(tq, tq[t])
  <2> TAKE t \in Tx
  <2>1. CASE Stored(tr, t)
    BY <1>1, <1>5, <2>1 DEF TablesAtomic, Stored
  <2>2. CASE ~Stored(tr, t)
    BY <1>1, <1>4, <2>2 DEF Indexed, Stored
  <2> QED BY <2>1, <2>2
<1>7. \A a \in Block : Indexed(tq, a) => \A t \in TxsOf[a] : Stored(tq, t)
  <2> SUFFICES ASSUME NEW a \in Block, Indexed(tq, a), NEW t \in TxsOf[a]
               PROVE  Stored(tq, t)
    OBVIOUS
  <2>1. t \in Tx /\ b # NoBlock
    BY DataAssumption
  <2>2. Stored(tr, t) \/ t \in TxsOf[b]
    BY <1>5 DEF TablesAtomic
  <2> QED BY <1>1, <2>1, <2>2 DEF Stored
<1>8. \A o \in OutPoint : HasRow(v, o) <=> Stored(tq, Creator[o])
  <2> TAKE o \in OutPoint
  <2>1. Creator[o] \in Tx /\ b # NoBlock
    BY DataAssumption
  <2>2. Stored(tq, Creator[o]) <=> Stored(tr, Creator[o]) \/ Creator[o] \in TxsOf[b]
    BY <1>1, <2>1 DEF Stored
  <2>3. HasRow(u, o) <=> Stored(tr, Creator[o])
    BY DEF TablesAtomic
  <2> QED BY <1>2, <2>2, <2>3
<1> QED BY <1>3, <1>5, <1>6, <1>7, <1>8 DEF TablesAtomic, tq, v

(* Storing block b keeps every spent mark backed by a stored transaction.   *)
LEMMA StoreKeepsEvidence ==
    ASSUME NEW tr \in [Tx -> Block \cup {NoBlock}], NEW u \in [OutPoint -> Row],
           NEW b \in Block, NEW S \in SUBSET InputsOf(b), NEW N \in SUBSET OutPoint,
           SpendsEvidenced(tr, u)
    PROVE  SpendsEvidenced(BatchStoreTransactions(tr, b),
                           BulkMarkUTXOsSpent(BulkUpsertUTXOs(u, N, b), S, b))
<1> DEFINE tq == BatchStoreTransactions(tr, b)
           v == BulkMarkUTXOsSpent(BulkUpsertUTXOs(u, N, b), S, b)
<1>1. \A t \in Tx : Stored(tq, t) <=> Stored(tr, t) \/ t \in TxsOf[b]
  BY StoreTransactions, DataAssumption DEF Stored
<1>2. \A o \in OutPoint : v[o].status = "spent" =>
         \/ o \in S /\ v[o].spentBy \in TxsOf[b]
         \/ v[o] = u[o]
  BY StoreOutputs
<1> HIDE DEF tq, v
<1>3. SUFFICES ASSUME NEW o \in OutPoint, v[o].status = "spent"
               PROVE  /\ \E t \in Tx : Stored(tq, t) /\ o \in Vin[t]
                      /\ v[o].spentBy \in Tx /\ Stored(tq, v[o].spentBy)
  BY DEF SpendsEvidenced, tq, v
<1>4. TxsOf[b] \subseteq Tx
  BY DataAssumption
<1>5. CASE o \in S /\ v[o].spentBy \in TxsOf[b]
  <2>1. Spender(b, o) \in TxsOf[b] /\ o \in Vin[Spender(b, o)]
    BY <1>5, SpenderInBlock
  <2> QED BY <1>1, <1>4, <1>5, <2>1
<1>6. CASE v[o] = u[o]
  BY <1>1, <1>3, <1>6 DEF SpendsEvidenced
<1> QED BY <1>2, <1>3, <1>5, <1>6
-----------------------------------------------------------------------------
(* What a reader of the tables sees, in the terms of module Archive. *)

(* The row of an output, u before and v after a step about block b: it is   *)
(* what it was, or what the block makes of it.                              *)
OutputRecorded(u, v, b, o) ==
    \/ v[o].status = u[o].status
    \/ v[o].status = "confirmed" /\ Creator[o] \in TxsOf[b]
    \/ v[o].status = "spent" /\ o \in InputsOf(b) /\ (HasRow(u, o) \/ Creator[o] \in TxsOf[b])

(* The three states that the rows of the outputs can show. *)
LEMMA StatesOfRows ==
    ASSUME NEW u \in [OutPoint -> Row]
    PROVE  /\ OutputStates(u) \in [OutPoint -> {"none", "unspent", "spent"}]
           /\ \A o \in OutPoint :
                 /\ OutputStates(u)[o] = IF u[o].status \in {"confirmed", "mempool"}
                                         THEN "unspent" ELSE u[o].status
                 /\ OutputStates(u)[o] = "none" <=> ~HasRow(u, o)
<1>1. \A o \in OutPoint : u[o].status \in {"none", "mempool", "confirmed", "spent"}
  BY DEF Row, Status
<1> QED BY <1>1 DEF OutputStates, Spendable, HasRow

(* Rows that a step about block b leaves or changes as the block says show  *)
(* an output as the archive's step about b does.                            *)
LEMMA StatesRecorded ==
    ASSUME NEW u \in [OutPoint -> Row], NEW v \in [OutPoint -> Row], NEW b \in Block,
           NEW o \in OutPoint, OutputRecorded(u, v, b, o)
    PROVE  \/ OutputStates(v)[o] = OutputStates(u)[o]
           \/ OutputStates(v)[o] = "unspent" /\ Creator[o] \in TxsOf[b]
           \/ /\ OutputStates(v)[o] = "spent" /\ \E t \in TxsOf[b] : o \in Vin[t]
              /\ OutputStates(u)[o] # "none" \/ Creator[o] \in TxsOf[b]
<1>1. /\ OutputStates(u)[o] = IF u[o].status \in {"confirmed", "mempool"}
                              THEN "unspent" ELSE u[o].status
      /\ OutputStates(v)[o] = IF v[o].status \in {"confirmed", "mempool"}
                              THEN "unspent" ELSE v[o].status
      /\ OutputStates(u)[o] = "none" <=> ~HasRow(u, o)
  BY StatesOfRows
<1>2. CASE v[o].status = u[o].status
  BY <1>1, <1>2
<1>3. CASE v[o].status = "confirmed" /\ Creator[o] \in TxsOf[b]
  BY <1>1, <1>3
<1>4. CASE v[o].status = "spent" /\ o \in InputsOf(b) /\ (HasRow(u, o) \/ Creator[o] \in TxsOf[b])
  <2>1. \E t \in TxsOf[b] : o \in Vin[t]
    BY <1>4 DEF InputsOf
  <2> QED BY <1>1, <1>4, <2>1
<1> QED BY <1>2, <1>3, <1>4 DEF OutputRecorded

(* The upsert of outputs the block creates and the update of outputs it     *)
(* spends leave and change the rows as the block says.                      *)
LEMMA StoreRecords ==
    ASSUME NEW u \in [OutPoint -> Row], NEW b \in Block, NEW S \in SUBSET InputsOf(b),
           NEW N \in SUBSET OutPoint, \A o \in N : Creator[o] \in TxsOf[b],
           NEW o \in OutPoint
    PROVE  OutputRecorded(u, BulkMarkUTXOsSpent(BulkUpsertUTXOs(u, N, b), S, b), b, o)
<1> DEFINE w == BulkUpsertUTXOs(u, N, b)
           v == BulkMarkUTXOsSpent(w, S, b)
<1>1. u[o] \in Row
  OBVIOUS
<1>2. w[o] = IF o \in N THEN [u[o] EXCEPT !.status = "confirmed", !.block = b] ELSE u[o]
  BY DEF BulkUpsertUTXOs
<1>3. w[o].status = IF o \in N THEN "confirmed" ELSE u[o].status
  BY <1>1, <1>2 DEF Row
<1>4. w[o] \in [status : {w[o].status}, block : Block \cup {NoBlock}, spentBy : Tx \cup {NoTx}]
  BY <1>1, <1>2 DEF Row
<1>5. v[o] = IF o \in S /\ w[o].status # "none"
             THEN [w[o] EXCEPT !.status = "spent", !.spentBy = Spender(b, FirstOf(BatchOf(S, o)))]
             ELSE w[o]
  BY DEF BulkMarkUTXOsSpent
<1> HIDE DEF w, v
<1>6. v[o].status = IF o \in S /\ w[o].status # "none" THEN "spent" ELSE w[o].status
  <2>1. CASE o \in S /\ w[o].status # "none"
    BY <1>4, <1>5, <2>1
  <2>2. CASE ~(o \in S /\ w[o].status # "none")
    BY <1>5, <2>2
  <2> QED BY <2>1, <2>2
<1>7. OutputRecorded(u, v, b, o)
  BY <1>3, <1>6 DEF OutputRecorded, HasRow
<1> QED BY <1>7 DEF w, v

(* The transactions of a block are stored next to those that were there. *)
LEMMA StoredGrows ==
    ASSUME NEW tr \in [Tx -> Block \cup {NoBlock}], NEW b \in Block
    PROVE  StoredTxs(BatchStoreTransactions(tr, b)) = StoredTxs(tr) \cup TxsOf[b]
<1> DEFINE tq == BatchStoreTransactions(tr, b)
<1>1. \A t \in Tx : Stored(tq, t) <=> Stored(tr, t) \/ t \in TxsOf[b]
  BY StoreTransactions, DataAssumption DEF Stored
<1>2. TxsOf[b] \subseteq Tx
  BY DataAssumption
<1> HIDE DEF tq
<1>3. StoredTxs(tq) = StoredTxs(tr) \cup TxsOf[b]
  BY <1>1, <1>2 DEF StoredTxs
<1> QED BY <1>3 DEF tq

(* Empty tables: nothing is stored and no output is there. *)
LEMMA EmptyTablesShow ==
    ASSUME NEW tr, NEW u, NEW r, TablesEmpty(tr, u, r)
    PROVE  StoredTxs(tr) = {} /\ OutputStates(u) = [o \in OutPoint |-> "none"]
BY DEF TablesEmpty, StoredTxs, Stored, OutputStates, NoRow, Spendable
=============================================================================
