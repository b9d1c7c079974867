---------------------------- MODULE CSharpProofs ----------------------------
(***************************************************************************)
(* The C# indexer with any number of instances of the service, on every     *)
(* chain tree and with any number of failures and crashes.                  *)
(***************************************************************************)
EXTENDS CSharpIndexer, IndexStoreProofs

(* The entities of a DbContext, and an instance, as sets of records. *)
TrackedSet == [inserts : SUBSET OutPoint, updates : UNION {[D -> Row] : D \in SUBSET OutPoint},
               refs : SUBSET Ref, metas : SUBSET Address]
InstState == [at : Working \cup {"off", "idle"}, polls : BOOLEAN, disposed : BOOLEAN,
              height : Nat, last : Nat, block : Block \cup {NoBlock}, tracked : TrackedSet]

(* What a block has prepared is about the block itself: it inserts outputs  *)
(* it creates, and it updates rows that are there (u), to spent where it    *)
(* spends them and to confirmed where it creates them.                      *)
UpdatesOwn(u, b, w) ==
    /\ \A o \in w.inserts : Creator[o] \in TxsOf[b]
    /\ \A o \in DOMAIN w.updates :
          /\ HasRow(u, o)
          /\ \/ /\ w.updates[o].status = "spent"
                /\ w.updates[o].spentBy \in TxsOf[b] /\ w.updates[o].spentBy \in Tx
                /\ o \in Vin[w.updates[o].spentBy]
             \/ w.updates[o].status = "confirmed" /\ Creator[o] \in TxsOf[b]

(* What an instance relies on: its block has the height it is working at,   *)
(* and before it writes the progress the block is saved.                    *)
InstOK(s) ==
    /\ s.height <= s.last /\ s.last <= Len(active)
    /\ s.at \in {"build", "save", "progress"} => s.block \in Block /\ HeightOf[s.block] = s.height
    /\ s.at = "save" => UpdatesOwn(utxo, s.block, s.tracked)
    /\ s.at = "progress" => block_info[s.height] = s.block

TablesType ==
    /\ active \in Chains
    /\ transaction \in [Tx -> Block \cup {NoBlock}]
    /\ utxo \in [OutPoint -> Row]
    /\ tx_reference \subseteq RefKey
    /\ block_info \in [Height -> Block \cup {NoBlock}]
    /\ address_metadata \subseteq Address
    /\ index_progress \in [height : Height \cup {-1}, hash : Block \cup {NoBlock}]
    /\ faults \in 0..MaxFaults

InstInv ==
    /\ inst \in [Instance -> InstState]
    /\ \A i \in Instance : InstOK(inst[i])

(* The progress row names a block, once it is there. *)
ProgressInv == ProgressBacked /\ (index_progress.height >= 0 => index_progress.hash \in Block)

CInv == TablesType /\ InstInv /\ BlockInfoMatches /\ ProgressInv /\ SpentByStoredSpender

(* The entities of a DbContext are what TypeOK says they are. *)
LEMMA TrackedType ==
    ASSUME NEW w \in TrackedSet
    PROVE  Tracked(w)
<1>1. /\ w.inserts \subseteq OutPoint /\ w.refs \subseteq Ref /\ w.metas \subseteq Address
      /\ w.updates \in UNION {[D -> Row] : D \in SUBSET OutPoint}
  BY DEF TrackedSet
<1>2. PICK D \in SUBSET OutPoint : w.updates \in [D -> Row]
  BY <1>1
<1> QED BY <1>1, <1>2 DEF Tracked

(* An instance that is off, and one that has just been started. *)
LEMMA OffState ==
    /\ Nothing \in TrackedSet
    /\ Off \in InstState /\ Off.at = "off" /\ Off.height = 0 /\ Off.last = 0
<1>1. << >> \in [{} -> Row]
  OBVIOUS
<1>2. << >> \in UNION {[D -> Row] : D \in SUBSET OutPoint}
  BY <1>1
<1>3. Nothing \in TrackedSet
  BY <1>2 DEF Nothing, TrackedSet
<1>4. PICK n \in TrackedSet : n = Nothing
  BY <1>3
<1>5. Off = [at |-> "off", polls |-> FALSE, disposed |-> FALSE,
             height |-> 0, last |-> 0, block |-> NoBlock, tracked |-> n]
  BY <1>4 DEF Off
<1> QED BY <1>3, <1>5 DEF InstState

(* Heights of blocks, and of the blocks of a chain. *)
LEMMA HeightFacts ==
    /\ \A b \in Block : HeightOf[b] \in Height /\ HeightOf[b] \in Nat
    /\ Height \subseteq Nat
    /\ \A c \in Chains : Len(c) \in Nat
    /\ \A c \in Chains : \A h \in 0..Len(c) : BlockAt(c, h) \in Block /\ HeightOf[BlockAt(c, h)] = h
<1>1. \A b \in Block : HeightOf[b] \in Nat
  BY DataAssumption
<1>2. ASSUME NEW c \in Chains
      PROVE  /\ Len(c) \in Nat
             /\ \A h \in 0..Len(c) : BlockAt(c, h) \in Block /\ HeightOf[BlockAt(c, h)] = h
  <2>1. c \in Seq(Block)
    BY ChainsAssumption
  <2>2. Len(c) \in Nat /\ c \in [1..Len(c) -> Block]
    BY <2>1
  <2>3. ASSUME NEW h \in 0..Len(c)
        PROVE  BlockAt(c, h) \in Block /\ HeightOf[BlockAt(c, h)] = h
    <3>1. CASE h = 0
      BY <3>1, DataAssumption DEF BlockAt
    <3>2. CASE h # 0
      <4>1. h \in 1..Len(c)
        BY <2>2, <3>2
      <4> QED BY <2>2, <3>2, <4>1, ChainsAssumption DEF BlockAt
    <3> QED BY <3>1, <3>2
  <2> QED BY <2>2, <2>3
<1> QED BY <1>1, <1>2 DEF Height

(* An instance moves on, the others stay. *)
LEMMA InstUpdate ==
    ASSUME InstInv, NEW i \in Instance, NEW s \in InstState, inst' = [inst EXCEPT ![i] = s]
    PROVE  /\ inst' \in [Instance -> InstState]
           /\ inst'[i] = s
           /\ \A j \in Instance : j # i => inst'[j] = inst[j]
BY DEF InstInv

(* What is tracked for a block: rows as they were read, changed for it.     *)
LEMMA TrackOK ==
    ASSUME TablesType, NEW b \in Block, NEW I \in SUBSET InputsOf(b),
           NEW O \in SUBSET Outputs(b), NEW W \in SUBSET OutPoint, NEW M \in SUBSET OutPoint
    PROVE  Track(b, I, O, W, M) \in TrackedSet /\ UpdatesOwn(utxo, b, Track(b, I, O, W, M))
<1> DEFINE D == {p \in I \cup O : HasRow(utxo, p)}
           U == [o \in D |->
                    IF o \in I THEN [utxo[o] EXCEPT !.status = "spent", !.spentBy = Spender(b, o)]
                    ELSE [utxo[o] EXCEPT !.status = "confirmed", !.block = b]]
           R == {[key |-> <<Creator[o], AddressOf[ScriptOf[o]], "in">>, via |-> o] : o \in W}
           A == {AddressOf[ScriptOf[o]] : o \in M} \ address_metadata
           N == {o \in O : ~HasRow(utxo, o)}
<1>1. InputsOf(b) \subseteq OutPoint /\ TxsOf[b] \subseteq Tx
  BY DataAssumption DEF InputsOf
<1>2. /\ D \in SUBSET OutPoint /\ N \in SUBSET OutPoint
      /\ \A o \in N : Creator[o] \in TxsOf[b]
      /\ \A o \in D : HasRow(utxo, o) /\ (o \in I \/ Creator[o] \in TxsOf[b])
  BY <1>1 DEF Outputs
<1>3. ASSUME NEW o \in D
      PROVE  /\ U[o] \in Row
             /\ \/ /\ U[o].status = "spent"
                   /\ U[o].spentBy \in TxsOf[b] /\ U[o].spentBy \in Tx /\ o \in Vin[U[o].spentBy]
                \/ U[o].status = "confirmed" /\ Creator[o] \in TxsOf[b]
  <2>1. utxo[o] \in Row
    BY <1>2 DEF TablesType
  <2>2. CASE o \in I
    <3>1. PICK t \in Tx : t = Spender(b, o) /\ t \in TxsOf[b] /\ o \in Vin[t]
      BY <1>1, <2>2, SpenderInBlock
    <3>2. U[o] = [utxo[o] EXCEPT !.status = "spent", !.spentBy = t]
      BY <2>2, <3>1
    <3> QED BY <2>1, <3>1, <3>2 DEF Row, Status
  <2>3. CASE o \notin I
    <3>1. U[o] = [utxo[o] EXCEPT !.status = "confirmed", !.block = b]
      BY <2>3
    <3>2. Creator[o] \in TxsOf[b]
      BY <1>2, <2>3
    <3> QED BY <2>1, <3>1, <3>2 DEF Row, Status
  <2> QED BY <2>2, <2>3
<1>4. U \in UNION {[E -> Row] : E \in SUBSET OutPoint} /\ DOMAIN U = D
  <2>1. U \in [D -> Row]
    BY <1>3
  <2> HIDE DEF U
  <2>2. DOMAIN U = D
    BY <2>1
  <2> QED BY <1>2, <2>1, <2>2
<1>5. R \subseteq Ref
  <2>1. ASSUME NEW o \in W
        PROVE  [key |-> <<Creator[o], AddressOf[ScriptOf[o]], "in">>, via |-> o] \in Ref
    <3>1. Creator[o] \in Tx /\ AddressOf[ScriptOf[o]] \in Address
      BY DataAssumption
    <3>2. <<Creator[o], AddressOf[ScriptOf[o]], "in">> \in RefKey
      BY <3>1 DEF RefKey, Direction
    <3> QED BY <3>2 DEF Ref
  <2> QED BY <2>1
<1>6. A \subseteq Address
  BY DataAssumption
<1>7. Track(b, I, O, W, M) = [inserts |-> N, updates |-> U, refs |-> R, metas |-> A]
  BY DEF Track
<1> HIDE DEF D, U, R, A, N
<1>8. Track(b, I, O, W, M) \in TrackedSet
  BY <1>2, <1>4, <1>5, <1>6, <1>7 DEF TrackedSet
<1>9. Track(b, I, O, W, M).updates = U /\ Track(b, I, O, W, M).inserts = N
  BY <1>7
<1> QED BY <1>2, <1>3, <1>4, <1>8, <1>9 DEF UpdatesOwn

(* What has been saved stays: the step of SavedStays, and the rows. *)
Kept ==
    /\ \A h \in Height : block_info[h] # NoBlock => block_info'[h] = block_info[h]
    /\ \A t \in Tx : Stored(transaction, t) => transaction'[t] = transaction[t]
    /\ \A o \in OutPoint : HasRow(utxo, o) => HasRow(utxo', o)

(* SaveChangesAsync without a conflict. *)
LEMMA SaveKeeps ==
    ASSUME TablesType, BlockInfoMatches, SpentByStoredSpender, ProgressInv,
           NEW b \in Block, NEW w \in TrackedSet, UpdatesOwn(utxo, b, w),
           ~Conflict(b, w), SaveChanges(b, w),
           UNCHANGED <<active, index_progress>>, faults' \in 0..MaxFaults
    PROVE  /\ TablesType' /\ BlockInfoMatches' /\ SpentByStoredSpender' /\ ProgressInv'
           /\ Kept /\ block_info'[HeightOf[b]] = b
<1>1. /\ transaction \in [Tx -> Block \cup {NoBlock}] /\ utxo \in [OutPoint -> Row]
      /\ block_info \in [Height -> Block \cup {NoBlock}] /\ TxsOf[b] \subseteq Tx
      /\ HeightOf[b] \in Height /\ NoBlock \notin Block
  BY HeightFacts, DataAssumption DEF TablesType
<1>2. /\ block_info[HeightOf[b]] = NoBlock
      /\ \A t \in TxsOf[b] : ~Stored(transaction, t)
  BY DEF Conflict
<1>3. block_info' = [block_info EXCEPT ![HeightOf[b]] = b]
  BY DEF SaveChanges
<1>4. transaction' = [t \in Tx |-> IF t \in TxsOf[b] THEN b ELSE transaction[t]]
  BY DEF SaveChanges
<1>5. utxo' = [o \in OutPoint |->
                  IF o \in w.inserts THEN [status |-> "confirmed", block |-> b, spentBy |-> NoTx]
                  ELSE IF o \in DOMAIN w.updates THEN w.updates[o] ELSE utxo[o]]
  BY DEF SaveChanges
<1>6. Tracked(w)
  BY TrackedType
<1>7. /\ \A t \in Tx : transaction'[t] = IF t \in TxsOf[b] THEN b ELSE transaction[t]
      /\ \A h \in Height : block_info'[h] = IF h = HeightOf[b] THEN b ELSE block_info[h]
  BY <1>1, <1>3, <1>4
<1>8. Kept
  <2>1. ASSUME NEW o \in OutPoint, HasRow(utxo, o)
        PROVE  HasRow(utxo', o)
    <3>1. CASE o \in w.inserts
      BY <1>5, <3>1 DEF HasRow
    <3>2. CASE o \notin w.inserts /\ o \in DOMAIN w.updates
      <4>1. utxo'[o] = w.updates[o] /\ w.updates[o].status \in {"spent", "confirmed"}
        BY <1>5, <3>2 DEF UpdatesOwn
      <4> QED BY <4>1 DEF HasRow
    <3>3. CASE o \notin w.inserts /\ o \notin DOMAIN w.updates
      BY <1>5, <2>1, <3>3 DEF HasRow
    <3> QED BY <3>1, <3>2, <3>3
  <2> QED BY <1>1, <1>2, <1>7, <2>1 DEF Kept
<1>9. TablesType'
  <2>1. transaction' \in [Tx -> Block \cup {NoBlock}] /\ block_info' \in [Height -> Block \cup {NoBlock}]
    BY <1>1, <1>3, <1>4
  <2>2. ASSUME NEW o \in OutPoint
        PROVE  utxo'[o] \in Row
    <3>1. CASE o \in w.inserts
      BY <1>5, <3>1 DEF Row, Status
    <3>2. CASE o \notin w.inserts
      BY <1>1, <1>5, <1>6, <3>2 DEF Tracked
    <3> QED BY <3>1, <3>2
  <2>3. utxo' \in [OutPoint -> Row]
    <3>1. utxo' = [o \in OutPoint |-> utxo'[o]]
      BY <1>5
    <3> QED BY <2>2, <3>1
  <2>4. tx_reference' \subseteq RefKey /\ address_metadata' \subseteq Address
    BY <1>6 DEF SaveChanges, TablesType, Tracked, Ref
  <2> QED BY <2>1, <2>3, <2>4 DEF TablesType
<1>10. BlockInfoMatches'
  <2>1. ASSUME NEW h \in Height, block_info'[h] # NoBlock, NEW t \in TxsOf[block_info'[h]]
        PROVE  transaction'[t] = block_info'[h]
    <3>1. CASE h = HeightOf[b]
      BY <1>1, <1>7, <2>1, <3>1
    <3>2. CASE h # HeightOf[b]
      <4>1. block_info'[h] = block_info[h] /\ block_info[h] \in Block
        BY <1>1, <1>7, <2>1, <3>2
      <4>2. t \in Tx /\ transaction[t] = block_info[h]
        BY <2>1, <4>1, DataAssumption DEF BlockInfoMatches
      <4>3. Stored(transaction, t)
        BY <1>1, <4>1, <4>2 DEF Stored
      <4> QED BY <1>8, <4>1, <4>2, <4>3 DEF Kept
    <3> QED BY <3>1, <3>2
  <2>2. ASSUME NEW t \in Tx, Stored(transaction', t)
        PROVE  block_info'[HeightOf[transaction'[t]]] = transaction'[t]
    <3>1. CASE t \in TxsOf[b]
      BY <1>1, <1>7, <3>1
    <3>2. CASE t \notin TxsOf[b]
      <4>1. transaction'[t] = transaction[t] /\ Stored(transaction, t)
        BY <1>7, <2>2, <3>2 DEF Stored
      <4>2. transaction[t] \in Block /\ HeightOf[transaction[t]] \in Height
        BY <1>1, <4>1, HeightFacts DEF Stored
      <4>3. block_info[HeightOf[transaction[t]]] = transaction[t]
        BY <4>1 DEF BlockInfoMatches
      <4> QED BY <1>1, <1>8, <4>1, <4>2, <4>3 DEF Kept
    <3> QED BY <3>1, <3>2
  <2> QED BY <2>1, <2>2 DEF BlockInfoMatches
<1>11. SpentByStoredSpender'
  <2>1. ASSUME NEW o \in OutPoint, utxo'[o].status = "spent"
        PROVE  /\ utxo'[o].spentBy \in Tx /\ o \in Vin[utxo'[o].spentBy]
               /\ Stored(transaction', utxo'[o].spentBy)
    <3>1. o \notin w.inserts
      BY <1>5, <2>1
    <3>2. CASE o \in DOMAIN w.updates
      <4>1. utxo'[o] = w.updates[o]
        BY <1>5, <3>1, <3>2
      <4>2. /\ utxo'[o].spentBy \in TxsOf[b] /\ utxo'[o].spentBy \in Tx
            /\ o \in Vin[utxo'[o].spentBy]
        BY <2>1, <3>2, <4>1 DEF UpdatesOwn
      <4> QED BY <1>1, <1>7, <4>2 DEF Stored
    <3>3. CASE o \notin DOMAIN w.updates
      <4>1. utxo'[o] = utxo[o]
        BY <1>5, <3>1, <3>3
      <4> QED BY <1>8, <2>1, <4>1 DEF SpentByStoredSpender, Stored, Kept
    <3> QED BY <3>2, <3>3
  <2> QED BY <2>1 DEF SpentByStoredSpender
<1>12. ProgressInv'
  <2>1. ASSUME index_progress.height >= 0
        PROVE  block_info'[index_progress.height] = index_progress.hash
    <3>1. index_progress.height \in Height
      BY <2>1, HeightFacts DEF TablesType
    <3>2. block_info[index_progress.height] = index_progress.hash
      BY <2>1 DEF ProgressInv, ProgressBacked
    <3>3. index_progress.hash # NoBlock
      BY <1>1, <2>1 DEF ProgressInv
    <3> QED BY <1>8, <3>1, <3>2, <3>3 DEF Kept
  <2> QED BY <2>1 DEF ProgressInv, ProgressBacked
<1> QED BY <1>1, <1>7, <1>8, <1>9, <1>10, <1>11, <1>12

(* What another instance saves does not undo what an instance relies on. *)
LEMMA OtherInstOK ==
    ASSUME TablesType, NEW s \in InstState, InstOK(s), Kept, TablesType', Len(active) <= Len(active')
    PROVE  InstOK(s)'
<1>1. Len(active) \in Nat /\ Len(active') \in Nat /\ s.last \in Nat /\ NoBlock \notin Block
  BY HeightFacts, DataAssumption DEF TablesType, InstState
<1>2. s.height <= s.last /\ s.last <= Len(active')
  BY <1>1 DEF InstOK
<1>3. s.at \in {"build", "save", "progress"} => s.block \in Block /\ HeightOf[s.block] = s.height
  BY DEF InstOK
<1>4. s.at = "save" => UpdatesOwn(utxo', s.block, s.tracked)
  <2>1. SUFFICES ASSUME s.at = "save" PROVE UpdatesOwn(utxo', s.block, s.tracked)
    OBVIOUS
  <2>2. PICK w \in TrackedSet : w = s.tracked
    BY DEF InstState
  <2>3. UpdatesOwn(utxo, s.block, w)
    BY <2>1, <2>2 DEF InstOK
  <2>4. \A o \in DOMAIN w.updates : o \in OutPoint
    BY TrackedType DEF Tracked
  <2>5. UpdatesOwn(utxo', s.block, w)
    BY <2>3, <2>4 DEF UpdatesOwn, Kept
  <2> QED BY <2>2, <2>5
<1>5. s.at = "progress" => block_info'[s.height] = s.block
  <2>1. s.at = "progress" => s.height \in Height /\ s.block # NoBlock
    BY <1>1, <1>3, HeightFacts
  <2> QED BY <2>1 DEF InstOK, Kept
<1> QED BY <1>2, <1>3, <1>4, <1>5 DEF InstOK

(* A step in which at most instance i moves. *)
LEMMA InstStep ==
    ASSUME TablesType, InstInv, Kept, TablesType', Len(active) <= Len(active'),
           NEW i \in Instance, NEW s \in InstState, inst' = [inst EXCEPT ![i] = s], InstOK(s)'
    PROVE  InstInv'
<1>1. /\ inst' \in [Instance -> InstState] /\ inst'[i] = s
      /\ \A j \in Instance : j # i => inst'[j] = inst[j]
  BY InstUpdate
<1>2. ASSUME NEW j \in Instance, j # i
      PROVE  InstOK(inst[j])'
  <2>1. PICK r \in InstState : r = inst[j] /\ r = inst'[j] /\ InstOK(r)
    BY <1>1, <1>2 DEF InstInv
  <2>2. InstOK(r)'
    BY <2>1, OtherInstOK
  <2> QED BY <2>1, <2>2
<1>3. InstOK(inst[i])'
  BY <1>1
<1> QED BY <1>1, <1>2, <1>3 DEF InstInv

(* The tables when no statement is committed. *)
LEMMA TablesStay ==
    ASSUME TablesType, BlockInfoMatches, SpentByStoredSpender, ProgressInv,
           UNCHANGED <<tables, index_progress>>, active' \in Chains, faults' \in 0..MaxFaults
    PROVE  TablesType' /\ BlockInfoMatches' /\ SpentByStoredSpender' /\ ProgressInv' /\ Kept
<1>1. UNCHANGED <<transaction, utxo, tx_reference, block_info, address_metadata, index_progress>>
  BY DEF tables
<1> QED BY <1>1 DEF TablesType, BlockInfoMatches, SpentByStoredSpender, ProgressInv, ProgressBacked, Kept, Stored,
                    HasRow, Height

(* After a block an instance goes on to the next, waits or is gone. *)
LEMMA NextBlockEffect ==
    ASSUME InstInv, TablesType, NEW i \in Instance, NextBlock(i)
    PROVE  \E s \in InstState :
              /\ inst' = [inst EXCEPT ![i] = s]
              /\ s.at \in {"fetch", "idle", "off"}
              /\ s.height <= s.last /\ s.last <= Len(active)
<1>1. PICK q \in InstState : q = inst[i] /\ InstOK(q)
  BY DEF InstInv
<1>2. PICK n \in TrackedSet : n = Nothing
  BY OffState
<1>3. PICK r : r = [q EXCEPT !.block = NoBlock, !.tracked = n]
  OBVIOUS
<1>4. r \in InstState /\ r.height = q.height /\ r.last = q.last
  BY <1>3 DEF InstState
<1>5. /\ r.height \in Nat /\ r.last \in Nat /\ r.height <= r.last /\ r.last <= Len(active)
      /\ Len(active) \in Nat
  BY <1>1, <1>4, HeightFacts DEF InstState, InstOK, TablesType
<1>6. inst' = [inst EXCEPT ![i] =
                  IF r.height < r.last THEN [r EXCEPT !.at = "fetch", !.height = r.height + 1]
                  ELSE IF r.polls THEN [r EXCEPT !.at = "idle", !.height = 0, !.last = 0] ELSE Off]
  BY <1>1, <1>2, <1>3 DEF NextBlock
<1>7. CASE r.height < r.last
  <2>1. PICK g \in Nat : g = r.height + 1
    BY <1>5
  <2>2. PICK s : s = [r EXCEPT !.at = "fetch", !.height = g]
    OBVIOUS
  <2>3. s \in InstState /\ s.at = "fetch" /\ s.height = g /\ s.last = r.last
    BY <1>4, <2>2 DEF InstState, Working
  <2>4. inst' = [inst EXCEPT ![i] = s]
    BY <1>6, <1>7, <2>1, <2>2
  <2>5. s.height <= s.last /\ s.last <= Len(active)
    BY <1>5, <1>7, <2>1, <2>3
  <2> QED BY <2>3, <2>4, <2>5
<1>8. CASE ~(r.height < r.last) /\ r.polls
  <2>1. PICK s : s = [r EXCEPT !.at = "idle", !.height = 0, !.last = 0]
    OBVIOUS
  <2>2. s \in InstState /\ s.at = "idle" /\ s.height = 0 /\ s.last = 0
    BY <1>4, <2>1 DEF InstState
  <2>3. inst' = [inst EXCEPT ![i] = s]
    BY <1>6, <1>8, <2>1
  <2>4. s.height <= s.last /\ s.last <= Len(active)
    BY <1>5, <2>2
  <2> QED BY <2>2, <2>3, <2>4
<1>9. CASE ~(r.height < r.last) /\ ~r.polls
  <2>1. PICK s \in InstState : s = Off /\ s.at = "off" /\ s.height = 0 /\ s.last = 0
    BY OffState
  <2>2. inst' = [inst EXCEPT ![i] = s]
    BY <1>6, <1>9, <2>1
  <2>3. s.height <= s.last /\ s.last <= Len(active)
    BY <1>5, <2>1
  <2> QED BY <2>1, <2>2, <2>3
<1> QED BY <1>7, <1>8, <1>9

(* An instance enters a range of blocks. *)
LEMMA RunEffect ==
    ASSUME InstInv, NEW i \in Instance, NEW first \in Nat, NEW last \in Nat, Run(i, first, last)
    PROVE  \E s \in InstState :
              /\ inst' = [inst EXCEPT ![i] = s]
              /\ s.at = "fetch" /\ s.height = first /\ s.last = last
<1>1. PICK r \in InstState : r = inst[i]
  BY DEF InstInv
<1>2. PICK s : s = [r EXCEPT !.at = "fetch", !.height = first, !.last = last]
  OBVIOUS
<1>3. s \in InstState /\ s.at = "fetch" /\ s.height = first /\ s.last = last
  BY <1>2 DEF InstState, Working
<1>4. inst' = [inst EXCEPT ![i] = s]
  BY <1>1, <1>2 DEF Run, InstInv, InstState
<1> QED BY <1>3, <1>4

(* An instance has its block, and then what is tracked for it. *)
LEMMA FetchEffect ==
    ASSUME InstInv, TablesType, NEW i \in Instance, Fetch(i)
    PROVE  \E s \in InstState :
              /\ inst' = [inst EXCEPT ![i] = s]
              /\ s.at = "build" /\ s.height = inst[i].height /\ s.last = inst[i].last
              /\ s.block \in Block /\ HeightOf[s.block] = s.height
<1>1. PICK r \in InstState : r = inst[i] /\ InstOK(r)
  BY DEF InstInv
<1>2. r.height \in 0..Len(active)
  BY <1>1, HeightFacts DEF InstState, InstOK, TablesType
<1>3. PICK b \in Block : b = BlockAt(active, r.height) /\ HeightOf[b] = r.height
  BY <1>2, HeightFacts DEF TablesType
<1>4. PICK s : s = [r EXCEPT !.at = "build", !.block = b]
  OBVIOUS
<1>5. s \in InstState /\ s.at = "build" /\ s.height = r.height /\ s.last = r.last /\ s.block = b
  BY <1>4 DEF InstState, Working
<1>6. inst' = [inst EXCEPT ![i] = s]
  BY <1>1, <1>3, <1>4 DEF Fetch, InstInv, InstState
<1> QED BY <1>1, <1>3, <1>5, <1>6

(* However much of the block is tracked, its updates are its own. *)
LEMMA TracksEffect ==
    ASSUME InstInv, TablesType, NEW i \in Instance, inst[i].at = "build",
           NEW I \in SUBSET InputsOf(inst[i].block), NEW O \in SUBSET Outputs(inst[i].block),
           NEW W \in SUBSET OutPoint, NEW M \in SUBSET OutPoint, Tracks(i, I, O, W, M)
    PROVE  \E s \in InstState :
              /\ inst' = [inst EXCEPT ![i] = s]
              /\ s.at = "save" /\ s.height = inst[i].height /\ s.last = inst[i].last
              /\ s.block = inst[i].block /\ UpdatesOwn(utxo, s.block, s.tracked)
<1>1. PICK r \in InstState : r = inst[i] /\ InstOK(r)
  BY DEF InstInv
<1>2. r.block \in Block
  BY <1>1 DEF InstOK
<1>3. PICK w \in TrackedSet : w = Track(r.block, I, O, W, M) /\ UpdatesOwn(utxo, r.block, w)
  BY <1>1, <1>2, TrackOK
<1>4. PICK s : s = [r EXCEPT !.at = "save", !.tracked = w]
  OBVIOUS
<1>5. /\ s \in InstState /\ s.at = "save" /\ s.height = r.height /\ s.last = r.last
      /\ s.block = r.block /\ s.tracked = w
  BY <1>4 DEF InstState, Working
<1>6. inst' = [inst EXCEPT ![i] = s]
  BY <1>1, <1>3, <1>4 DEF Tracks, InstInv, InstState
<1> QED BY <1>1, <1>3, <1>5, <1>6

(* Both ways of building the entities of a block are such. *)
LEMMA BuildEffect ==
    ASSUME InstInv, TablesType, NEW i \in Instance, Build(i) \/ BuildPartly(i)
    PROVE  \E s \in InstState :
              /\ inst' = [inst EXCEPT ![i] = s]
              /\ s.at = "save" /\ s.height = inst[i].height /\ s.last = inst[i].last
              /\ s.block = inst[i].block /\ UpdatesOwn(utxo, s.block, s.tracked)
<1>1. PICK b : b = inst[i].block
  OBVIOUS
<1>2. inst[i].at = "build"
  BY DEF Build, BuildPartly
<1>3. b \in Block /\ InputsOf(b) \subseteq OutPoint /\ TxsOf[b] \subseteq Tx
  BY <1>1, <1>2, DataAssumption DEF InstInv, InstOK, InputsOf
<1>4. SUFFICES \E I \in SUBSET InputsOf(b), O \in SUBSET Outputs(b), W, M \in SUBSET OutPoint :
                  Tracks(i, I, O, W, M)
  BY <1>1, <1>2, TracksEffect
<1>5. /\ Outputs(b) \in SUBSET OutPoint
      /\ \A O \in SUBSET OutPoint : WatchedOf(O) \in SUBSET OutPoint
  BY DEF Outputs, WatchedOf
<1>6. PICK V \in SUBSET OutPoint : V = WatchedOf(Outputs(b))
  BY <1>5
<1>7. CASE Build(i)
  <2>1. PICK W \in SUBSET OutPoint : W = IF inst[i].disposed THEN {} ELSE V
    OBVIOUS
  <2>2. Tracks(i, InputsOf(b), Outputs(b), W, W)
    BY <1>1, <1>6, <1>7, <2>1 DEF Build
  <2> QED BY <1>5, <2>2
<1>8. CASE BuildPartly(i)
  <2>1. CASE \E o \in V : Tracks(i, InputsOf(b), Outputs(b), V \ {o}, V \ {o})
    BY <1>5, <2>1
  <2>2. CASE \E o \in V : Tracks(i, InputsOf(b), Outputs(b), V, V \ {o})
    BY <1>5, <2>2
  <2>3. ASSUME NEW t \in TxsOf[b], NEW I \in SUBSET Vin[t], NEW O \in SUBSET OutputsOf(t),
               NEW Os, Os = (Outputs(b) \ OutputsOf(t)) \cup O,
               Tracks(i, (InputsOf(b) \ Vin[t]) \cup I, Os, WatchedOf(Os), WatchedOf(Os))
        PROVE  \E J \in SUBSET InputsOf(b), P \in SUBSET Outputs(b), W, M \in SUBSET OutPoint :
                   Tracks(i, J, P, W, M)
    <3>1. (InputsOf(b) \ Vin[t]) \cup I \in SUBSET InputsOf(b)
      BY DEF InputsOf
    <3>2. Os \in SUBSET Outputs(b)
      BY <2>3 DEF OutputsOf, Outputs
    <3>3. WatchedOf(Os) \in SUBSET OutPoint
      BY <1>5, <3>2
    <3> QED BY <2>3, <3>1, <3>2, <3>3
  <2>4. \/ \E t \in TxsOf[b] : \E I \in SUBSET Vin[t], O \in SUBSET OutputsOf(t) :
              Tracks(i, (InputsOf(b) \ Vin[t]) \cup I, (Outputs(b) \ OutputsOf(t)) \cup O,
                     WatchedOf((Outputs(b) \ OutputsOf(t)) \cup O),
                     WatchedOf((Outputs(b) \ OutputsOf(t)) \cup O))
        \/ \E o \in V : Tracks(i, InputsOf(b), Outputs(b), V \ {o}, V \ {o})
        \/ \E o \in V : Tracks(i, InputsOf(b), Outputs(b), V, V \ {o})
    BY <1>1, <1>6, <1>8, Zenon DEF BuildPartly
  <2> QED BY <2>1, <2>2, <2>3, <2>4
<1> QED BY <1>7, <1>8

-----------------------------------------------------------------------------
(* The invariant *)

(* Every step keeps the invariant and what has been saved. *)
LEMMA NextKeeps ==
    ASSUME CInv, [Next]_vars
    PROVE  CInv' /\ Kept
<1>1. TablesType /\ InstInv /\ BlockInfoMatches /\ ProgressInv /\ SpentByStoredSpender
  BY DEF CInv
<1>2. /\ Len(active) \in Nat /\ active \in Chains /\ MaxFaults \in Nat /\ faults \in 0..MaxFaults
      /\ \A i \in Instance : inst[i] \in InstState /\ InstOK(inst[i])
  BY <1>1, HeightFacts, CSharpAssumption DEF TablesType, InstInv
<1>3. faults < MaxFaults /\ faults' = faults + 1 => faults' \in 0..MaxFaults
  BY <1>2
<1>4. ASSUME UNCHANGED <<active, tables, index_progress>>, faults' \in 0..MaxFaults
      PROVE  /\ TablesType' /\ BlockInfoMatches' /\ SpentByStoredSpender' /\ ProgressInv' /\ Kept
             /\ Len(active) <= Len(active')
  BY <1>1, <1>2, <1>4, TablesStay
<1>5. ASSUME UNCHANGED <<active, tables, index_progress>>, faults' \in 0..MaxFaults,
             NEW i \in Instance, NEW s \in InstState, inst' = [inst EXCEPT ![i] = s], InstOK(s)'
      PROVE  CInv' /\ Kept
  BY <1>1, <1>4, <1>5, InstStep DEF CInv
<1>6. ASSUME UNCHANGED active, NEW s \in InstState, s.height <= s.last, s.last <= Len(active),
             s.at \in {"build", "save"} => s.block \in Block /\ HeightOf[s.block] = s.height,
             s.at = "save" => UpdatesOwn(utxo', s.block, s.tracked), s.at # "progress"
      PROVE  InstOK(s)'
  BY <1>6 DEF InstOK
<1>7. CASE NodeAdvances
  <2>1. /\ active' \in Chains /\ Len(active) <= Len(active')
        /\ UNCHANGED <<tables, index_progress, inst, faults>>
    <3>1. PICK c \in Chains : Len(c) > Len(active) /\ active' = c
      BY <1>7 DEF NodeAdvances
    <3> QED BY <1>2, <1>7, <3>1, HeightFacts DEF NodeAdvances
  <2>2. TablesType' /\ BlockInfoMatches' /\ SpentByStoredSpender' /\ ProgressInv' /\ Kept
    BY <1>1, <1>2, <2>1, TablesStay
  <2>3. ASSUME NEW i \in Instance
        PROVE  InstOK(inst[i])'
    <3>1. PICK r \in InstState : r = inst[i] /\ r = inst'[i] /\ InstOK(r)
      BY <1>2, <2>1
    <3>2. InstOK(r)'
      BY <1>1, <2>1, <2>2, <3>1, OtherInstOK
    <3> QED BY <3>1, <3>2
  <2>4. InstInv'
    BY <1>1, <2>1, <2>3 DEF InstInv
  <2> QED BY <2>2, <2>4 DEF CInv
<1>8. ASSUME NEW i \in Instance, StartAsync(i)
      PROVE  CInv' /\ Kept
  <2>1. PICK o \in InstState : o = Off /\ o.height = 0 /\ o.last = 0
    BY OffState
  <2>2. PICK s : s = [o EXCEPT !.at = "idle", !.polls = TRUE]
    OBVIOUS
  <2>3. s \in InstState /\ s.at = "idle" /\ s.height = 0 /\ s.last = 0
    BY <2>1, <2>2 DEF InstState
  <2>4. /\ inst' = [inst EXCEPT ![i] = s]
        /\ UNCHANGED <<active, tables, index_progress, faults>>
    BY <1>8, <2>1, <2>2 DEF StartAsync
  <2>5. InstOK(s)'
    BY <1>2, <1>6, <2>3, <2>4
  <2> QED BY <1>2, <1>5, <2>3, <2>4, <2>5
<1>9. ASSUME NEW i \in Instance, Dispose(i)
      PROVE  CInv' /\ Kept
  <2>1. PICK r \in InstState : r = inst[i] /\ InstOK(r)
    BY <1>2
  <2>2. PICK s : s = [r EXCEPT !.disposed = TRUE]
    OBVIOUS
  <2>3. /\ s \in InstState /\ s.at = r.at /\ s.height = r.height /\ s.last = r.last
        /\ s.block = r.block /\ s.tracked = r.tracked
    BY <2>2 DEF InstState
  <2>4. /\ inst' = [inst EXCEPT ![i] = s]
        /\ UNCHANGED <<active, tables, index_progress, faults>>
    BY <1>1, <1>9, <2>1, <2>2 DEF Dispose, InstInv, InstState
  <2>5. InstOK(s)'
    BY <2>1, <2>3, <2>4 DEF InstOK, tables
  <2> QED BY <1>2, <1>5, <2>3, <2>4, <2>5
<1>10. ASSUME NEW i \in Instance, NEW first \in Nat, NEW last \in Nat, Run(i, first, last),
              first <= last, last <= Len(active), UNCHANGED <<active, tables, index_progress, faults>>
       PROVE  CInv' /\ Kept
  <2>1. PICK s \in InstState :
              /\ inst' = [inst EXCEPT ![i] = s]
              /\ s.at = "fetch" /\ s.height = first /\ s.last = last
    BY <1>1, <1>10, RunEffect
  <2>2. InstOK(s)'
    BY <1>6, <1>10, <2>1
  <2> QED BY <1>2, <1>5, <1>10, <2>1, <2>2
<1>11. ASSUME NEW i \in Instance, Poll(i)
       PROVE  CInv' /\ Kept
  <2>1. index_progress.height + 1 \in Nat
    <3>1. index_progress.height \in Height \cup {-1}
      BY <1>1 DEF TablesType
    <3>2. index_progress.height \in Nat \/ index_progress.height = -1
      BY <3>1, HeightFacts
    <3> QED BY <3>2
  <2> QED BY <1>2, <1>10, <1>11, <2>1 DEF Poll
<1>12. ASSUME NEW i \in Instance, NEW first \in Height, NEW last \in Height, ProcessRange(i, first, last)
       PROVE  CInv' /\ Kept
  <2>1. first \in Nat /\ last \in Nat
    BY HeightFacts
  <2> QED BY <1>10, <1>12, <2>1 DEF ProcessRange
<1>13. ASSUME NEW i \in Instance, Fetch(i)
       PROVE  CInv' /\ Kept
  <2>1. PICK s \in InstState :
              /\ inst' = [inst EXCEPT ![i] = s]
              /\ s.at = "build" /\ s.height = inst[i].height /\ s.last = inst[i].last
              /\ s.block \in Block /\ HeightOf[s.block] = s.height
    BY <1>1, <1>13, FetchEffect
  <2>2. UNCHANGED <<active, tables, index_progress, faults>>
    BY <1>13 DEF Fetch
  <2>3. s.height <= s.last /\ s.last <= Len(active)
    BY <1>2, <2>1 DEF InstOK
  <2>4. InstOK(s)'
    BY <1>6, <2>1, <2>2, <2>3
  <2> QED BY <1>2, <1>5, <2>1, <2>2, <2>4
<1>14. ASSUME NEW i \in Instance, Build(i) \/ BuildPartly(i)
       PROVE  CInv' /\ Kept
  <2>1. PICK s \in InstState :
              /\ inst' = [inst EXCEPT ![i] = s]
              /\ s.at = "save" /\ s.height = inst[i].height /\ s.last = inst[i].last
              /\ s.block = inst[i].block /\ UpdatesOwn(utxo, s.block, s.tracked)
    BY <1>1, <1>14, BuildEffect
  <2>2. /\ UNCHANGED <<active, tables, index_progress>> /\ faults' \in 0..MaxFaults
        /\ inst[i].at = "build" /\ utxo' = utxo
    BY <1>2, <1>3, <1>14 DEF Build, BuildPartly, tables
  <2>3. /\ s.height <= s.last /\ s.last <= Len(active)
        /\ s.block \in Block /\ HeightOf[s.block] = s.height
    BY <1>2, <2>1, <2>2 DEF InstOK
  <2>4. InstOK(s)'
    BY <1>6, <2>1, <2>2, <2>3
  <2> QED BY <1>5, <2>1, <2>2, <2>4
<1>15. ASSUME NEW i \in Instance, inst[i].at = "save", ~Conflict(inst[i].block, inst[i].tracked),
              SaveChanges(inst[i].block, inst[i].tracked),
              UNCHANGED <<active, index_progress>>, faults' \in 0..MaxFaults
       PROVE  /\ TablesType' /\ BlockInfoMatches' /\ SpentByStoredSpender' /\ ProgressInv' /\ Kept
              /\ Len(active) <= Len(active')
              /\ block_info'[HeightOf[inst[i].block]] = inst[i].block
  <2>1. PICK r \in InstState : r = inst[i] /\ InstOK(r)
    BY <1>2
  <2>2. PICK b \in Block : b = inst[i].block
    BY <1>15, <2>1 DEF InstOK
  <2>3. PICK w \in TrackedSet : w = inst[i].tracked
    BY <2>1 DEF InstState
  <2>4. UpdatesOwn(utxo, b, w)
    BY <1>15, <2>1, <2>2, <2>3 DEF InstOK
  <2> QED BY <1>1, <1>2, <1>15, <2>2, <2>3, <2>4, SaveKeeps
<1>16. ASSUME NEW i \in Instance, Save(i)
       PROVE  CInv' /\ Kept
  <2>1. /\ TablesType' /\ BlockInfoMatches' /\ SpentByStoredSpender' /\ ProgressInv' /\ Kept
        /\ Len(active) <= Len(active')
        /\ block_info'[HeightOf[inst[i].block]] = inst[i].block
    BY <1>2, <1>15, <1>16 DEF Save
  <2>2. PICK r \in InstState : r = inst[i] /\ InstOK(r)
    BY <1>2
  <2>3. PICK s : s = [r EXCEPT !.at = "progress"]
    OBVIOUS
  <2>4. /\ s \in InstState /\ s.at = "progress" /\ s.height = r.height /\ s.last = r.last /\ s.block = r.block
    BY <2>3 DEF InstState, Working
  <2>5. inst' = [inst EXCEPT ![i] = s] /\ UNCHANGED active /\ inst[i].at = "save"
    BY <1>1, <1>16, <2>2, <2>3 DEF Save, InstInv, InstState
  <2>6. InstOK(s)'
    BY <2>1, <2>2, <2>4, <2>5 DEF InstOK
  <2> QED BY <1>1, <2>1, <2>4, <2>5, <2>6, InstStep DEF CInv
<1>17. ASSUME NEW i \in Instance, NextBlock(i), UNCHANGED active,
              TablesType', BlockInfoMatches', SpentByStoredSpender', ProgressInv', Kept
       PROVE  CInv' /\ Kept
  <2>1. PICK s \in InstState :
              /\ inst' = [inst EXCEPT ![i] = s]
              /\ s.at \in {"fetch", "idle", "off"}
              /\ s.height <= s.last /\ s.last <= Len(active)
    BY <1>1, <1>17, NextBlockEffect
  <2>2. InstOK(s)'
    BY <1>6, <1>17, <2>1
  <2>3. Len(active) <= Len(active')
    BY <1>2, <1>17
  <2> QED BY <1>1, <1>17, <2>1, <2>2, <2>3, InstStep DEF CInv
<1>18. ASSUME NEW i \in Instance, SaveRefused(i)
       PROVE  CInv' /\ Kept
  BY <1>2, <1>4, <1>17, <1>18 DEF SaveRefused
<1>19. ASSUME NEW i \in Instance, UpsertIndexProgress(i)
       PROVE  CInv' /\ Kept
  <2>1. PICK r \in InstState : r = inst[i] /\ InstOK(r) /\ r.at = "progress"
    BY <1>2, <1>19 DEF UpsertIndexProgress
  <2>2. r.block \in Block /\ HeightOf[r.block] = r.height /\ block_info[r.height] = r.block /\ r.height \in Height
    BY <2>1, HeightFacts DEF InstOK
  <2>3. /\ index_progress' = [height |-> r.height, hash |-> r.block]
        /\ UNCHANGED <<active, tables, faults>>
    BY <1>19, <2>1 DEF UpsertIndexProgress
  <2>4. UNCHANGED <<transaction, utxo, tx_reference, block_info, address_metadata>>
    BY <2>3 DEF tables
  <2>5. TablesType'
    BY <1>1, <2>2, <2>3, <2>4 DEF TablesType
  <2>6. BlockInfoMatches' /\ SpentByStoredSpender' /\ Kept
    BY <1>1, <2>4 DEF BlockInfoMatches, SpentByStoredSpender, Stored, HasRow, Kept
  <2>7. ProgressInv'
    BY <2>2, <2>3, <2>4 DEF ProgressInv, ProgressBacked
  <2> QED BY <1>17, <1>19, <2>3, <2>5, <2>6, <2>7 DEF UpsertIndexProgress
<1>20. ASSUME NEW i \in Instance, BlockFails(i)
       PROVE  CInv' /\ Kept
  <2>1. UNCHANGED <<active, index_progress>> /\ faults' \in 0..MaxFaults /\ NextBlock(i)
    BY <1>3, <1>20 DEF BlockFails
  <2>2. CASE UNCHANGED tables
    BY <1>4, <1>17, <2>1, <2>2
  <2>3. CASE /\ inst[i].at = "save" /\ ~Conflict(inst[i].block, inst[i].tracked)
             /\ SaveChanges(inst[i].block, inst[i].tracked)
    BY <1>15, <1>17, <2>1, <2>3
  <2> QED BY <1>20, <2>2, <2>3 DEF BlockFails
<1>21. CASE Crash
  <2>1. /\ UNCHANGED <<active, tables, index_progress>> /\ faults' \in 0..MaxFaults
        /\ inst' = [i \in Instance |-> Off]
    BY <1>3, <1>21 DEF Crash
  <2>2. TablesType' /\ BlockInfoMatches' /\ SpentByStoredSpender' /\ ProgressInv' /\ Kept
    BY <1>4, <2>1
  <2>3. InstOK(Off)'
    BY <1>2, <1>6, <2>1, OffState
  <2>4. InstInv'
    BY <2>1, <2>3, OffState DEF InstInv
  <2> QED BY <2>2, <2>4 DEF CInv
<1>22. CASE UNCHANGED vars
  <2>1. UNCHANGED <<active, tables, index_progress, inst, faults>>
    BY <1>22 DEF vars
  <2>2. TablesType' /\ BlockInfoMatches' /\ SpentByStoredSpender' /\ ProgressInv' /\ Kept
    BY <1>2, <1>4, <2>1
  <2>3. InstInv'
    BY <1>1, <2>1 DEF InstInv, InstOK, tables
  <2> QED BY <2>2, <2>3 DEF CInv
<1>23. CASE \E i \in Instance : StartAsync(i) \/ Dispose(i) \/ Poll(i) \/ Step(i) \/ BuildPartly(i) \/ BlockFails(i)
  BY <1>8, <1>9, <1>11, <1>13, <1>14, <1>16, <1>18, <1>19, <1>20, <1>23 DEF Step
<1> QED BY <1>7, <1>12, <1>21, <1>22, <1>23 DEF Next

(* Empty tables and no instance. *)
LEMMA InitCInv == Init => CInv
<1> SUFFICES ASSUME Init PROVE CInv
  OBVIOUS
<1>1. MaxFaults \in Nat /\ << >> \in Chains
  BY CSharpAssumption, ChainsAssumption
<1>2. TablesType
  BY <1>1, DataAssumption DEF Init, TablesEmpty, TablesType, NoRow, Row, Status
<1>3. active = << >> /\ inst = [i \in Instance |-> Off]
  BY DEF Init
<1>4. Len(active) = 0
  BY <1>3
<1>5. InstOK(Off)
  BY <1>4, OffState DEF InstOK
<1>6. InstInv
  BY <1>3, <1>5, OffState DEF InstInv
<1>7. BlockInfoMatches
  BY DEF Init, TablesEmpty, BlockInfoMatches, Stored
<1>8. ProgressInv
  BY DEF Init, ProgressInv, ProgressBacked
<1>9. SpentByStoredSpender
  BY DEF Init, TablesEmpty, NoRow, SpentByStoredSpender
<1> QED BY <1>2, <1>6, <1>7, <1>8, <1>9 DEF CInv

(* The invariant of the C# indexer. *)
THEOREM CSharpInvariance == Spec => []CInv
<1>1. CInv /\ [Next]_vars => CInv'
  BY NextKeeps
<1> QED BY InitCInv, <1>1, PTL DEF Spec

(* The variables keep their types, with any number of instances. *)
THEOREM CSharpType == Spec => []TypeOK
<1>1. ASSUME CInv PROVE TypeOK
  <2>1. TablesType /\ InstInv
    BY <1>1 DEF CInv
  <2>2. ASSUME NEW i \in Instance
        PROVE  /\ inst[i].at \in Working \cup {"off", "idle"}
               /\ inst[i].polls \in BOOLEAN /\ inst[i].disposed \in BOOLEAN
               /\ inst[i].last \in 0..Len(active) /\ inst[i].height \in 0..inst[i].last
               /\ inst[i].block \in Block \cup {NoBlock}
               /\ Tracked(inst[i].tracked)
    <3>1. PICK r \in InstState : r = inst[i] /\ InstOK(r)
      BY <2>1 DEF InstInv
    <3>2. /\ r.at \in Working \cup {"off", "idle"}
          /\ r.polls \in BOOLEAN /\ r.disposed \in BOOLEAN
          /\ r.height \in Nat /\ r.last \in Nat
          /\ r.block \in Block \cup {NoBlock} /\ r.tracked \in TrackedSet
      BY DEF InstState
    <3>3. r.last \in 0..Len(active) /\ r.height \in 0..r.last
      BY <2>1, <3>1, <3>2, HeightFacts DEF InstOK, TablesType
    <3>4. Tracked(r.tracked)
      BY <3>2, TrackedType
    <3> QED BY <3>1, <3>2, <3>3, <3>4
  <2> QED BY <2>1, <2>2 DEF TypeOK, TablesType
<1> QED BY CSharpInvariance, <1>1, PTL

(* SaveChangesAsync of competing instances: block_info and transaction      *)
(* agree about every block.                                                 *)
THEOREM CSharpBlockInfo == Spec => []BlockInfoMatches
<1>1. CInv => BlockInfoMatches
  BY DEF CInv
<1> QED BY CSharpInvariance, <1>1, PTL

(* UpsertIndexProgressAsync, whoever calls it last, names a saved block. *)
THEOREM CSharpProgress == Spec => []ProgressBacked
<1>1. CInv => ProgressBacked
  BY DEF CInv, ProgressInv
<1> QED BY CSharpInvariance, <1>1, PTL

(* However stale the rows that are written back, spent_by_txid names a      *)
(* stored transaction that spends the output.                               *)
THEOREM CSharpSpender == Spec => []SpentByStoredSpender
<1>1. CInv => SpentByStoredSpender
  BY DEF CInv
<1> QED BY CSharpInvariance, <1>1, PTL

(* No instance overwrites the block of a height or moves a transaction.     *)
THEOREM CSharpSavedStays == Spec => SavedStays
<1>1. CInv /\ [Next]_vars =>
         [/\ \A h \in Height : block_info[h] # NoBlock => block_info'[h] = block_info[h]
          /\ \A t \in Tx : Stored(transaction, t) => transaction'[t] = transaction[t]]_vars
  BY NextKeeps DEF Kept
<1> QED BY CSharpInvariance, <1>1, PTL DEF Spec, SavedStays
-----------------------------------------------------------------------------
(* The C# service implements the archive *)

(* What a step about block b has to do to the tables to be a step of the    *)
(* archive about b.                                                         *)
LEMMA ArchiveStep ==
    ASSUME utxo \in [OutPoint -> Row], utxo' \in [OutPoint -> Row], NEW b \in Block,
           StoredTxs(transaction') \in {StoredTxs(transaction), StoredTxs(transaction) \cup TxsOf[b]},
           \A o \in OutPoint : OutputRecorded(utxo, utxo', b, o),
           index_progress'.hash \in {index_progress.hash, NoBlock, b},
           \/ utxo' = utxo /\ index_progress'.hash # b
           \/ TxsOf[b] \subseteq StoredTxs(transaction')
    PROVE  Arch!Record(b)
<1>1. OutputStates(utxo') \in [OutPoint -> {"none", "unspent", "spent"}]
  BY StatesOfRows
<1>2. ASSUME NEW o \in OutPoint
      PROVE  Arch!RecordOutput(b, o)
  <2>1. OutputRecorded(utxo, utxo', b, o)
    OBVIOUS
  <2> QED BY <2>1, StatesRecorded DEF Arch!RecordOutput, Arch!Creates, Arch!Spends
<1>3. utxo' = utxo => OutputStates(utxo') = OutputStates(utxo)
  OBVIOUS
<1> QED BY <1>1, <1>2, <1>3 DEF Arch!Record

(* Empty tables are an empty archive. *)
LEMMA InitArchive == Init => Arch!Init
BY EmptyTablesShow DEF Init, Arch!Init

(* SaveChangesAsync without a conflict stores the block, whatever was read  *)
(* when, and changes no output the block does not create or spend.          *)
LEMMA SaveRecords ==
    ASSUME CInv, NEW i \in Instance, inst[i].at = "save",
           ~Conflict(inst[i].block, inst[i].tracked), SaveChanges(inst[i].block, inst[i].tracked),
           UNCHANGED index_progress, TablesType'
    PROVE  inst[i].block \in Block /\ Arch!Record(inst[i].block)
<1>1. PICK r \in InstState : r = inst[i] /\ InstOK(r)
  BY DEF CInv, InstInv
<1>2. PICK b \in Block : b = inst[i].block
  BY <1>1 DEF InstOK
<1>3. PICK w \in TrackedSet : w = inst[i].tracked
  BY <1>1 DEF InstState
<1>4. UpdatesOwn(utxo, b, w) /\ SaveChanges(b, w)
  BY <1>1, <1>2, <1>3 DEF InstOK
<1>5. utxo \in [OutPoint -> Row] /\ utxo' \in [OutPoint -> Row] /\ TxsOf[b] \subseteq Tx /\ b # NoBlock
  BY DataAssumption DEF CInv, TablesType
<1>6. StoredTxs(transaction') = StoredTxs(transaction) \cup TxsOf[b]
  <2>1. transaction' = [t \in Tx |-> IF t \in TxsOf[b] THEN b ELSE transaction[t]]
    BY <1>4 DEF SaveChanges
  <2> QED BY <1>5, <2>1 DEF StoredTxs, Stored
<1>7. ASSUME NEW o \in OutPoint
      PROVE  OutputRecorded(utxo, utxo', b, o)
  <2>1. utxo'[o] = IF o \in w.inserts THEN [status |-> "confirmed", block |-> b, spentBy |-> NoTx]
                   ELSE IF o \in DOMAIN w.updates THEN w.updates[o] ELSE utxo[o]
    BY <1>4 DEF SaveChanges
  <2>2. CASE o \in w.inserts
    BY <1>4, <2>1, <2>2 DEF UpdatesOwn, OutputRecorded
  <2>3. CASE o \notin w.inserts /\ o \in DOMAIN w.updates
    <3>1. /\ HasRow(utxo, o)
          /\ \/ /\ w.updates[o].status = "spent"
                /\ w.updates[o].spentBy \in TxsOf[b] /\ o \in Vin[w.updates[o].spentBy]
             \/ w.updates[o].status = "confirmed" /\ Creator[o] \in TxsOf[b]
      BY <1>4, <2>3 DEF UpdatesOwn
    <3>2. w.updates[o].spentBy \in TxsOf[b] /\ o \in Vin[w.updates[o].spentBy] => o \in InputsOf(b)
      BY DEF InputsOf
    <3> QED BY <2>1, <2>3, <3>1, <3>2 DEF OutputRecorded
  <2>4. CASE o \notin w.inserts /\ o \notin DOMAIN w.updates
    BY <2>1, <2>4 DEF OutputRecorded
  <2> QED BY <2>2, <2>3, <2>4
<1> QED BY <1>2, <1>5, <1>6, <1>7, ArchiveStep

(* UpsertIndexProgressAsync names a block whose transactions are stored. *)
LEMMA ProgressRecords ==
    ASSUME CInv, NEW i \in Instance, UpsertIndexProgress(i)
    PROVE  inst[i].block \in Block /\ Arch!Record(inst[i].block)
<1>1. PICK r \in InstState : r = inst[i] /\ InstOK(r) /\ r.at = "progress"
  BY DEF CInv, InstInv, UpsertIndexProgress
<1>2. PICK b \in Block : b = r.block /\ HeightOf[b] = r.height /\ block_info[r.height] = b
  BY <1>1 DEF InstOK
<1>3. r.height \in Height /\ b # NoBlock /\ TxsOf[b] \subseteq Tx
  BY <1>2, HeightFacts, DataAssumption
<1>4. \A t \in TxsOf[b] : transaction[t] = b
  BY <1>2, <1>3 DEF CInv, BlockInfoMatches
<1>5. TxsOf[b] \subseteq StoredTxs(transaction)
  BY <1>3, <1>4 DEF StoredTxs, Stored
<1>6. index_progress'.hash = b /\ UNCHANGED <<transaction, utxo>>
  BY <1>1, <1>2 DEF UpsertIndexProgress, tables
<1>7. utxo \in [OutPoint -> Row] /\ utxo' \in [OutPoint -> Row]
  BY <1>6 DEF CInv, TablesType
<1>8. \A o \in OutPoint : OutputRecorded(utxo, utxo', b, o)
  BY <1>6 DEF OutputRecorded
<1> QED BY <1>1, <1>2, <1>5, <1>6, <1>7, <1>8, ArchiveStep

(* Every step of the service records a block or leaves the archive alone.   *)
LEMMA StepArchive == CInv /\ [Next]_vars => [Arch!Next]_(Arch!archive)
<1> SUFFICES ASSUME CInv, [Next]_vars PROVE [Arch!Next]_(Arch!archive)
  OBVIOUS
<1>1. TablesType'
  BY NextKeeps DEF CInv
<1>2. CASE UNCHANGED <<transaction, utxo, index_progress>>
  BY <1>2 DEF Arch!archive, StoredTxs, Stored, OutputStates
<1>3. ASSUME NEW i \in Instance, inst[i].at = "save", ~Conflict(inst[i].block, inst[i].tracked),
             SaveChanges(inst[i].block, inst[i].tracked), UNCHANGED index_progress
      PROVE  Arch!Next
  BY <1>1, <1>3, SaveRecords DEF Arch!Next
<1>4. ASSUME NEW i \in Instance, UpsertIndexProgress(i)
      PROVE  Arch!Next
  BY <1>4, ProgressRecords DEF Arch!Next
<1>5. \/ UNCHANGED <<transaction, utxo, index_progress>>
      \/ \E i \in Instance :
            \/ UpsertIndexProgress(i)
            \/ /\ inst[i].at = "save" /\ ~Conflict(inst[i].block, inst[i].tracked)
               /\ SaveChanges(inst[i].block, inst[i].tracked) /\ UNCHANGED index_progress
  BY DEF Next, Step, vars, tables, NodeAdvances, StartAsync, Dispose, Poll, ProcessRange, Fetch, Build,
         BuildPartly, Save, SaveRefused, BlockFails, Crash
<1> QED BY <1>2, <1>3, <1>4, <1>5

(* The C# service, with instances that read and write back rows at the same *)
(* time, implements the archive.                                            *)
THEOREM CSharpImplementsArchive == Spec => ImplementsArchive
<1>1. Init => Arch!Init
  BY InitArchive
<1>2. CInv /\ [Next]_vars => [Arch!Next]_(Arch!archive)
  BY StepArchive
<1> QED BY CSharpInvariance, <1>1, <1>2, PTL DEF Spec, ImplementsArchive, Arch!Spec
=============================================================================
