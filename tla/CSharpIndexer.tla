---------------------------- MODULE CSharpIndexer ----------------------------
(***************************************************************************)
(* The C# indexer: BitcoinIndexerService (c-sharp/BitcoinIndexer.           *)
(* Application), its Entity Framework repository and the controllers that   *)
(* start it.  The service is registered as scoped, so the hosted service    *)
(* and every POST /start or /process-blocks have an instance of their own,  *)
(* with its own semaphores, which are disposed of when the request ends.    *)
(* Queries read the database only (NoTracking), SaveChangesAsync is one     *)
(* database transaction of plain INSERTs and UPDATEs, and exceptions are    *)
(* logged at the block and the loop goes on.  watched_script is constant:   *)
(* AddWatchTargetAsync never saves what it adds.                            *)
(***************************************************************************)
EXTENDS IndexStore

CONSTANTS
    Instance,           \* instances of the service that may come to be
    Hosted,             \* the one BitcoinIndexerHostedService starts
    Watched,            \* the scripts whose address is in watched_script
    MaxFaults           \* how many failures and crashes a behaviour may have

ASSUME CSharpAssumption ==
    /\ Hosted \in Instance
    /\ Watched \subseteq Script
    /\ MaxFaults \in Nat

VARIABLES
    active,             \* the node's active chain
    transaction, utxo, tx_reference, index_progress,    \* tables, as in Go
    block_info,         \* table block_info: the hash stored for each height
    address_metadata,   \* table address_metadata: its keys
    inst,               \* what each instance is doing
    faults

tables == <<transaction, utxo, tx_reference, block_info, address_metadata>>
vars == <<active, tables, index_progress, inst, faults>>

Height == {HeightOf[b] : b \in Block}

(* Entities the DbContext of a block tracks: transactions and block_info    *)
(* are implied by the block.                                                *)
Tracked(w) ==
    /\ w.inserts \subseteq OutPoint
    /\ DOMAIN w.updates \subseteq OutPoint /\ \A o \in DOMAIN w.updates : w.updates[o] \in Row
    /\ w.refs \subseteq Ref
    /\ w.metas \subseteq Address
Nothing == [inserts |-> {}, updates |-> << >>, refs |-> {}, metas |-> {}]

Off == [at |-> "off", polls |-> FALSE, disposed |-> FALSE,
        height |-> 0, last |-> 0, block |-> NoBlock, tracked |-> Nothing]
Working == {"fetch", "build", "save", "progress"}

(* No row in index_progress is a height of -1: the first block is genesis.  *)
Init ==
    /\ active = << >>
    /\ TablesEmpty(transaction, utxo, tx_reference)
    /\ block_info = [h \in Height |-> NoBlock]
    /\ address_metadata = {}
    /\ index_progress = [height |-> -1, hash |-> NoBlock]
    /\ inst = [i \in Instance |-> Off]
    /\ faults = 0

NodeAdvances ==
    /\ \E c \in Chains : Len(c) > Len(active) /\ active' = c
    /\ UNCHANGED <<tables, index_progress, inst, faults>>

-----------------------------------------------------------------------------
(* Starting *)

(* StartAsync: _isRunning belongs to the instance, which is a new one.      *)
StartAsync(i) ==
    /\ inst[i].at = "off"
    /\ inst' = [inst EXCEPT ![i] = [Off EXCEPT !.at = "idle", !.polls = TRUE]]
    /\ UNCHANGED <<active, tables, index_progress, faults>>

(* The request of POST /start ends, its scope disposes of the instance, but *)
(* the poller it started lives on.                                          *)
Dispose(i) ==
    /\ i # Hosted /\ inst[i].polls /\ ~inst[i].disposed
    /\ inst' = [inst EXCEPT ![i].disposed = TRUE]
    /\ UNCHANGED <<active, tables, index_progress, faults>>

Run(i, first, last) ==
    inst' = [inst EXCEPT ![i].at = "fetch", ![i].height = first, ![i].last = last]

(* ProcessBlocksAsync of the poller: getblockcount, the progress and the    *)
(* semaphore, which throws once it is disposed of.  What the node adds      *)
(* between the two reads is left to the next poll.                          *)
Poll(i) ==
    /\ inst[i].at = "idle" /\ ~inst[i].disposed
    /\ index_progress.height + 1 <= Len(active)
    /\ Run(i, index_progress.height + 1, Len(active))
    /\ UNCHANGED <<active, tables, index_progress, faults>>

(* POST /process-blocks; the request waits, and heights above the tip fail. *)
ProcessRange(i, first, last) ==
    /\ inst[i].at = "off" /\ i # Hosted
    /\ first <= last /\ last <= Len(active)
    /\ Run(i, first, last)
    /\ UNCHANGED <<active, tables, index_progress, faults>>

-----------------------------------------------------------------------------
(* ProcessBlockAsync *)

(* The loop goes on, or the caller of the range is done. *)
NextBlock(i) ==
    LET s == [inst[i] EXCEPT !.block = NoBlock, !.tracked = Nothing] IN
    inst' = [inst EXCEPT ![i] =
                IF s.height < s.last THEN [s EXCEPT !.at = "fetch", !.height = s.height + 1]
                ELSE IF s.polls THEN [s EXCEPT !.at = "idle", !.height = 0, !.last = 0]
                ELSE Off]

Fetch(i) ==
    /\ inst[i].at = "fetch"
    /\ inst' = [inst EXCEPT ![i].at = "build", ![i].block = BlockAt(active, inst[i].height)]
    /\ UNCHANGED <<active, tables, index_progress, faults>>

(* UpdateUtxoStatusAsync for the inputs I that have a row, UpsertUtxoAsync  *)
(* for the outputs O, and for the watched ones among them a reference (W)   *)
(* and the metadata of the address (M).                                     *)
Track(b, I, O, W, M) ==
    [inserts |-> {o \in O : ~HasRow(utxo, o)},
     updates |-> [o \in {p \in I \cup O : HasRow(utxo, p)} |->
                    IF o \in I THEN [utxo[o] EXCEPT !.status = "spent", !.spentBy = Spender(b, o)]
                    ELSE [utxo[o] EXCEPT !.status = "confirmed", !.block = b]],
     refs    |-> {[key |-> <<Creator[o], AddressOf[ScriptOf[o]], "in">>, via |-> o] : o \in W},
     metas   |-> {AddressOf[ScriptOf[o]] : o \in M} \ address_metadata]

Outputs(b) == {o \in OutPoint : Creator[o] \in TxsOf[b]}
WatchedOf(O) == {o \in O : ScriptOf[o] \in Watched}

Tracks(i, I, O, W, M) ==
    inst' = [inst EXCEPT ![i].at = "save", ![i].tracked = Track(inst[i].block, I, O, W, M)]

(* Every transaction of the block is turned into tracked entities.  Without *)
(* its semaphore an instance finds no watched scripts: the exception is     *)
(* logged for each address.                                                 *)
Build(i) ==
    /\ inst[i].at = "build"
    /\ LET b == inst[i].block
           W == IF inst[i].disposed THEN {} ELSE WatchedOf(Outputs(b)) IN
       Tracks(i, InputsOf(b), Outputs(b), W, W)
    /\ UNCHANGED <<active, tables, index_progress, faults>>

(* A query fails.  ProcessTransactionAsync logs it and keeps what was       *)
(* tracked of the transaction so far (outputs come after inputs);           *)
(* ProcessWatchedAddressAsync logs it and goes on with the next output.     *)
BuildPartly(i) ==
    /\ inst[i].at = "build" /\ ~inst[i].disposed
    /\ faults < MaxFaults /\ faults' = faults + 1
    /\ LET b == inst[i].block
           W == WatchedOf(Outputs(b)) IN
       \/ \E t \in TxsOf[b] : \E I \in SUBSET Vin[t], O \in SUBSET OutputsOf(t) :
             LET Os == (Outputs(b) \ OutputsOf(t)) \cup O IN
             /\ O # {} => I = Vin[t]
             /\ Tracks(i, (InputsOf(b) \ Vin[t]) \cup I, Os, WatchedOf(Os), WatchedOf(Os))
       \/ \E o \in W : Tracks(i, InputsOf(b), Outputs(b), W \ {o}, W \ {o})
       \/ \E o \in W : Tracks(i, InputsOf(b), Outputs(b), W, W \ {o})
    /\ UNCHANGED <<active, tables, index_progress>>

(* Mutant: only the key of block_info is found out to exist. *)
ConflictHeightOnly(b, tracked) == block_info[HeightOf[b]] # NoBlock

(* A primary key or unique index that the INSERTs of a block run into. *)
Conflict(b, tracked) ==
    \/ block_info[HeightOf[b]] # NoBlock
    \/ \E t \in TxsOf[b] : Stored(transaction, t)
    \/ \E o \in tracked.inserts : HasRow(utxo, o)
    \/ RefsRejected(tracked.refs)
    \/ \E r \in tracked.refs : r.key \in tx_reference
    \/ tracked.metas \cap address_metadata # {}

(* SaveChangesAsync writes whole rows, as they were read and changed. *)
SaveChanges(b, tracked) ==
    /\ block_info' = [block_info EXCEPT ![HeightOf[b]] = b]
    /\ transaction' = [t \in Tx |-> IF t \in TxsOf[b] THEN b ELSE transaction[t]]
    /\ utxo' = [o \in OutPoint |->
                  IF o \in tracked.inserts THEN [status |-> "confirmed", block |-> b, spentBy |-> NoTx]
                  ELSE IF o \in DOMAIN tracked.updates THEN tracked.updates[o] ELSE utxo[o]]
    /\ tx_reference' = tx_reference \cup {r.key : r \in tracked.refs}
    /\ address_metadata' = address_metadata \cup tracked.metas

Save(i) ==
    /\ inst[i].at = "save"
    /\ ~Conflict(inst[i].block, inst[i].tracked)
    /\ SaveChanges(inst[i].block, inst[i].tracked)
    /\ inst' = [inst EXCEPT ![i].at = "progress"]
    /\ UNCHANGED <<active, index_progress, faults>>

(* Mutant: the progress is written although the block was refused. *)
SaveRefusedCounts(i) ==
    /\ inst[i].at = "save"
    /\ Conflict(inst[i].block, inst[i].tracked)
    /\ index_progress' = [height |-> inst[i].height, hash |-> inst[i].block]
    /\ NextBlock(i)
    /\ UNCHANGED <<active, tables, faults>>

(* Mutant: the UPDATEs of a refused block stay. *)
SaveRefusedKeepsUpdates(i) ==
    /\ inst[i].at = "save"
    /\ Conflict(inst[i].block, inst[i].tracked)
    /\ utxo' = [o \in OutPoint |->
                  IF o \in DOMAIN inst[i].tracked.updates THEN inst[i].tracked.updates[o] ELSE utxo[o]]
    /\ NextBlock(i)
    /\ UNCHANGED <<active, transaction, tx_reference, block_info, address_metadata, index_progress, faults>>

(* DbUpdateException: logged, and on to the next block. *)
SaveRefused(i) ==
    /\ inst[i].at = "save"
    /\ Conflict(inst[i].block, inst[i].tracked)
    /\ NextBlock(i)
    /\ UNCHANGED <<active, tables, index_progress, faults>>

(* UpsertIndexProgressAsync, a statement of its own after SaveChangesAsync. *)
UpsertIndexProgress(i) ==
    /\ inst[i].at = "progress"
    /\ index_progress' = [height |-> inst[i].height, hash |-> inst[i].block]
    /\ NextBlock(i)
    /\ UNCHANGED <<active, tables, faults>>

-----------------------------------------------------------------------------
(* Failures *)

(* Any other exception in ProcessBlockAsync: logged, on to the next block.  *)
BlockFails(i) ==
    /\ inst[i].at \in Working
    /\ faults < MaxFaults /\ faults' = faults + 1
    /\ \/ UNCHANGED tables
       \/ /\ inst[i].at = "save" /\ ~Conflict(inst[i].block, inst[i].tracked)
          /\ SaveChanges(inst[i].block, inst[i].tracked)    \* only the answer is lost
    /\ NextBlock(i)
    /\ UNCHANGED <<active, index_progress>>

(* The process dies with all its instances. *)
Crash ==
    /\ faults < MaxFaults /\ faults' = faults + 1
    /\ inst' = [i \in Instance |-> Off]
    /\ UNCHANGED <<active, tables, index_progress>>

Step(i) == Fetch(i) \/ Build(i) \/ Save(i) \/ SaveRefused(i) \/ UpsertIndexProgress(i)

Next ==
    \/ NodeAdvances
    \/ \E i \in Instance : StartAsync(i) \/ Dispose(i) \/ Poll(i) \/ Step(i) \/ BuildPartly(i) \/ BlockFails(i)
    \/ \E i \in Instance, first, last \in Height : ProcessRange(i, first, last)
    \/ Crash

Spec == Init /\ [][Next]_vars

-----------------------------------------------------------------------------
(* Properties *)

(* The types of the variables. *)
TypeOK ==
    /\ active \in Chains
    /\ transaction \in [Tx -> Block \cup {NoBlock}]
    /\ utxo \in [OutPoint -> Row]
    /\ tx_reference \subseteq RefKey
    /\ block_info \in [Height -> Block \cup {NoBlock}]
    /\ address_metadata \subseteq Address
    /\ index_progress \in [height : Height \cup {-1}, hash : Block \cup {NoBlock}]
    /\ \A i \in Instance :
         /\ inst[i].at \in Working \cup {"off", "idle"}
         /\ inst[i].polls \in BOOLEAN /\ inst[i].disposed \in BOOLEAN
         /\ inst[i].last \in 0..Len(active) /\ inst[i].height \in 0..inst[i].last
         /\ inst[i].block \in Block \cup {NoBlock}
         /\ Tracked(inst[i].tracked)
    /\ faults \in 0..MaxFaults

(* However many instances index at once, and whatever fails, a row of       *)
(* block_info stands for a block whose transactions are all stored under    *)
(* it, and there is no transaction without its block_info.                  *)
BlockInfoMatches ==
    /\ \A h \in Height : block_info[h] # NoBlock =>
          \A t \in TxsOf[block_info[h]] : transaction[t] = block_info[h]
    /\ \A t \in Tx : Stored(transaction, t) =>
          block_info[HeightOf[transaction[t]]] = transaction[t]

(* Rows are written back whole, from what an instance read before others    *)
(* saved; still a row marked spent names a stored transaction that spends   *)
(* it, which the Go statement does not achieve (IndexStore).                *)
SpentByStoredSpender ==
    \A o \in OutPoint : utxo[o].status = "spent" =>
        /\ utxo[o].spentBy \in Tx /\ o \in Vin[utxo[o].spentBy]
        /\ Stored(transaction, utxo[o].spentBy)

(* index_progress names a block that has been saved, although it is written *)
(* in a statement of its own and by several instances.                      *)
ProgressBacked ==
    index_progress.height >= 0 => block_info[index_progress.height] = index_progress.hash

(* What has been saved is never taken back: no instance overwrites the      *)
(* block of a height or moves a transaction to another block.               *)
SavedStays ==
    [][/\ \A h \in Height : block_info[h] # NoBlock => block_info'[h] = block_info[h]
       /\ \A t \in Tx : Stored(transaction, t) => transaction'[t] = transaction[t]]_vars

(* The tables as an archive (module Archive). *)
Arch == INSTANCE Archive WITH
        stored <- StoredTxs(transaction),
        outputs <- OutputStates(utxo),
        progress <- index_progress.hash

(* Instances that write back whole rows, read before the others saved, and  *)
(* the progress in a statement of its own, record one block at a time all   *)
(* the same: an output changes only to what that block makes of it.         *)
ImplementsArchive == Arch!Spec
=============================================================================
