----------------------------- MODULE ApiQueries -----------------------------
(***************************************************************************)
(* The balance, output and history queries of internal/api/handlers.go next *)
(* to the block poller.  A request is several statements outside any transaction,  *)
(* so blocks are committed between them.  Requests only read: one at a time *)
(* shows everything that any number of them can see.  A sum is the set of   *)
(* the outputs it adds up; module Balances puts in the amounts.             *)
(***************************************************************************)
EXTENDS SequentialIndexer

CONSTANTS
    ConfirmationsRequired,      \* 3, the argument of GetBalance
    HistoryLimits               \* the limits clients ask for (50 by default)

ASSUME ApiAssumption == ConfirmationsRequired \in Nat /\ HistoryLimits \subseteq Nat

VARIABLES
    request,        \* the request in progress, or the last answer
    created_at      \* column created_at of tx_reference, as the height of the
                    \* block whose storing inserted the row

apiVars == <<vars, request, created_at>>

(* rows and heights: what was read of the table; confirmed: the rows that a *)
(* balance calls confirmed, the others being pending; answered: the rows    *)
(* whose confirmations are known; unread: those for which reading the       *)
(* progress failed; limit and history: what a history asked for and got.    *)
Request == [kind : {"none", "balance", "utxos", "history"}, done : BOOLEAN, address : SUBSET Address,
            tip : Nat, rows : SUBSET OutPoint, heights : [OutPoint -> Nat],
            confirmed : SUBSET OutPoint, answered : SUBSET OutPoint,
            confirmations : [OutPoint -> Int], unread : SUBSET OutPoint,
            limit : Nat, history : SUBSET RefKey]
NoRequest == [kind |-> "none", done |-> FALSE, address |-> {},
              tip |-> 0, rows |-> {}, heights |-> [o \in OutPoint |-> 0],
              confirmed |-> {}, answered |-> {},
              confirmations |-> [o \in OutPoint |-> 0], unread |-> {},
              limit |-> 0, history |-> {}]

(* utxo.block_height; rows of the sequential path all have one. *)
BlockHeight(row) == HeightOf[row.block]

(* The rows of an address, and their heights. *)
RowsOf(a) == {o \in OutPoint : HasRow(utxo, o) /\ AddressOf[ScriptOf[o]] = a}

HeightsOf(S) == [o \in OutPoint |-> IF o \in S THEN BlockHeight(utxo[o]) ELSE 0]

ApiInit == Init /\ request = NoRequest /\ created_at = [k \in RefKey |-> 0]

Ready == request.kind = "none" \/ request.done

-----------------------------------------------------------------------------
(* GET /balance *)

(* The first statement reads last_height, and fails if there is no row yet. *)
GetBalance(a) ==
    /\ Ready
    /\ index_progress.height > 0
    /\ request' = [NoRequest EXCEPT !.kind = "balance", !.address = {a}, !.tip = index_progress.height]
    /\ UNCHANGED vars

(* Mutant: one block too few is enough. *)
ConfirmedUpToOneMore == request.tip - ConfirmationsRequired + 2

(* The second parameter of the SUM statement. *)
ConfirmedUpTo == request.tip - ConfirmationsRequired + 1

(* Mutant: spent rows are summed up as well. *)
UnspentOfAnyStatus(a) == RowsOf(a)

(* WHERE address = $1 AND status IN ('mempool', 'confirmed') *)
UnspentOf(a) == {o \in RowsOf(a) : utxo[o].status \in {"mempool", "confirmed"}}

(* The second statement sums up the rows as they are by then. *)
SumBalance ==
    /\ request.kind = "balance" /\ ~request.done
    /\ \E a \in request.address :
         request' = [request EXCEPT !.done = TRUE,
                        !.rows = UnspentOf(a), !.heights = HeightsOf(UnspentOf(a)),
                        !.confirmed = {o \in UnspentOf(a) : /\ utxo[o].status = "confirmed"
                                                            /\ BlockHeight(utxo[o]) <= ConfirmedUpTo}]
    /\ UNCHANGED vars

-----------------------------------------------------------------------------
(* GET /utxos *)

(* GetUTXOsForAddress reads the rows, spent ones too. *)
GetUTXOs(a) ==
    /\ Ready
    /\ request' = [NoRequest EXCEPT !.kind = "utxos", !.address = {a}, !.done = (RowsOf(a) = {}),
                                    !.rows = RowsOf(a), !.heights = HeightsOf(RowsOf(a))]
    /\ UNCHANGED vars

(* The handler goes through the rows; o is answered next, with n. *)
Answer(o, n, failed) ==
    /\ request.kind = "utxos" /\ ~request.done
    /\ o \in request.rows \ request.answered
    /\ request' = [request EXCEPT
                      !.answered = @ \cup {o}, !.confirmations[o] = n, !.unread = @ \cup failed,
                      !.done = (request.rows \subseteq request.answered \cup {o})]

(* For each row the progress is read again. *)
CalculateConfirmations(o) ==
    /\ Answer(o, index_progress.height - request.heights[o] + 1, {})
    /\ UNCHANGED vars

(* The progress cannot be read: the field keeps its zero. *)
ConfirmationsUnread(o) ==
    /\ Answer(o, 0, {o})
    /\ UNCHANGED vars

-----------------------------------------------------------------------------
(* GET /history *)

ReferencesOf(a) == {k \in tx_reference : k[2] = a}

(* Mutant: ORDER BY created_at, the oldest first. *)
GetReferencesOldestFirst(a, limit) ==
    {H \in SUBSET ReferencesOf(a) :
        /\ Cardinality(H) = Lower(limit, Cardinality(ReferencesOf(a)))
        /\ \A k \in H, l \in ReferencesOf(a) \ H : created_at[k] <= created_at[l]}

(* ORDER BY created_at DESC LIMIT: no reference left out is newer than one  *)
(* returned; those of one block come in an order that is not modelled.      *)
GetTransactionReferences(a, limit) ==
    {H \in SUBSET ReferencesOf(a) :
        /\ Cardinality(H) = Lower(limit, Cardinality(ReferencesOf(a)))
        /\ \A k \in H, l \in ReferencesOf(a) \ H : created_at[k] >= created_at[l]}

(* The rows of a preceding GET /utxos for the address stay with the client. *)
GetTransactionHistory(a, limit) ==
    /\ Ready
    /\ \E H \in GetTransactionReferences(a, limit) :
         request' = [NoRequest EXCEPT !.kind = "history", !.done = TRUE, !.address = {a},
                        !.rows = IF request.kind = "utxos" /\ request.address = {a}
                                 THEN request.rows ELSE {},
                        !.heights = request.heights, !.limit = limit, !.history = H]
    /\ UNCHANGED vars

-----------------------------------------------------------------------------
(* created_at is not among the columns that ON CONFLICT DO UPDATE sets: a   *)
(* reference keeps the one of its insertion.                                *)
PollerStep ==
    /\ Next
    /\ created_at' = [k \in RefKey |->
                        IF k \in tx_reference' \ tx_reference THEN height ELSE created_at[k]]
    /\ UNCHANGED request

ApiStep ==
    \/ \E a \in Address :
         GetBalance(a) \/ GetUTXOs(a) \/ \E n \in HistoryLimits : GetTransactionHistory(a, n)
    \/ SumBalance
    \/ \E o \in OutPoint : CalculateConfirmations(o) \/ ConfirmationsUnread(o)

ApiNext == (ApiStep /\ UNCHANGED created_at) \/ PollerStep

ApiSpec == ApiInit /\ [][ApiNext]_apiVars

-----------------------------------------------------------------------------
(* Properties *)

(* The type of a request, and which rows its answers can be about. *)
ApiTypeOK ==
    /\ request \in Request
    /\ request.confirmed \subseteq request.rows
    /\ request.answered \subseteq request.rows

(* Although the rows and the progress are read at different times, with     *)
(* blocks stored and reorganisations handled in between, no output is       *)
(* reported with less than one confirmation, unless the progress could not  *)
(* be read.                                                                 *)
ConfirmationsPositive ==
    \A o \in request.answered \ request.unread : request.confirmations[o] >= 1

(* A row names an indexed block, and the progress is within the node's chain. *)
RowsHaveBlocks ==
    \A o \in OutPoint : HasRow(utxo, o) =>
        utxo[o].block \in Block /\ Indexed(transaction, utxo[o].block)
TipReached == index_progress.height <= Len(active)

(* What was read is no higher than the progress is now. *)
AnswersInv ==
    /\ request.kind # "utxos" => request.answered = {}
    /\ request.tip <= index_progress.height
    /\ \A o \in request.rows : request.heights[o] <= index_progress.height
    /\ \A o \in request.confirmed : request.heights[o] <= ConfirmedUpTo

(* The inductive invariant of the poller and the queries together. *)
ApiInv == IInv /\ ApiTypeOK /\ RowsHaveBlocks /\ TipReached /\ AnswersInv /\ ConfirmationsPositive

(* What a balance calls confirmed has ConfirmationsRequired blocks on the   *)
(* node from its block to the tip, although the height is read before the   *)
(* rows and checkReorg moves the progress ahead of what is stored.          *)
ConfirmedIsDeep ==
    \A o \in request.confirmed :
        Len(active) - request.heights[o] + 1 >= ConfirmationsRequired

(* On a chain without reorganisations, no balance counts an output together *)
(* with an output of a later block that was paid out of it.                 *)
NoDoubleCount ==
    request.kind = "balance" =>
        \A o, p \in request.rows :
            ~(o \in Vin[Creator[p]] /\ request.heights[o] < request.heights[p])

(* Every output of a watched script that GET /utxos has shown is in the     *)
(* history that the client asks for next, whatever was committed, lost or   *)
(* reorganised in between; only newer references can crowd it out.          *)
HistoryCoversRows ==
    request.kind = "history" =>
        \A o \in request.rows : ScriptOf[o] \in InitialScripts =>
            LET shown == <<Creator[o], AddressOf[ScriptOf[o]], "in">> IN
            \/ shown \in request.history
            \/ /\ Cardinality(request.history) = request.limit
               /\ \A k \in request.history : created_at[k] >= created_at[shown]
=============================================================================
