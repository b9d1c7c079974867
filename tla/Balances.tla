------------------------------ MODULE Balances ------------------------------
(***************************************************************************)
(* The amounts of GET /balance: the two SUMs over the rows of an address,   *)
(* taken from value_sats as the parser has stored it.                       *)
(***************************************************************************)
EXTENDS ApiQueries, Amounts, FiniteSetsExt

CONSTANT ValueOf        \* [OutPoint -> Amount]: what the chain says

ASSUME ValueAssumption == \A o \in OutPoint : ValueOf[o] \in Amount

(* Column value_sats of table utxo. *)
value_sats == [o \in OutPoint |-> Convert(ValueOf[o])]

(* SUM over a set of outputs; the rows of one address are few enough here. *)
Sum(value, S) ==
    LET btc == MapThenSumSet(LAMBDA o : value[o][1], S)
        sat == MapThenSumSet(LAMBDA o : value[o][2], S)
    IN  <<btc + sat \div Unit, sat % Unit>>

Plus(m, n) == <<m[1] + n[1] + (m[2] + n[2]) \div Unit, (m[2] + n[2]) % Unit>>

(* The fields of models.Balance. *)
Confirmed == Sum(value_sats, request.confirmed)
Pending == Sum(value_sats, request.rows \ request.confirmed)
Total == Plus(Pending, Confirmed)

(* A balance is the true value of the outputs it adds up, never more, and   *)
(* at most one satoshi per output less: int64(value * 100000000) loses one  *)
(* where the product of the double falls below the integer.                 *)
BalanceNearlyExact ==
    request.kind = "balance" /\ request.done =>
        Difference(Sum(ValueOf, request.rows), Total) \in 0..Cardinality(request.rows)
=============================================================================
