---------------------------- MODULE MCApiQueries ----------------------------
(* The queries on the small chains of MCData; t pays change to the script   *)
(* that its input had.                                                      *)
EXTENDS Balances, MCData

ChangeScriptOf == [MCScriptOf EXCEPT !["t.0"] = "s1"]

(* The amounts of t.0 and u.0 lose a satoshi. *)
MCValueOf ==
    [o \in MCOutPoint |->
        CASE o = "t.0" -> <<0, 29000000>>
          [] o = "t.1" -> <<49, 71000000>>
          [] o = "u.0" -> <<80, 57000000>>
          [] OTHER -> <<50, 0>>]

(* What the compiled conversion does to the amounts 0.01 to 1.00 BTC, to    *)
(* some larger ones and to the limits of the range.                         *)
ASSUME ConversionSample ==
    /\ \A c \in 1..100 : Lost(<<(c * 1000000) \div Unit, (c * 1000000) % Unit>>)
                            = IF c \in {29, 57, 58} THEN 1 ELSE 0
    /\ \A b \in 1..100 : Lost(<<b, 29000000>>) = IF b \in 8..10 THEN 1 ELSE 0
    /\ \A b \in 1..99 : Lost(<<b, 57000000>>) = IF b = 2 \/ b \in 64..85 THEN 1 ELSE 0
    /\ \A n \in {<<0, 0>>, <<0, 1>>, <<20999999, 99999999>>} : Lost(n) = 0

(* The run is about a node that only extends its chain. *)
ASSUME ChainsOnlyGrow == NeverReorganised
=============================================================================
