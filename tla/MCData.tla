------------------------------- MODULE MCData -------------------------------
(* Small chains, shared by the model-checking modules.  The fork b2-b3-b4   *)
(* leaves the chain a1-a2-a3 after a1 and repeats transaction t of block a2 *)
(* in block b3.                                                             *)

MCBlock == {"g", "a1", "a2", "a3", "b2", "b3", "b4"}
MCHeightOf == [g |-> 0, a1 |-> 1, a2 |-> 2, a3 |-> 3, b2 |-> 2, b3 |-> 3, b4 |-> 4]
MCTx == {"cg", "ca1", "ca2", "ca3", "cb2", "cb3", "cb4", "t", "u"}
MCCoinbase == [g |-> "cg", a1 |-> "ca1", a2 |-> "ca2", a3 |-> "ca3", b2 |-> "cb2", b3 |-> "cb3", b4 |-> "cb4"]

MCLinear == {<< >>, <<"a1">>, <<"a1", "a2">>, <<"a1", "a2", "a3">>}
MCForked == MCLinear \cup {<<"a1", "b2", "b3">>, <<"a1", "b2", "b3", "b4">>}

(* t spends the coinbase of a1; u spends an output of t and one of ca2.     *)
MCOutPoint == {"cg.0", "ca1.0", "ca2.0", "ca3.0", "cb2.0", "cb3.0", "cb4.0", "t.0", "t.1", "u.0"}
MCCreator ==
    [o \in MCOutPoint |->
        CASE o = "cg.0" -> "cg" [] o = "ca1.0" -> "ca1" [] o = "ca2.0" -> "ca2" [] o = "ca3.0" -> "ca3"
          [] o = "cb2.0" -> "cb2" [] o = "cb3.0" -> "cb3" [] o = "cb4.0" -> "cb4"
          [] o \in {"t.0", "t.1"} -> "t" [] o = "u.0" -> "u"]
MCSortKey ==
    [o \in MCOutPoint |->
        CASE o = "cg.0" -> 0 [] o = "ca1.0" -> 1 [] o = "ca2.0" -> 5 [] o = "ca3.0" -> 3
          [] o = "cb2.0" -> 4 [] o = "cb3.0" -> 2 [] o = "cb4.0" -> 6
          [] o = "t.0" -> 7 [] o = "t.1" -> 8 [] o = "u.0" -> 9]

MCScript == {"s1", "s2", "s3"}
MCAddress == {"addr1", "addr2", "addr3"}
MCAddressOf == [s1 |-> "addr1", s2 |-> "addr2", s3 |-> "addr3"]

(* Both inputs of u come from s2: block a3 is refused once s2 is watched.   *)
MCScriptOf ==
    [o \in MCOutPoint |->
        CASE o \in {"ca1.0", "cb3.0", "u.0"} -> "s1"
          [] o \in {"ca2.0", "cb2.0", "t.1"} -> "s2"
          [] OTHER -> "s3"]

MCTxsOf ==
    [g |-> {"cg"}, a1 |-> {"ca1"}, a2 |-> {"ca2", "t"}, a3 |-> {"ca3", "u"},
     b2 |-> {"cb2"}, b3 |-> {"cb3", "t"}, b4 |-> {"cb4"}]
MCVin == [x \in MCTx |-> CASE x = "t" -> {"ca1.0"} [] x = "u" -> {"t.1", "ca2.0"} [] OTHER -> {}]

(* u spends t in the block that creates t. *)
SameBlockTxsOf == [MCTxsOf EXCEPT !["a2"] = {"ca2", "t", "u"}, !["a3"] = {"ca3"}]
SameBlockVin == [MCVin EXCEPT !["u"] = {"t.1"}]

(* t and u spend outputs of earlier blocks in the same block. *)
TwoSpendersTxsOf == [MCTxsOf EXCEPT !["a2"] = {"ca2"}, !["a3"] = {"ca3", "t", "u"}]
TwoSpendersVin == [MCVin EXCEPT !["u"] = {"ca2.0"}]
=============================================================================
