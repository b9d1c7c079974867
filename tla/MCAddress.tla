------------------------------ MODULE MCAddress ------------------------------
(* Scripts around every template and every length at which the code turns.  *)
EXTENDS AddressExtractor

(* The beginnings of the five templates and of a data output, and two that  *)
(* miss a template by one byte.                                             *)
Beginnings == {<<\h76, \ha9, \h14>>, <<\ha9, \h14>>, <<\h00, \h14>>, <<\h00, \h20>>, <<\h51, \h20>>,
               <<OP_RETURN>>, <<\h76, \ha9, \h15>>, <<\h52, \h20>>}
Lengths == {3, 9, 22, 23, 25, 34}

(* Contents that differ from the ninth byte on, near the end of a hash, or  *)
(* only behind the hash of a p2pkh script.                                  *)
Filled(p, n, x, k) == [i \in 1..n |-> IF i <= Len(p) THEN p[i] ELSE IF i >= k THEN x ELSE 1]
Long == {Filled(p, n, 2, k) : p \in Beginnings, n \in Lengths, k \in {9, 21, 24, 35}}
Short == {<< >>, <<OP_RETURN>>, <<OP_RETURN, 1>>, <<OP_RETURN, 2>>, <<\h51>>}

MCScripts == Long \cup Short
MCAddressed == {s \in Long : HasTypeIn(Template, s) /\ s[Len(s)] = 1}
=============================================================================
