--------------------------- MODULE AddressExtractor ---------------------------
(***************************************************************************)
(* How an output gets the address under which it is stored, in Go           *)
(* (internal/parser/address_extractor.go) and in C#                         *)
(* (Utilities/AddressExtractor.cs), and the script type stored next to it.  *)
(* A script is the sequence of its bytes; the code slices hex strings, two  *)
(* characters to a byte and always between bytes.  An address is a pair of  *)
(* the word before the underscore and the bytes after it.                   *)
(***************************************************************************)
EXTENDS Integers, Sequences, FiniteSets

CONSTANTS
    Scripts,        \* the scriptPubKeys that outputs have
    Addressed,      \* those for which the node knows an address
    MaxOutputs      \* how many outputs a behaviour stores

ASSUME ScriptsAssumption ==
    /\ Scripts \subseteq Seq(0..255)
    /\ Addressed \subseteq Scripts
    /\ MaxOutputs \in Nat

VARIABLE outputs    \* stored outputs: script, both addresses and the type

(* The scriptPubKey object of the node's JSON: newer versions fill address, *)
(* older ones addresses.  An address stands for its script.                 *)
Version == {"newer", "older"}
ScriptPubKey(s, v) ==
    [address   |-> IF s \in Addressed /\ v = "newer" THEN <<s>> ELSE << >>,
     addresses |-> IF s \in Addressed /\ v = "older" THEN <<s>> ELSE << >>,
     hex       |-> s]

-----------------------------------------------------------------------------
(* Script templates *)

(* A script has a template when its length and its first bytes are these.   *)
Matches(s, t) ==
    /\ Len(s) = t.len
    /\ \A i \in 1..Len(t.prefix) : s[i] = t.prefix[i]

OP_RETURN == \h6a

Template ==
    [p2pkh  |-> [len |-> 25, prefix |-> <<\h76, \ha9, \h14>>],
     p2sh   |-> [len |-> 23, prefix |-> <<\ha9, \h14>>],
     p2wpkh |-> [len |-> 22, prefix |-> <<\h00, \h14>>],
     p2wsh  |-> [len |-> 34, prefix |-> <<\h00, \h20>>],
     p2tr   |-> [len |-> 34, prefix |-> <<\h51, \h20>>]]

(* Mutant: only the first eight bytes of the hash are kept. *)
HashSliceShort ==
    [p2pkh |-> <<4, 11>>, p2sh |-> <<3, 10>>, p2wpkh |-> <<3, 10>>, p2wsh |-> <<3, 10>>, p2tr |-> <<3, 10>>]

(* The first and the last byte of the hash that names the payee. *)
HashSlice ==
    [p2pkh |-> <<4, 23>>, p2sh |-> <<3, 22>>, p2wpkh |-> <<3, 22>>, p2wsh |-> <<3, 34>>, p2tr |-> <<3, 34>>]

(* The same five templates, as the C# code has them. *)
CsTemplate ==
    [p2pkh  |-> [len |-> 25, prefix |-> <<\h76, \ha9, \h14>>],
     p2sh   |-> [len |-> 23, prefix |-> <<\ha9, \h14>>],
     p2wpkh |-> [len |-> 22, prefix |-> <<\h00, \h14>>],
     p2wsh  |-> [len |-> 34, prefix |-> <<\h00, \h20>>],
     p2tr   |-> [len |-> 34, prefix |-> <<\h51, \h20>>]]

(* Mutant: a Substring(4, ...) where the prefix has three bytes. *)
CsHashSliceEarly ==
    [p2pkh |-> <<3, 22>>, p2sh |-> <<3, 22>>, p2wpkh |-> <<3, 22>>, p2wsh |-> <<3, 34>>, p2tr |-> <<3, 34>>]

CsHashSlice ==
    [p2pkh |-> <<4, 23>>, p2sh |-> <<3, 22>>, p2wpkh |-> <<3, 22>>, p2wsh |-> <<3, 34>>, p2tr |-> <<3, 34>>]

TypeIn(templates, s) == CHOOSE k \in DOMAIN templates : Matches(s, templates[k])
HasTypeIn(templates, s) == \E k \in DOMAIN templates : Matches(s, templates[k])

-----------------------------------------------------------------------------
(* The Go extractor *)

GetScriptTypeFromHex(s) ==
    IF s = << >> THEN "empty"
    ELSE IF HasTypeIn(Template, s) THEN TypeIn(Template, s)
    ELSE IF s[1] = OP_RETURN THEN "op_return" ELSE "unknown"

(* Mutant: the length of a taproot script is not looked at. *)
GetScriptTypeByPrefix(s) ==
    IF Len(s) >= 2 /\ s[1] = \h51 /\ s[2] = \h20 THEN "p2tr"
    ELSE IF HasTypeIn(Template, s) THEN TypeIn(Template, s) ELSE "unknown"

(* The type for transaction_output.script_type knows only the templates. *)
GetScriptType(s) == IF HasTypeIn(Template, s) THEN TypeIn(Template, s) ELSE "unknown"

(* At most the first n bytes of s. *)
Upto(s, n) == SubSeq(s, 1, IF Len(s) < n THEN Len(s) ELSE n)

(* What is left of a data output: sixteen characters after the opcode. *)
DataAddress(s) ==
    IF Len(s) > 2 THEN <<"op_return", Upto(Tail(s), 8)>> ELSE <<"null_data", << >>>>

(* A template gives its whole hash, OP_RETURN its first data bytes, and     *)
(* everything else the first eight bytes of the script.                     *)
DeriveAddressFromScript(s) ==
    LET type == GetScriptTypeFromHex(s) IN
    IF type \in DOMAIN HashSlice THEN <<type, SubSeq(s, HashSlice[type][1], HashSlice[type][2])>>
    ELSE IF type = "op_return" THEN DataAddress(s)
    ELSE <<"script", Upto(s, 8)>>

(* address, then addresses[0], then the script. *)
ExtractAddressFromScriptPubKey(spk) ==
    IF spk.address # << >> THEN <<"node", spk.address[1]>>
    ELSE IF spk.addresses # << >> THEN <<"node", spk.addresses[1]>>
    ELSE DeriveAddressFromScript(spk.hex)

-----------------------------------------------------------------------------
(* The C# extractor *)

CsGetScriptTypeFromHex(s) ==
    IF s = << >> THEN "empty"
    ELSE IF HasTypeIn(CsTemplate, s) THEN TypeIn(CsTemplate, s)
    ELSE IF s[1] = OP_RETURN THEN "op_return" ELSE "unknown"

(* An empty script has a name of its own, which Go does not give it. *)
CsDeriveAddressFromScript(s) ==
    LET type == CsGetScriptTypeFromHex(s) IN
    IF type = "empty" THEN <<"empty_script", << >>>>
    ELSE IF type \in DOMAIN CsHashSlice THEN <<type, SubSeq(s, CsHashSlice[type][1], CsHashSlice[type][2])>>
    ELSE IF type = "op_return" THEN DataAddress(s)
    ELSE <<"script", Upto(s, 8)>>

CsExtractAddressFromScriptPubKey(spk) ==
    IF spk.address # << >> THEN <<"node", spk.address[1]>>
    ELSE IF spk.addresses # << >> THEN <<"node", spk.addresses[1]>>
    ELSE CsDeriveAddressFromScript(spk.hex)

-----------------------------------------------------------------------------
(* Outputs are stored *)

Init == outputs = {}

(* The row of an output: UTXO.Address in both databases, and the script     *)
(* type ProcessTransactionsBatchInTx puts into transaction_output.          *)
Output(s, v) ==
    [script |-> s,
     go     |-> ExtractAddressFromScriptPubKey(ScriptPubKey(s, v)),
     cs     |-> CsExtractAddressFromScriptPubKey(ScriptPubKey(s, v)),
     type   |-> GetScriptType(s)]

StoreOutput(s, v) ==
    /\ Cardinality(outputs) < MaxOutputs
    /\ outputs' = outputs \cup {Output(s, v)}

Next == \E s \in Scripts, v \in Version : StoreOutput(s, v)

Spec == Init /\ [][Next]_outputs
-----------------------------------------------------------------------------
(* Properties *)

(* IMPLEMENTATION_COMPARISON.md:55 says that the C# extraction matches the  *)
(* Go one: an output is found under the same address in both databases.     *)
(* The empty script is the one exception the code makes ("script_" against  *)
(* "empty_script").                                                         *)
ExtractorsAgree == \A r \in outputs : r.script # << >> => r.go = r.cs

(* Where a template has its payee: the bytes that its last opcode pushes.   *)
PayeeBytes(t) == (Len(t.prefix) + 1)..(Len(t.prefix) + t.prefix[Len(t.prefix)])

(* Outputs of different payees are never listed under one address: two      *)
(* outputs with the same address have the same stored script type, and if   *)
(* that is one of the templates, the same hash to its last byte (other      *)
(* scripts share an address as soon as their first bytes are equal).        *)
PayeesKeptApart ==
    \A q, r \in outputs : q.go = r.go =>
        /\ q.type = r.type
        /\ q.type # "unknown" => \A i \in PayeeBytes(Template[q.type]) : q.script[i] = r.script[i]

(* The address kind and the stored script type, computed by two functions   *)
(* of the parser, classify an output alike.                                 *)
KindMatchesType ==
    \A r \in outputs : r.go[1] # "node" =>
        IF r.go[1] \in DOMAIN Template THEN r.type = r.go[1] ELSE r.type = "unknown"
=============================================================================
