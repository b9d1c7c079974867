------------------------ MODULE AddressExtractorProofs ------------------------
(* Proofs about AddressExtractor, for every set of scripts. *)
EXTENDS AddressExtractor, TLAPS

(* The two implementations have the same tables. *)
LEMMA SameTables == CsTemplate = Template /\ CsHashSlice = HashSlice
BY DEF CsTemplate, Template, CsHashSlice, HashSlice

(* The five templates. *)
LEMMA TemplateNames ==
    /\ DOMAIN Template = {"p2pkh", "p2sh", "p2wpkh", "p2wsh", "p2tr"}
    /\ DOMAIN HashSlice = DOMAIN Template
BY DEF Template, HashSlice

(* The fixed slices are exactly what the templates push. *)
LEMMA SlicesArePayees ==
    \A k \in DOMAIN Template : PayeeBytes(Template[k]) = HashSlice[k][1]..HashSlice[k][2]
<1>1. /\ Template["p2pkh"].prefix = <<\h76, \ha9, \h14>>
      /\ Template["p2sh"].prefix = <<\ha9, \h14>>
      /\ Template["p2wpkh"].prefix = <<\h00, \h14>>
      /\ Template["p2wsh"].prefix = <<\h00, \h20>>
      /\ Template["p2tr"].prefix = <<\h51, \h20>>
  BY DEF Template
<1>2. PayeeBytes(Template["p2pkh"]) = HashSlice["p2pkh"][1]..HashSlice["p2pkh"][2]
  <2>1. PayeeBytes(Template["p2pkh"]) = 4..23
    BY <1>1 DEF PayeeBytes
  <2> QED
    BY <2>1 DEF HashSlice
<1>3. PayeeBytes(Template["p2sh"]) = HashSlice["p2sh"][1]..HashSlice["p2sh"][2]
  <2>1. PayeeBytes(Template["p2sh"]) = 3..22
    BY <1>1 DEF PayeeBytes
  <2> QED
    BY <2>1 DEF HashSlice
<1>4. PayeeBytes(Template["p2wpkh"]) = HashSlice["p2wpkh"][1]..HashSlice["p2wpkh"][2]
  <2>1. PayeeBytes(Template["p2wpkh"]) = 3..22
    BY <1>1 DEF PayeeBytes
  <2> QED
    BY <2>1 DEF HashSlice
<1>5. PayeeBytes(Template["p2wsh"]) = HashSlice["p2wsh"][1]..HashSlice["p2wsh"][2]
  <2>1. PayeeBytes(Template["p2wsh"]) = 3..34
    BY <1>1 DEF PayeeBytes
  <2> QED
    BY <2>1 DEF HashSlice
<1>6. PayeeBytes(Template["p2tr"]) = HashSlice["p2tr"][1]..HashSlice["p2tr"][2]
  <2>1. PayeeBytes(Template["p2tr"]) = 3..34
    BY <1>1 DEF PayeeBytes
  <2> QED
    BY <2>1 DEF HashSlice
<1> QED
  BY <1>2, <1>3, <1>4, <1>5, <1>6, TemplateNames

(* A script gets one type in both implementations. *)
LEMMA SameType ==
    ASSUME NEW s
    PROVE  CsGetScriptTypeFromHex(s) = GetScriptTypeFromHex(s)
BY SameTables DEF CsGetScriptTypeFromHex, GetScriptTypeFromHex

(* The type in words: the empty script, a template, or one of the rest. *)
LEMMA TypeCases ==
    ASSUME NEW s
    PROVE  /\ s = << >> => GetScriptTypeFromHex(s) = "empty"
           /\ s # << >> /\ HasTypeIn(Template, s) =>
                 GetScriptTypeFromHex(s) = TypeIn(Template, s)
           /\ s # << >> /\ ~HasTypeIn(Template, s) =>
                 GetScriptTypeFromHex(s) \in {"op_return", "unknown"}
BY DEF GetScriptTypeFromHex

(* Extraction agrees on every script but the empty one. *)
LEMMA SameAddress ==
    ASSUME NEW s, s # << >>, NEW v
    PROVE  ExtractAddressFromScriptPubKey(ScriptPubKey(s, v))
             = CsExtractAddressFromScriptPubKey(ScriptPubKey(s, v))
<1>1. GetScriptTypeFromHex(s) # "empty"
  BY TypeCases, TemplateNames DEF TypeIn, HasTypeIn
<1>2. CsDeriveAddressFromScript(s) = DeriveAddressFromScript(s)
  BY <1>1, SameType, SameTables DEF CsDeriveAddressFromScript, DeriveAddressFromScript
<1>3. ScriptPubKey(s, v).hex = s
  BY DEF ScriptPubKey
<1> QED
  BY <1>2, <1>3 DEF ExtractAddressFromScriptPubKey, CsExtractAddressFromScriptPubKey

(* Whatever the outputs are, both databases hold them under one address. *)
THEOREM ExtractorsAgreeAlways == Spec => []ExtractorsAgree
<1>1. Init => ExtractorsAgree
  BY DEF Init, ExtractorsAgree
<1>2. ExtractorsAgree /\ [Next]_outputs => ExtractorsAgree'
  <2> SUFFICES ASSUME ExtractorsAgree, [Next]_outputs PROVE ExtractorsAgree'
    OBVIOUS
  <2>1. ASSUME NEW s \in Scripts, NEW v \in Version, StoreOutput(s, v) PROVE ExtractorsAgree'
    BY <2>1, SameAddress DEF StoreOutput, Output, ExtractorsAgree
  <2>2. CASE UNCHANGED outputs
    BY <2>2 DEF ExtractorsAgree
  <2> QED
    BY <2>1, <2>2 DEF Next
<1> QED
  BY <1>1, <1>2, PTL DEF Spec

-----------------------------------------------------------------------------
(* Equal pairs have equal parts. *)
LEMMA PairParts ==
    ASSUME NEW a, NEW b, NEW c, NEW d, <<a, b>> = <<c, d>>
    PROVE  a = c /\ b = d
OBVIOUS

(* Equal slices of two long enough scripts have equal bytes. *)
LEMMA SliceBytes ==
    ASSUME NEW s \in Seq(0..255), NEW t \in Seq(0..255), NEW a \in Nat \ {0}, NEW b \in Nat,
           b <= Len(s), b <= Len(t), SubSeq(s, a, b) = SubSeq(t, a, b)
    PROVE  \A i \in a..b : s[i] = t[i]
<1> SUFFICES ASSUME NEW i \in a..b PROVE s[i] = t[i]
  OBVIOUS
<1>1. i - a + 1 \in 1..(b - a + 1)
  OBVIOUS
<1>2. SubSeq(s, a, b)[i - a + 1] = s[i] /\ SubSeq(t, a, b)[i - a + 1] = t[i]
  BY <1>1
<1> QED
  BY <1>2

(* A script with a template is as long as its hash reaches, and its derived *)
(* address is its type with the hash.                                       *)
LEMMA TemplateAddress ==
    ASSUME NEW s \in Seq(0..255), HasTypeIn(Template, s)
    PROVE  /\ TypeIn(Template, s) \in DOMAIN Template
           /\ HashSlice[TypeIn(Template, s)][1] \in Nat \ {0}
           /\ HashSlice[TypeIn(Template, s)][2] \in Nat
           /\ HashSlice[TypeIn(Template, s)][2] <= Len(s)
           /\ GetScriptType(s) = TypeIn(Template, s)
           /\ DeriveAddressFromScript(s) =
                <<TypeIn(Template, s), SubSeq(s, HashSlice[TypeIn(Template, s)][1],
                                                 HashSlice[TypeIn(Template, s)][2])>>
<1> DEFINE k == TypeIn(Template, s)
<1>1. k \in DOMAIN Template /\ Matches(s, Template[k])
  BY DEF HasTypeIn, TypeIn
<1>2. Len(s) = Template[k].len
  BY <1>1 DEF Matches
<1>3. /\ HashSlice[k][1] \in Nat \ {0}
      /\ HashSlice[k][2] \in Nat
      /\ HashSlice[k][2] <= Template[k].len
      /\ Template[k].len # 0
  BY <1>1, TemplateNames DEF Template, HashSlice
<1>4. s # << >>
  BY <1>2, <1>3
<1>5. GetScriptTypeFromHex(s) = k
  BY <1>4, TypeCases
<1>6. DeriveAddressFromScript(s) = <<k, SubSeq(s, HashSlice[k][1], HashSlice[k][2])>>
  BY <1>1, <1>5, TemplateNames DEF DeriveAddressFromScript
<1> QED
  BY <1>1, <1>2, <1>3, <1>6 DEF GetScriptType

(* A script without a template never gets the address of one. *)
LEMMA OtherAddress ==
    ASSUME NEW s, ~HasTypeIn(Template, s)
    PROVE  /\ GetScriptType(s) = "unknown"
           /\ DeriveAddressFromScript(s)[1] \in {"op_return", "null_data", "script"}
<1>1. GetScriptTypeFromHex(s) \in {"empty", "op_return", "unknown"}
  BY TypeCases
<1>2. GetScriptTypeFromHex(s) \notin DOMAIN HashSlice
  BY <1>1, TemplateNames
<1>3. DataAddress(s)[1] \in {"op_return", "null_data"}
  BY DEF DataAddress
<1> QED
  BY <1>2, <1>3 DEF GetScriptType, DeriveAddressFromScript

(* The first word of a derived address is never "node". *)
LEMMA DerivedKinds ==
    ASSUME NEW s \in Seq(0..255)
    PROVE  DeriveAddressFromScript(s)[1] # "node"
BY TemplateAddress, OtherAddress, TemplateNames

(* So a script with a template and one without never share an address. *)
LEMMA KindsDiffer ==
    ASSUME NEW s \in Seq(0..255), NEW t \in Seq(0..255),
           DeriveAddressFromScript(s) = DeriveAddressFromScript(t)
    PROVE  HasTypeIn(Template, s) <=> HasTypeIn(Template, t)
<1>1. ASSUME NEW x \in Seq(0..255), HasTypeIn(Template, x)
      PROVE  DeriveAddressFromScript(x)[1] \in DOMAIN Template
  BY <1>1, TemplateAddress
<1>2. ASSUME NEW x \in Seq(0..255), ~HasTypeIn(Template, x)
      PROVE  DeriveAddressFromScript(x)[1] \notin DOMAIN Template
  BY <1>2, OtherAddress, TemplateNames
<1> QED
  BY <1>1, <1>2

(* What the node sends is the address of the script itself, or nothing. *)
LEMMA NodeOrDerived ==
    ASSUME NEW s, NEW v \in Version
    PROVE  \/ ExtractAddressFromScriptPubKey(ScriptPubKey(s, v)) = <<"node", s>>
           \/ ExtractAddressFromScriptPubKey(ScriptPubKey(s, v)) = DeriveAddressFromScript(s)
BY DEF ScriptPubKey, ExtractAddressFromScriptPubKey

(* Two scripts with one address have one type and, in a template, one hash. *)
LEMMA AddressNamesPayee ==
    ASSUME NEW s \in Seq(0..255), NEW t \in Seq(0..255), NEW v \in Version, NEW w \in Version,
           ExtractAddressFromScriptPubKey(ScriptPubKey(s, v))
             = ExtractAddressFromScriptPubKey(ScriptPubKey(t, w))
    PROVE  /\ GetScriptType(s) = GetScriptType(t)
           /\ GetScriptType(s) # "unknown" =>
                 \A i \in HashSlice[GetScriptType(s)][1]..HashSlice[GetScriptType(s)][2] : s[i] = t[i]
<1>1. CASE s = t
  BY <1>1
<1>2. CASE s # t
  <2>1. DeriveAddressFromScript(s) = DeriveAddressFromScript(t)
    BY <1>2, NodeOrDerived, DerivedKinds
  <2>2. CASE ~HasTypeIn(Template, s) /\ ~HasTypeIn(Template, t)
    BY <2>2, OtherAddress
  <2>3. HasTypeIn(Template, s) <=> HasTypeIn(Template, t)
    BY <2>1, KindsDiffer
  <2>4. CASE HasTypeIn(Template, s) /\ HasTypeIn(Template, t)
    <3> DEFINE k == TypeIn(Template, s)
    <3> DEFINE m == TypeIn(Template, t)
    <3>1. /\ <<k, SubSeq(s, HashSlice[k][1], HashSlice[k][2])>>
               = <<m, SubSeq(t, HashSlice[m][1], HashSlice[m][2])>>
          /\ HashSlice[k][1] \in Nat \ {0} /\ HashSlice[k][2] \in Nat
          /\ HashSlice[k][2] <= Len(s) /\ HashSlice[m][2] <= Len(t)
      BY <2>1, <2>4, TemplateAddress
    <3>2. k = m /\ SubSeq(s, HashSlice[k][1], HashSlice[k][2]) = SubSeq(t, HashSlice[m][1], HashSlice[m][2])
      BY <3>1, PairParts
    <3>3. HashSlice[k][2] <= Len(t) /\ SubSeq(s, HashSlice[k][1], HashSlice[k][2])
                                        = SubSeq(t, HashSlice[k][1], HashSlice[k][2])
      BY <3>1, <3>2
    <3>4. \A i \in HashSlice[k][1]..HashSlice[k][2] : s[i] = t[i]
      <4>1. PICK a \in Nat \ {0}, b \in Nat : a = HashSlice[k][1] /\ b = HashSlice[k][2]
        BY <3>1
      <4>2. b <= Len(s) /\ b <= Len(t) /\ SubSeq(s, a, b) = SubSeq(t, a, b)
        BY <3>1, <3>3, <4>1
      <4>3. \A i \in a..b : s[i] = t[i]
        BY <4>2, SliceBytes
      <4> QED
        BY <4>1, <4>3
    <3>5. GetScriptType(s) = k /\ GetScriptType(t) = m
      BY <2>4, TemplateAddress
    <3> QED
      BY <3>2, <3>4, <3>5
  <2> QED
    BY <2>1, <2>2, <2>3, <2>4
<1> QED
  BY <1>1, <1>2

(* Every row is the row of some output. *)
RowsAreOutputs == \A r \in outputs : \E s \in Scripts, v \in Version : r = Output(s, v)

(* An address of a template names one payee, whatever is stored. *)
THEOREM PayeesKeptApartAlways == Spec => []PayeesKeptApart
<1>1. Init => RowsAreOutputs
  BY DEF Init, RowsAreOutputs
<1>2. RowsAreOutputs /\ [Next]_outputs => RowsAreOutputs'
  BY DEF Next, StoreOutput, RowsAreOutputs
<1>3. RowsAreOutputs => PayeesKeptApart
  <2> SUFFICES ASSUME RowsAreOutputs, NEW q \in outputs, NEW r \in outputs, q.go = r.go
               PROVE  /\ q.type = r.type
                      /\ q.type # "unknown" =>
                            \A i \in PayeeBytes(Template[q.type]) : q.script[i] = r.script[i]
    BY DEF PayeesKeptApart
  <2>1. PICK s \in Scripts, v \in Version : q = Output(s, v)
    BY DEF RowsAreOutputs
  <2>2. PICK t \in Scripts, w \in Version : r = Output(t, w)
    BY DEF RowsAreOutputs
  <2>3. s \in Seq(0..255) /\ t \in Seq(0..255)
    BY ScriptsAssumption
  <2>4. /\ q.script = s /\ q.type = GetScriptType(s)
        /\ q.go = ExtractAddressFromScriptPubKey(ScriptPubKey(s, v))
    BY <2>1 DEF Output
  <2>5. /\ r.script = t /\ r.type = GetScriptType(t)
        /\ r.go = ExtractAddressFromScriptPubKey(ScriptPubKey(t, w))
    BY <2>2 DEF Output
  <2>6. /\ GetScriptType(s) = GetScriptType(t)
        /\ GetScriptType(s) # "unknown" =>
              \A i \in HashSlice[GetScriptType(s)][1]..HashSlice[GetScriptType(s)][2] : s[i] = t[i]
    <3>1. ExtractAddressFromScriptPubKey(ScriptPubKey(s, v))
            = ExtractAddressFromScriptPubKey(ScriptPubKey(t, w))
      BY <2>4, <2>5
    <3> QED
      BY <2>3, <3>1, AddressNamesPayee
  <2>7. q.type # "unknown" =>
            PayeeBytes(Template[q.type]) = HashSlice[q.type][1]..HashSlice[q.type][2]
    BY <2>3, <2>4, TemplateAddress, OtherAddress, SlicesArePayees
  <2> QED
    BY <2>4, <2>5, <2>6, <2>7
<1> QED
  BY <1>1, <1>2, <1>3, PTL DEF Spec

(* The two classifications of an output never contradict each other. *)
THEOREM KindMatchesTypeAlways == Spec => []KindMatchesType
<1>1. Init => RowsAreOutputs
  BY DEF Init, RowsAreOutputs
<1>2. RowsAreOutputs /\ [Next]_outputs => RowsAreOutputs'
  BY DEF Next, StoreOutput, RowsAreOutputs
<1>3. RowsAreOutputs => KindMatchesType
  <2> SUFFICES ASSUME RowsAreOutputs, NEW r \in outputs, r.go[1] # "node"
               PROVE  IF r.go[1] \in DOMAIN Template THEN r.type = r.go[1] ELSE r.type = "unknown"
    BY DEF KindMatchesType
  <2>1. PICK s \in Scripts, v \in Version : r = Output(s, v)
    BY DEF RowsAreOutputs
  <2>2. /\ r.type = GetScriptType(s)
        /\ r.go = ExtractAddressFromScriptPubKey(ScriptPubKey(s, v))
    BY <2>1 DEF Output
  <2>3. r.go = DeriveAddressFromScript(s)
    BY <2>2, NodeOrDerived
  <2>4. s \in Seq(0..255)
    BY ScriptsAssumption
  <2>5. CASE HasTypeIn(Template, s)
    BY <2>2, <2>3, <2>4, <2>5, TemplateAddress
  <2>6. CASE ~HasTypeIn(Template, s)
    BY <2>2, <2>3, <2>6, OtherAddress, TemplateNames
  <2> QED
    BY <2>5, <2>6
<1> QED
  BY <1>1, <1>2, <1>3, PTL DEF Spec
=============================================================================
