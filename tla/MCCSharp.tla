------------------------------ MODULE MCCSharp ------------------------------
(* CSharpIndexer on the small chains of MCData.                             *)
EXTENDS CSharpIndexer, MCData

ShortForked == {<< >>, <<"a1">>, <<"a1", "a2">>, <<"a1", "b2", "b3">>}
=============================================================================
