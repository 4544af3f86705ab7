----------------------------- MODULE MCCodegen ------------------------------
(* Instances of Codegen for TLC: all sources of one struct with up to      *)
(* three of twelve kinds of field; all of two structs with up to two of    *)
(* seven kinds, which read as two versions of one schema; and structs with *)
(* every kind of comment, some of whose names differ only in case.         *)
EXTENDS Codegen

Lower == [T |-> "t", U |-> "u", Tt |-> "tt", TT |-> "tt", A |-> "a", B |-> "b", C |-> "c", X |-> "x"]

Field(goName, type, tagName, tagSize) ==
  [names |-> <<goName>>, type |-> type, tagName |-> tagName, tagSize |-> tagSize]

A8 == Field("A", "uint8", "", 0)
B64 == Field("B", "uint64", "", 0)
B16 == Field("B", "int16", "b", 0)
C3 == Field("C", "string", "c", 3)
C9 == Field("C", "[]byte", "c", 9)
C9Text == Field("C", "string", "c", 9)
C37 == Field("C", "string", "c", 37)

Kinds == {
  A8, B64, B16, C3, C37,
  Field("X", "float32", "a", 0),      \* named like field A
  Field("C", "string", "", 0),        \* no max_size
  Field("C", "string", "c", 60),      \* a max_size that overflows
  Field("C", "map", "", 0),
  Field("C", "string", "c", BadSize),
  [A8 EXCEPT !.names = <<>>],         \* embedded
  [B64 EXCEPT !.names = <<"B", "X">>]}

Fieldss(kinds, n) == UNION {[1 .. k -> kinds] : k \in 0 .. n}

Struct(name, fields1) ==
  [name |-> name, above |-> "version", beside |-> "none", fields |-> fields1]

SingleStructs == {<<Struct("T", f)>> : f \in Fieldss(Kinds, 3)}
Pairs == {<<Struct("T", f), Struct("U", g)>> :
            f, g \in Fieldss({A8, B64, B16, C3, C9, C9Text, [A8 EXCEPT !.type = "bool"]}, 2)}
Directives == {"none", "bad", "version"}
Commented ==
  {<<[Struct("Tt", <<B64>>) EXCEPT !.above = a, !.beside = b],
     [Struct(name, <<A8, C3>>) EXCEPT !.above = c, !.beside = d]>> :
     a, b, c, d \in Directives, name \in {"TT", "U"}}

AllSources == SingleStructs \cup Pairs \cup Commented
NoCalls == {}
=============================================================================
