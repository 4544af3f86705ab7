--------------------------- MODULE MCSeqlockWeak ----------------------------
(* Instance of SeqlockWeak for TLC: a record of two scalar fields.         *)
EXTENDS SeqlockWeak, TLC

CONSTANTS w1, r1, v0, v1

OneWriter == {w1}
OneReader == {r1}
TwoValues == {v0, v1}
TwoScalars == {{1}, {2}}
NoField == {}
=============================================================================
