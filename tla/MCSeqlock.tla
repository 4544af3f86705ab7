----------------------------- MODULE MCSeqlock ------------------------------
(* Instances of Seqlock for TLC. A record has two fields of a word each,   *)
(* or a string of a prefix and a body and a field of a word after it. (A   *)
(* string of one word holds its prefix and a short body.)                  *)
EXTENDS Seqlock, TLC

CONSTANTS w1, w2, r1, v0, v1

OneWriter == {w1}
TwoWriters == {w1, w2}
OneReader == {r1}
TwoValues == {v0, v1}

\* schemas: the words of each field
TwoScalars == {{1}, {2}}
StringFirst == {{1, 2}, {3}}

NoField == {}
TheSecond == {{2}}
BodyFirst == {2}
=============================================================================
