------------------------------ MODULE MCStore -------------------------------
(* Instances of Store for TLC: two goroutines that append, up to two that  *)
(* sync, records of half a page.                                           *)
EXTENDS Store, TLC

CONSTANTS a1, a2, s1, s2

TwoAppenders == {a1, a2}
Nobody == {}
OneSyncer == {s1}
TwoSyncers == {s1, s2}
=============================================================================
