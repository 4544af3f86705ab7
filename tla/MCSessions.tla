----------------------------- MODULE MCSessions -----------------------------
(* Instances of Sessions for TLC: two processes, every writer of which     *)
(* uses WithOneWriter.                                                     *)
EXTENDS Sessions, TLC

CONSTANTS p1, p2

TwoProcs == {p1, p2}

JustOneWriter == {{"one"}}
WritersAndReaders == {{"one"}, {"ro"}}
LockedWriters == {{"one"}, {"ro"}, {"one", "ro"}}

\* sound: every property treats the processes alike, and none is a liveness one
Swapped == Permutations(TwoProcs)
=============================================================================
