----------------------------- MODULE AppendLog ------------------------------
(***************************************************************************)
(* What Append promises: "Append adds a new zero-filled record and returns *)
(* its index".  Indices are handed out one by one from 0, and the number   *)
(* of records only ever changes by an Append that returns its index.       *)
(* Store implements this when callers do not run Sync during an Append.    *)
(* No line of the repository is modelled here.                             *)
(***************************************************************************)
EXTENDS Naturals

VARIABLES
  count,    \* the number of records
  issued    \* the indices returned so far

Init == count = 0 /\ issued = {}

Append ==
  /\ count \notin issued
  /\ count' = count + 1
  /\ issued' = issued \cup {count}

Spec == Init /\ [][Append]_<<count, issued>>
=============================================================================
