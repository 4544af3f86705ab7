---------------------------- MODULE OneWriterLog ----------------------------
(***************************************************************************)
(* What WithOneWriter promises: "only one writer process at a time".  A    *)
(* process enters when its CreateStore or OpenStore returns a store and    *)
(* leaves when it closes the store or dies; only the process that is       *)
(* inside appends, and nothing else, not the comings and goings of other   *)
(* processes nor a header flush, changes the number of records.            *)
(*                                                                         *)
(* Sessions implements this specification when every writer asks for it.   *)
(* No line of the repository is modelled here.                             *)
(***************************************************************************)
EXTENDS Naturals

CONSTANT Procs

VARIABLES
  inside,   \* the processes that have the store open for writing
  count     \* the number of records

Init == inside = {} /\ count = 0

Enter(p) == inside = {} /\ inside' = {p} /\ UNCHANGED count

Leave == inside # {} /\ inside' = {} /\ UNCHANGED count

Append == inside # {} /\ count' = count + 1 /\ UNCHANGED inside

Next == (\E p \in Procs : Enter(p)) \/ Leave \/ Append

Spec == Init /\ [][Next]_<<inside, count>>
=============================================================================
