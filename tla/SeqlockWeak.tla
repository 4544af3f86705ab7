---------------------------- MODULE SeqlockWeak -----------------------------
(***************************************************************************)
(* Seqlock on arm64, where the loads of a getter may be satisfied out of   *)
(* order.  Its loads of the counter, and fieldSlice's of the record count, *)
(* are atomic, which is LDAR: an acquire load comes before every access    *)
(* after it in program order, but says nothing of the plain loads before   *)
(* it.  So the load of SeqReadBegin comes first; that of SeqReadValid may  *)
(* come before loads of fields, and these in any order.  Increments of a   *)
(* counter are full barriers and setters are as in Seqlock.                *)
(*                                                                         *)
(* A getter goes on by what SeqReadValid's load saw once all its loads     *)
(* have been satisfied.  Bounds are those of Seqlock.                      *)
(***************************************************************************)
EXTENDS Seqlock

CONSTANT LateLoads   \* a Boolean: TRUE is arm64; FALSE is amd64, whose loads keep their order

VARIABLES
  seen,       \* seen[r]: what SeqReadValid has found, or "nothing" yet
  versions    \* history: versions[i]: every record i has been between setters

weakVars == <<vars, seen, versions>>
-----------------------------------------------------------------------------

WeakInit ==
  /\ Init
  /\ seen = [r \in Readers |-> "nothing"]
  /\ versions = [i \in Records |-> {cell[i]}]

(* The load of SeqReadValid is satisfied.                                  *)
Validate(r) ==
  /\ pc[r] = "load" /\ seen[r] = "nothing"
  /\ InBounds(idx[r])
  /\ todo[r] = {} \/ LateLoads
  /\ seen' = [seen EXCEPT ![r] = IF SeqReadValid(idx[r], snap[r]) THEN "valid" ELSE "changed"]
  /\ UNCHANGED <<vars, versions>>

(* A field's load is satisfied.                                            *)
WeakLoad(r, w) ==
  /\ pc[r] = "load" /\ w \in todo[r]
  /\ LateLoads \/ IsNext(r, w)
  /\ InBounds(idx[r])
  /\ buf' = [buf EXCEPT ![r][w] = cell[idx[r]][w]]
  /\ todo' = [todo EXCEPT ![r] = @ \ {w}]
  /\ UNCHANGED <<shared, process, pc, idx, ask, snap, out, committed, seen, versions>>

WeakReturn(r) ==
  /\ pc[r] = "load" /\ todo[r] = {} /\ seen[r] = "valid"
  /\ pc' = [pc EXCEPT ![r] = "idle"]
  /\ out' = [out EXCEPT ![r] = "ok"]
  /\ buf' = [buf EXCEPT ![r] =
               [w \in Words |-> IF w \in ask[r] \cap Bodies THEN cell[idx[r]][w] ELSE @[w]]]
  /\ seen' = [seen EXCEPT ![r] = "nothing"]
  /\ UNCHANGED <<shared, process, idx, ask, todo, snap, committed, versions>>

WeakRetry(r) ==
  /\ pc[r] = "load" /\ todo[r] = {} /\ seen[r] = "changed"
  /\ pc' = [pc EXCEPT ![r] = "begin"]
  /\ todo' = [todo EXCEPT ![r] = ask[r] \ Bodies]
  /\ buf' = [buf EXCEPT ![r] = Blank]
  /\ seen' = [seen EXCEPT ![r] = "nothing"]
  /\ UNCHANGED <<shared, process, idx, ask, snap, out, committed, versions>>

\* SeqEndWrite and a crash leave further versions
Recorded == versions' = [i \in Records |-> versions[i] \cup {committed'[i]}]

WeakNext ==
  \/ /\ \/ Append
        \/ \E p \in Writers, i \in Records, A \in Accesses : \E u \in Arguments(A) :
             SeqBeginWrite(p, i, A, u)
        \/ \E p \in Writers : SetterStep(p)
        \/ \E r \in Readers, i \in Records, A \in Accesses : CallGet(r, i, A)
        \/ \E r \in Readers : SeqReadBegin(r) \/ GetOutOfBounds(r)
        \/ OpenStore
     /\ Recorded /\ UNCHANGED seen
  \/ Crash /\ Recorded /\ seen' = [r \in Readers |-> "nothing"]
  \/ \E r \in Readers :
       Validate(r) \/ WeakReturn(r) \/ WeakRetry(r) \/ \E w \in Words : WeakLoad(r, w)

WeakSpec == WeakInit /\ [][WeakNext]_weakVars
-----------------------------------------------------------------------------

\* what the setters under way are making of record i
Becoming(i) ==
  {[w \in Words |-> IF w \in ask[p] THEN buf[p][w] ELSE committed[i][w]] :
     p \in {q \in Writers : InSetter(q, i)}}

(* What a getter has returned is the record as one setter has left it, or  *)
(* is about to leave it, never parts of both: "readers never see a torn    *)
(* write, even without explicit memory fences" (store_seq.go:40).          *)
NeverTorn ==
  \A r \in Readers : pc[r] = "idle" /\ out[r] = "ok" =>
    \E v \in versions[idx[r]] \cup Becoming(idx[r]) :
      \A w \in ask[r] \ Bodies : buf[r][w] = v[w]
=============================================================================
