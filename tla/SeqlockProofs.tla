--------------------------- MODULE SeqlockProofs ----------------------------
(***************************************************************************)
(* Proofs about Seqlock, for any number of goroutines, records, words and  *)
(* crashes and any schema, when callers serialise the setters of a record  *)
(* and no crash strikes a setter whose index is past the end: Serialized   *)
(* and CleanCrashes.                                                       *)
(*                                                                         *)
(* The inductive invariant says who may be inside a setter (Setters), that *)
(* the parity of a counter shows it (Parity), that a record nobody is      *)
(* setting is as committed (Contents), and that what a getter has loaded   *)
(* is still in the record as long as the counter is the one it started     *)
(* from (Loaded).  For the refinement, Underway adds how far a call has    *)
(* got: what a setter has stored and a getter has fetched.                 *)
(***************************************************************************)
EXTENDS Seqlock, TLAPS

LEMMA OddFacts ==
  ASSUME NEW n \in Nat
  PROVE  Odd(n + 1) <=> ~Odd(n)
BY DEF Odd

LEMMA OddZero == ~Odd(0)
BY DEF Odd
-----------------------------------------------------------------------------

\* One setter per record; a closed store is idle.
Setters ==
  /\ \A p \in Writers : pc[p] \in {"idle", "store"}
  /\ \A r \in Readers : pc[r] \in {"idle", "begin", "load"}
  /\ ~up => \A p \in Procs : pc[p] = "idle"
  /\ \A p, q \in Writers :
       pc[p] = "store" /\ pc[q] = "store" /\ idx[p] = idx[q] => p = q
  /\ \A p \in Writers : pc[p] = "store" =>
       todo[p] \subseteq ask[p] /\ \A w \in ask[p] : buf[p][w] # None

\* Odd counters are the ones of records being set, of a closed store only
\* ones recoverSeqlocks gets to, and there is always room to make them even.
Parity ==
  /\ up => \A i \in Records : Odd(seq[i]) <=> BeingSet(i)
  /\ ~up => \A i \in Records : Odd(seq[i]) => i < count
  /\ \A i \in Records : Odd(seq[i]) => seq[i] < MaxSeq

Contents == \A i \in Records : ~BeingSet(i) => committed[i] = cell[i]

Loaded ==
  \A r \in Readers :
    /\ pc[r] = "begin" => ask[r] \ Bodies \subseteq todo[r]
    /\ pc[r] = "load" =>
         /\ ~Odd(snap[r]) /\ snap[r] <= seq[idx[r]]
         /\ seq[idx[r]] = snap[r] =>
              \A w \in ask[r] \ Bodies : w \in todo[r] \/ buf[r][w] = cell[idx[r]][w]

IInv == TypeOK /\ Setters /\ Parity /\ Contents /\ Loaded

LEMMA InitIInv == Init => IInv
<1> SUFFICES ASSUME Init PROVE IInv
  OBVIOUS
<1> USE WordsAssumption, BoundsAssumption, RolesAssumption, ValuesAssumption DEF Procs
<1>1. TypeOK
  <2>1. 0 \in Records /\ 0 \in 0 .. MaxSeq /\ count \in 0 .. MaxRecords /\ crashes \in 0 .. MaxCrashes
    BY DEF Init, Records
  <2>2. Blank \in [Words -> Values \cup {None, TooLong}]
    BY DEF Blank
  <2> QED BY <2>1, <2>2 DEF Init, TypeOK
<1>2. Setters
  BY DEF Init, Setters
<1>3. Parity
  BY OddZero DEF Init, Parity, BeingSet, InSetter
<1>4. Contents /\ Loaded
  BY DEF Init, Contents, Loaded
<1> QED BY <1>1, <1>2, <1>3, <1>4 DEF IInv

LEMMA StepIInv ==
  ASSUME Serialized, CleanCrashes, IInv, [Next]_vars
  PROVE  IInv'
<1> USE WordsAssumption, BoundsAssumption, RolesAssumption, ValuesAssumption
        DEF IInv, Procs, shared, process, locals
<1>1. ASSUME NEW p \in Writers, NEW i \in Records, NEW A \in Accesses, NEW u \in Arguments(A),
             SeqBeginWrite(p, i, A, u)
      PROVE  IInv'
  <2>1. TypeOK'
    <3>1. A \subseteq Words /\ u \in [Words -> Values \cup {None, TooLong}]
      BY FieldsAssumption DEF Accesses, Arguments
    <3>2. seq[i] + 1 \in 0 .. MaxSeq
      BY <1>1 DEF SeqBeginWrite, TypeOK
    <3>3. seq' \in [Records -> 0 .. MaxSeq]
      BY <1>1, <3>2 DEF SeqBeginWrite, TypeOK
    <3> QED BY <1>1, <3>1, <3>3 DEF SeqBeginWrite, TypeOK
  <2>2. Setters'
    <3>1. /\ todo'[p] = A /\ ask'[p] = A /\ idx'[p] = i /\ buf'[p] = u /\ up
          /\ pc' = [pc EXCEPT ![p] = "store"] /\ ~BeingSet(i)
      BY <1>1 DEF SeqBeginWrite, TypeOK
    <3>2. A \subseteq Words /\ \A w \in A : u[w] # None
      BY FieldsAssumption DEF Accesses, Arguments
    <3> QED BY <1>1, <3>1, <3>2 DEF SeqBeginWrite, TypeOK, Setters, BeingSet, InSetter
  <2>3. Parity'
    <3>1. up /\ up' /\ ~BeingSet(i) /\ ~Odd(seq[i])
      BY <1>1 DEF SeqBeginWrite, Parity
    <3>2. seq[i] \in Nat /\ seq'[i] = seq[i] + 1 /\ seq'[i] < MaxSeq
      BY <1>1 DEF SeqBeginWrite, TypeOK
    <3>3. Odd(seq'[i])
      BY <3>1, <3>2, OddFacts
    <3>4. BeingSet(i)'
      BY <1>1 DEF SeqBeginWrite, TypeOK, BeingSet, InSetter
    <3>5. \A j \in Records \ {i} : seq'[j] = seq[j] /\ (BeingSet(j)' <=> BeingSet(j))
      BY <1>1 DEF SeqBeginWrite, TypeOK, BeingSet, InSetter
    <3> QED BY <3>1, <3>2, <3>3, <3>4, <3>5 DEF Parity
  <2>4. Contents'
    BY <1>1 DEF SeqBeginWrite, TypeOK, Setters, Contents, BeingSet, InSetter
  <2>5. Loaded'
    BY <1>1 DEF SeqBeginWrite, TypeOK, Setters, Parity, Loaded, BeingSet, InSetter
  <2> QED BY <2>1, <2>2, <2>3, <2>4, <2>5
<1>2. ASSUME NEW p \in Writers, NEW w \in Words,
             StoreWord(p, w)
      PROVE  IInv'
  <2>1. TypeOK'
    <3>1. idx[p] \in Records /\ buf[p][w] \in Values
      <4>1. buf[p][w] # None
        BY <1>2 DEF StoreWord, Setters, IsNext
      <4> QED BY <1>2, <4>1 DEF StoreWord, TypeOK
    <3>2. cell' \in [Records -> [Words -> Values]]
      BY <1>2, <3>1 DEF StoreWord, TypeOK
    <3> QED BY <1>2, <3>2 DEF StoreWord, TypeOK
  <2>2. Setters'
    BY <1>2 DEF StoreWord, TypeOK, Setters
  <2>3. Parity'
    BY <1>2 DEF StoreWord, TypeOK, Setters, Parity, BeingSet, InSetter
  <2>4. Contents'
    BY <1>2 DEF StoreWord, TypeOK, Setters, Contents, BeingSet, InSetter
  <2>5. Loaded'
    BY <1>2 DEF StoreWord, TypeOK, Setters, Parity, Loaded, BeingSet, InSetter
  <2> QED BY <2>1, <2>2, <2>3, <2>4, <2>5
<1>3. ASSUME NEW p \in Writers, NEW w \in Words,
             RejectFirst(p, w)
      PROVE  IInv'
  <2>1. TypeOK'
    BY <1>3 DEF RejectFirst, TypeOK
  <2>2. Setters'
    BY <1>3 DEF RejectFirst, TypeOK, Setters
  <2>3. Parity'
    BY <1>3 DEF RejectFirst, TypeOK, Setters, Parity, BeingSet, InSetter
  <2>4. Contents'
    BY <1>3 DEF RejectFirst, TypeOK, Setters, Contents, BeingSet, InSetter
  <2>5. Loaded'
    BY <1>3 DEF RejectFirst, TypeOK, Setters, Parity, Loaded, BeingSet, InSetter
  <2> QED BY <2>1, <2>2, <2>3, <2>4, <2>5
<1>4. ASSUME NEW p \in Writers, NEW w \in Words,
             DiscardLater(p, w)
      PROVE  IInv'
  <2>1. TypeOK'
    BY <1>4 DEF DiscardLater, TypeOK
  <2>2. Setters'
    BY <1>4 DEF DiscardLater, TypeOK, Setters
  <2>3. Parity'
    BY <1>4 DEF DiscardLater, TypeOK, Setters, Parity, BeingSet, InSetter
  <2>4. Contents'
    BY <1>4 DEF DiscardLater, TypeOK, Setters, Contents, BeingSet, InSetter
  <2>5. Loaded'
    BY <1>4 DEF DiscardLater, TypeOK, Setters, Parity, Loaded, BeingSet, InSetter
  <2> QED BY <2>1, <2>2, <2>3, <2>4, <2>5
<1>5. ASSUME NEW p \in Writers,
             SeqEndWrite(p)
      PROVE  IInv'
  <2>1. TypeOK'
    <3>1. idx[p] \in Records /\ up /\ Odd(seq[idx[p]])
      BY <1>5 DEF SeqEndWrite, TypeOK, Setters, Parity, BeingSet, InSetter
    <3>2. seq[idx[p]] + 1 \in 0 .. MaxSeq
      BY <3>1 DEF TypeOK, Parity
    <3>3. seq' \in [Records -> 0 .. MaxSeq] /\ committed' \in [Records -> [Words -> Values]]
      BY <1>5, <3>1, <3>2 DEF SeqEndWrite, TypeOK
    <3>4. Blank \in [Words -> Values \cup {None, TooLong}]
      BY DEF Blank
    <3> QED BY <1>5, <3>3, <3>4 DEF SeqEndWrite, TypeOK
  <2>2. Setters'
    BY <1>5 DEF SeqEndWrite, TypeOK, Setters
  <2>3. Parity'
    <3>0. PICK i \in Records : i = idx[p]
      BY DEF TypeOK
    <3>1. up /\ up' /\ Odd(seq[i])
      BY <1>5, <3>0 DEF SeqEndWrite, Setters, Parity, BeingSet, InSetter, TypeOK
    <3>2. seq[i] \in Nat /\ seq'[i] = seq[i] + 1
      BY <1>5, <3>0, <3>1 DEF SeqEndWrite, TypeOK
    <3>3. ~Odd(seq'[i])
      BY <3>1, <3>2, OddFacts
    <3>4. ~BeingSet(i)'
      BY <1>5, <3>0 DEF SeqEndWrite, TypeOK, Setters, BeingSet, InSetter
    <3>5. \A j \in Records \ {i} : seq'[j] = seq[j] /\ (BeingSet(j)' <=> BeingSet(j))
      BY <1>5, <3>0 DEF SeqEndWrite, TypeOK, BeingSet, InSetter
    <3> QED BY <3>1, <3>2, <3>3, <3>4, <3>5 DEF Parity
  <2>4. Contents'
    BY <1>5 DEF SeqEndWrite, TypeOK, Setters, Contents, BeingSet, InSetter
  <2>5. Loaded'
    BY <1>5 DEF SeqEndWrite, TypeOK, Setters, Parity, Loaded, BeingSet, InSetter
  <2> QED BY <2>1, <2>2, <2>3, <2>4, <2>5
<1>6. ASSUME NEW r \in Readers, NEW i \in Records, NEW A \in Accesses,
             CallGet(r, i, A)
      PROVE  IInv'
  <2>1. TypeOK'
    <3>1. A \subseteq Words /\ Blank \in [Words -> Values \cup {None, TooLong}]
      BY FieldsAssumption DEF Accesses, Blank
    <3> QED BY <1>6, <3>1 DEF CallGet, TypeOK
  <2>2. Setters'
    BY <1>6 DEF CallGet, TypeOK, Setters
  <2>3. Parity'
    BY <1>6 DEF CallGet, TypeOK, Setters, Parity, BeingSet, InSetter
  <2>4. Contents'
    BY <1>6 DEF CallGet, TypeOK, Setters, Contents, BeingSet, InSetter
  <2>5. Loaded'
    BY <1>6 DEF CallGet, TypeOK, Setters, Parity, Loaded, BeingSet, InSetter
  <2> QED BY <2>1, <2>2, <2>3, <2>4, <2>5
<1>7. ASSUME NEW r \in Readers,
             SeqReadBegin(r)
      PROVE  IInv'
  <2>1. TypeOK'
    BY <1>7 DEF SeqReadBegin, TypeOK
  <2>2. Setters'
    BY <1>7 DEF SeqReadBegin, TypeOK, Setters
  <2>3. Parity'
    BY <1>7 DEF SeqReadBegin, TypeOK, Setters, Parity, BeingSet, InSetter
  <2>4. Contents'
    BY <1>7 DEF SeqReadBegin, TypeOK, Setters, Contents, BeingSet, InSetter
  <2>5. Loaded'
    BY <1>7 DEF SeqReadBegin, TypeOK, Setters, Parity, Loaded, BeingSet, InSetter
  <2> QED BY <2>1, <2>2, <2>3, <2>4, <2>5
<1>8. ASSUME NEW r \in Readers, NEW w \in Words,
             LoadWord(r, w)
      PROVE  IInv'
  <2>1. TypeOK'
    BY <1>8 DEF LoadWord, TypeOK
  <2>2. Setters'
    BY <1>8 DEF LoadWord, TypeOK, Setters
  <2>3. Parity'
    BY <1>8 DEF LoadWord, TypeOK, Setters, Parity, BeingSet, InSetter
  <2>4. Contents'
    BY <1>8 DEF LoadWord, TypeOK, Setters, Contents, BeingSet, InSetter
  <2>5. Loaded'
    BY <1>8 DEF LoadWord, TypeOK, Setters, Parity, Loaded, BeingSet, InSetter
  <2> QED BY <2>1, <2>2, <2>3, <2>4, <2>5
<1>9. ASSUME NEW r \in Readers,
             GetOutOfBounds(r)
      PROVE  IInv'
  <2>1. TypeOK'
    BY <1>9 DEF GetOutOfBounds, TypeOK
  <2>2. Setters'
    BY <1>9 DEF GetOutOfBounds, TypeOK, Setters
  <2>3. Parity'
    BY <1>9 DEF GetOutOfBounds, TypeOK, Setters, Parity, BeingSet, InSetter
  <2>4. Contents'
    BY <1>9 DEF GetOutOfBounds, TypeOK, Setters, Contents, BeingSet, InSetter
  <2>5. Loaded'
    BY <1>9 DEF GetOutOfBounds, TypeOK, Setters, Parity, Loaded, BeingSet, InSetter
  <2> QED BY <2>1, <2>2, <2>3, <2>4, <2>5
<1>10. ASSUME NEW r \in Readers,
             GetReturn(r)
      PROVE  IInv'
  <2>1. TypeOK'
    BY <1>10 DEF GetReturn, TypeOK
  <2>2. Setters'
    BY <1>10 DEF GetReturn, TypeOK, Setters
  <2>3. Parity'
    BY <1>10 DEF GetReturn, TypeOK, Setters, Parity, BeingSet, InSetter
  <2>4. Contents'
    BY <1>10 DEF GetReturn, TypeOK, Setters, Contents, BeingSet, InSetter
  <2>5. Loaded'
    BY <1>10 DEF GetReturn, TypeOK, Setters, Parity, Loaded, BeingSet, InSetter
  <2> QED BY <2>1, <2>2, <2>3, <2>4, <2>5
<1>11. ASSUME NEW r \in Readers,
             GetRetry(r)
      PROVE  IInv'
  <2>1. TypeOK'
    <3>1. Blank \in [Words -> Values \cup {None, TooLong}]
      BY DEF Blank
    <3> QED BY <1>11, <3>1 DEF GetRetry, TypeOK
  <2>2. Setters'
    BY <1>11 DEF GetRetry, TypeOK, Setters
  <2>3. Parity'
    BY <1>11 DEF GetRetry, TypeOK, Setters, Parity, BeingSet, InSetter
  <2>4. Contents'
    BY <1>11 DEF GetRetry, TypeOK, Setters, Contents, BeingSet, InSetter
  <2>5. Loaded'
    BY <1>11 DEF GetRetry, TypeOK, Setters, Parity, Loaded, BeingSet, InSetter
  <2> QED BY <2>1, <2>2, <2>3, <2>4, <2>5
<1>12. ASSUME Append PROVE IInv'
  <2>1. TypeOK'
    BY <1>12 DEF Append, HasRoom, TypeOK
  <2>2. Setters'
    BY <1>12 DEF Append, Setters
  <2>3. Parity'
    BY <1>12 DEF Append, TypeOK, Setters, Parity, BeingSet, InSetter
  <2>4. Contents'
    BY <1>12 DEF Append, TypeOK, Setters, Contents, BeingSet, InSetter
  <2>5. Loaded'
    BY <1>12 DEF Append, TypeOK, Setters, Parity, Loaded, BeingSet, InSetter
  <2> QED BY <2>1, <2>2, <2>3, <2>4, <2>5
<1>13. ASSUME Crash PROVE IInv'
  <2>1. TypeOK'
    <3>1. 0 \in Records /\ 0 \in 0 .. MaxSeq /\ crashes' \in 0 .. MaxCrashes
      BY <1>13 DEF Crash, TypeOK, Records
    <3>2. Blank \in [Words -> Values \cup {None, TooLong}]
      BY DEF Blank
    <3> QED BY <1>13, <3>1, <3>2 DEF Crash, TypeOK
  <2>2. Setters'
    BY <1>13 DEF Crash, TypeOK, Setters
  <2>3. Parity'
    <3>1. \A p \in Writers : pc[p] # "idle" => idx[p] < count
      BY <1>13 DEF Crash
    <3>2. \A i \in Records : BeingSet(i) => i < count
      BY <3>1 DEF BeingSet, InSetter
    <3> QED BY <1>13, <3>2 DEF Crash, TypeOK, Setters, Parity
  <2>4. Contents'
    BY <1>13 DEF Crash, TypeOK, Setters, Contents, BeingSet, InSetter
  <2>5. Loaded'
    BY <1>13 DEF Crash, TypeOK, Setters, Parity, Loaded, BeingSet, InSetter
  <2> QED BY <2>1, <2>2, <2>3, <2>4, <2>5
<1>14. ASSUME OpenStore PROVE IInv'
  <2>1. TypeOK'
    <3>1. \A i \in Records : Recovered(i) \in 0 .. MaxSeq
      BY DEF Recovered, TypeOK, Parity
    <3> QED BY <1>14, <3>1 DEF OpenStore, TypeOK
  <2>2. Setters'
    BY <1>14 DEF OpenStore, TypeOK, Setters
  <2>3. Parity'
    <3>1. \A i \in Records : ~Odd(Recovered(i))
      BY <1>14, OddFacts DEF OpenStore, Recovered, TypeOK, Parity
    <3>2. \A i \in Records : ~BeingSet(i)'
      BY <1>14 DEF OpenStore, Setters, BeingSet, InSetter
    <3> QED BY <1>14, <3>1, <3>2 DEF OpenStore, Parity
  <2>4. Contents'
    BY <1>14 DEF OpenStore, TypeOK, Setters, Contents, BeingSet, InSetter
  <2>5. Loaded'
    BY <1>14 DEF OpenStore, TypeOK, Setters, Parity, Loaded, BeingSet, InSetter
  <2> QED BY <2>1, <2>2, <2>3, <2>4, <2>5
<1>15. CASE UNCHANGED vars
  BY <1>15 DEF vars, TypeOK, Setters, Parity, Contents, Loaded, BeingSet, InSetter
<1> QED
  BY <1>1, <1>2, <1>3, <1>4, <1>5, <1>6, <1>7, <1>8, <1>9, <1>10, <1>11, <1>12, <1>13, <1>14, <1>15
     DEF Next, SetterStep, GetterStep

LEMMA IInvInvariant ==
  ASSUME Serialized, CleanCrashes
  PROVE  Spec => []IInv
<1>1. IInv /\ [Next]_vars => IInv'
  BY StepIInv
<1> QED BY <1>1, InitIInv, PTL DEF Spec
-----------------------------------------------------------------------------

(* TypeOK: in particular, no counter passes its bound.                     *)
THEOREM TypeCorrect ==
  ASSUME Serialized, CleanCrashes
  PROVE  Spec => []TypeOK
<1>1. IInv => TypeOK
  BY DEF IInv
<1> QED BY <1>1, IInvInvariant, PTL

LEMMA ValidIsCommitted == IInv => ValidMeansCommitted
<1> SUFFICES ASSUME IInv, NEW r \in Readers, pc[r] = "load", todo[r] = {},
                    SeqReadValid(idx[r], snap[r])
             PROVE  /\ ~BeingSet(idx[r])
                    /\ \A w \in ask[r] \ Bodies : buf[r][w] = committed[idx[r]][w]
                    /\ \A w \in ask[r] : cell[idx[r]][w] = committed[idx[r]][w]
  BY DEF ValidMeansCommitted
<1>1. idx[r] \in Records /\ seq[idx[r]] = snap[r] /\ ~Odd(seq[idx[r]])
  BY DEF IInv, TypeOK, SeqReadValid, Procs
<1>2. ~BeingSet(idx[r])
  <2>1. up
    BY DEF IInv, Setters, Procs
  <2> QED BY <1>1, <2>1 DEF IInv, Parity
<1>3. committed[idx[r]] = cell[idx[r]]
  BY <1>1, <1>2 DEF IInv, Contents
<1>4. \A w \in ask[r] \ Bodies : buf[r][w] = cell[idx[r]][w]
  BY <1>1 DEF IInv, Loaded
<1> QED BY <1>2, <1>3, <1>4

(* Readers never see a torn write: a getter whose SeqReadValid succeeds    *)
(* holds the record as committed, and nobody is setting it.                *)
THEOREM ReadersNeverTorn ==
  ASSUME Serialized, CleanCrashes
  PROVE  Spec => []ValidMeansCommitted
BY ValidIsCommitted, IInvInvariant, PTL

(* No error path and no crash leaves a counter odd in an open store.       *)
THEOREM CountersShowSetters ==
  ASSUME Serialized, CleanCrashes
  PROVE  Spec => []OddIffWriting
<1>1. IInv => OddIffWriting
  BY DEF IInv, Parity, OddIffWriting
<1> QED BY <1>1, IInvInvariant, PTL
-----------------------------------------------------------------------------

(* Nothing is ever stored to a record before it is appended: with any      *)
(* indices, any setters at a time and any crashes.                         *)
THEOREM FreshStaysZero == Spec => []FreshRecordsZero
<1> DEFINE Inv == /\ count \in Nat /\ DOMAIN cell = Records
                  /\ FreshRecordsZero
<1> USE DEF shared, process, locals
<1>1. Init => Inv
  BY DEF Init, FreshRecordsZero, Records
<1>2. Inv /\ [Next]_vars => Inv'
  <2> SUFFICES ASSUME Inv, [Next]_vars PROVE Inv'
    OBVIOUS
  <2>1. CASE Append
    BY <2>1, BoundsAssumption DEF Append, HasRoom, FreshRecordsZero, Records
  <2>2. ASSUME NEW p \in Writers, NEW w \in Words, StoreWord(p, w) PROVE Inv'
    <3>1. idx[p] < count
      BY <2>2 DEF StoreWord, InBounds
    <3>2. DOMAIN cell' = Records /\ count' = count
      BY <2>2 DEF StoreWord
    <3>3. ASSUME NEW i \in Records, i >= count' PROVE cell'[i] = cell[i]
      <4>1. i # idx[p]
        BY <3>1, <3>2, <3>3, BoundsAssumption DEF Records
      <4> QED BY <2>2, <4>1 DEF StoreWord
    <3> QED BY <3>2, <3>3 DEF FreshRecordsZero
  <2>3. CASE UNCHANGED <<count, cell>>
    BY <2>3 DEF FreshRecordsZero
  <2> QED
    BY <2>1, <2>2, <2>3
       DEF Next, vars, SetterStep, GetterStep, SeqBeginWrite, RejectFirst, DiscardLater,
           SeqEndWrite, CallGet, SeqReadBegin, LoadWord, GetOutOfBounds, GetReturn,
           GetRetry, Crash, OpenStore
<1> QED BY <1>1, <1>2, PTL DEF Spec
-----------------------------------------------------------------------------
(***************************************************************************)
(* Calls that run to the end.                                              *)
(***************************************************************************)
\* While it stores, a setter's record is as committed but for the words it
\* has got to that fit; once it has got past one, its index was in bounds
\* and its first field fitted, and when the first did not, it has stored
\* nothing.
Stored(p) ==
  /\ ask[p] \in Accesses /\ buf[p] \in Arguments(ask[p])
  /\ out[p] \in {"none", "err"}
  /\ \A w \in Words :
       cell[idx[p]][w] =
         IF out[p] = "none" /\ w \in ask[p] \ todo[p] /\ buf[p][w] # TooLong THEN buf[p][w]
         ELSE committed[idx[p]][w]
  /\ out[p] = "none" /\ todo[p] # ask[p] => FirstFits(p) /\ idx[p] < count
  /\ out[p] = "err" => todo[p] = {}

\* A getter that has loaded a word has found its index in bounds, and it
\* holds nothing it was not asked for.
Fetched(r) ==
  /\ ask[r] \in Accesses /\ todo[r] \subseteq ask[r] \ Bodies
  /\ \A w \in Words : w \notin ask[r] \ Bodies => buf[r][w] = None
  /\ pc[r] = "begin" => todo[r] = ask[r] \ Bodies
  /\ todo[r] # ask[r] \ Bodies => idx[r] < count

Underway ==
  /\ \A p \in Writers : pc[p] = "store" => Stored(p)
  /\ \A r \in Readers : pc[r] \in {"begin", "load"} => Fetched(r)

(* Every access is of some word, one of them not the body of a string.     *)
LEMMA AccessFacts ==
  ASSUME NEW A \in Accesses
  PROVE  A \subseteq Words /\ A # {} /\ A \ Bodies # {}
<1>1. PICK F \in Fields : F \subseteq A
  <2>1. 1 \in Words
    BY WordsAssumption DEF Words
  <2> QED BY <2>1, FieldsAssumption DEF Accesses
<1>2. ~(F \subseteq Bodies)
  BY FieldsAssumption
<1> QED BY <1>1, <1>2, FieldsAssumption DEF Accesses

LEMMA ArgumentFacts ==
  ASSUME NEW A \in Accesses, NEW u \in Arguments(A)
  PROVE  /\ \A w \in Words : u[w] = None <=> w \notin A
         /\ \A w \in Words : u[w] \in Values \cup {None, TooLong}
BY DEF Arguments

LEMMA InitUnderway == Init => Underway
BY RolesAssumption DEF Init, Underway, Procs

LEMMA StepUnderway ==
  ASSUME Serialized, CleanCrashes, IInv, Underway, [Next]_vars
  PROVE  Underway'
<1> USE RolesAssumption DEF Procs, shared, process, locals
<1>0. TypeOK /\ Setters /\ Contents
  BY DEF IInv
<1> USE <1>0
<1>a. \A p, q \in Writers : pc[p] = "store" /\ pc[q] = "store" /\ p # q => idx[p] # idx[q]
  BY DEF Setters
<1>1. ASSUME NEW p \in Writers, NEW i \in Records, NEW A \in Accesses, NEW u \in Arguments(A),
             SeqBeginWrite(p, i, A, u)
      PROVE  Underway'
  <2>1. Stored(p)'
    <3>1. committed[i] = cell[i]
      BY <1>1 DEF SeqBeginWrite, Contents
    <3> QED BY <1>1, <3>1 DEF SeqBeginWrite, TypeOK, Stored, FirstFits
  <2>2. ASSUME NEW q \in Writers, pc'[q] = "store" PROVE Stored(q)'
    BY <1>1, <2>1, <2>2 DEF SeqBeginWrite, TypeOK, Underway, Stored, FirstFits
  <2>3. ASSUME NEW r \in Readers, pc'[r] \in {"begin", "load"} PROVE Fetched(r)'
    BY <1>1, <2>3 DEF SeqBeginWrite, TypeOK, Underway, Fetched
  <2> QED BY <2>2, <2>3 DEF Underway
<1>2. ASSUME NEW p \in Writers, NEW w \in Words, StoreWord(p, w)
      PROVE  Underway'
  <2>1. Stored(p)'
    <3>1. Stored(p) /\ pc[p] = "store" /\ w \in todo[p] /\ todo[p] \subseteq ask[p] /\ out[p] = "none"
      BY <1>2 DEF StoreWord, IsNext, Setters, Underway, Stored, FirstFits
    <3>2. FirstFits(p) /\ idx[p] < count /\ buf[p][w] # TooLong
      BY <1>2, <3>1 DEF StoreWord, IsNext, InBounds, Stored, FirstFits
    <3>3. /\ \A v \in Words : cell'[idx[p]][v] = IF v = w THEN buf[p][v] ELSE cell[idx[p]][v]
          /\ todo'[p] = todo[p] \ {w}
          /\ UNCHANGED <<ask, buf, out, idx, committed, count>>
      BY <1>2 DEF StoreWord, TypeOK
    <3> QED BY <3>1, <3>2, <3>3 DEF Stored, FirstFits
  <2>2. ASSUME NEW q \in Writers, pc'[q] = "store" PROVE Stored(q)'
    <3>1. CASE q # p
      <4>1. idx[q] # idx[p]
        BY <1>a, <1>2, <2>2, <3>1 DEF StoreWord
      <4> QED BY <1>2, <2>2, <3>1, <4>1 DEF StoreWord, TypeOK, Underway, Stored, FirstFits
    <3> QED BY <2>1, <3>1
  <2>3. ASSUME NEW r \in Readers, pc'[r] \in {"begin", "load"} PROVE Fetched(r)'
    BY <1>2, <2>3 DEF StoreWord, TypeOK, Underway, Fetched
  <2> QED BY <2>2, <2>3 DEF Underway
<1>3. ASSUME NEW p \in Writers, NEW w \in Words, RejectFirst(p, w)
      PROVE  Underway'
  <2>1. Stored(p)'
    <3>1. Stored(p) /\ todo[p] = ask[p] /\ pc[p] = "store"
      BY <1>3 DEF RejectFirst, Underway
    <3>2. /\ todo'[p] = {} /\ out'[p] = "err"
          /\ UNCHANGED <<cell, committed, ask, buf, idx, count>>
      BY <1>3 DEF RejectFirst, TypeOK
    <3> QED BY <3>1, <3>2 DEF Stored, FirstFits
  <2>2. ASSUME NEW q \in Writers, pc'[q] = "store" PROVE Stored(q)'
    BY <1>3, <2>1, <2>2 DEF RejectFirst, TypeOK, Underway, Stored, FirstFits
  <2>3. ASSUME NEW r \in Readers, pc'[r] \in {"begin", "load"} PROVE Fetched(r)'
    BY <1>3, <2>3 DEF RejectFirst, TypeOK, Underway, Fetched
  <2> QED BY <2>2, <2>3 DEF Underway
<1>4. ASSUME NEW p \in Writers, NEW w \in Words, DiscardLater(p, w)
      PROVE  Underway'
  <2>1. Stored(p)'
    <3>1. Stored(p) /\ todo[p] # ask[p] /\ todo[p] \subseteq ask[p] /\ w \in todo[p]
          /\ buf[p][w] = TooLong /\ out[p] = "none"
      BY <1>4 DEF DiscardLater, IsNext, Setters, Underway, Stored, FirstFits
    <3>2. /\ todo'[p] = todo[p] \ {w}
          /\ UNCHANGED <<cell, committed, ask, buf, out, idx, count>>
      BY <1>4 DEF DiscardLater, TypeOK
    <3> QED BY <3>1, <3>2 DEF Stored, FirstFits
  <2>2. ASSUME NEW q \in Writers, pc'[q] = "store" PROVE Stored(q)'
    BY <1>4, <2>1, <2>2 DEF DiscardLater, TypeOK, Underway, Stored, FirstFits
  <2>3. ASSUME NEW r \in Readers, pc'[r] \in {"begin", "load"} PROVE Fetched(r)'
    BY <1>4, <2>3 DEF DiscardLater, TypeOK, Underway, Fetched
  <2> QED BY <2>2, <2>3 DEF Underway
<1>5. ASSUME NEW p \in Writers, SeqEndWrite(p)
      PROVE  Underway'
  <2>2. ASSUME NEW q \in Writers, pc'[q] = "store" PROVE Stored(q)'
    <3>1. q # p /\ pc[q] = "store"
      BY <1>5, <2>2 DEF SeqEndWrite, TypeOK
    <3>2. idx[q] # idx[p]
      BY <1>a, <1>5, <3>1 DEF SeqEndWrite
    <3> QED BY <1>5, <3>1, <3>2 DEF SeqEndWrite, TypeOK, Underway, Stored, FirstFits
  <2>3. ASSUME NEW r \in Readers, pc'[r] \in {"begin", "load"} PROVE Fetched(r)'
    BY <1>5, <2>3 DEF SeqEndWrite, TypeOK, Underway, Fetched
  <2> QED BY <2>2, <2>3 DEF Underway
<1>6. ASSUME NEW r \in Readers, NEW i \in Records, NEW A \in Accesses, CallGet(r, i, A)
      PROVE  Underway'
  <2>1. Fetched(r)'
    BY <1>6 DEF CallGet, TypeOK, Fetched, Blank
  <2>2. ASSUME NEW q \in Writers, pc'[q] = "store" PROVE Stored(q)'
    BY <1>6, <2>2 DEF CallGet, TypeOK, Underway, Stored, FirstFits
  <2>3. ASSUME NEW q \in Readers, pc'[q] \in {"begin", "load"} PROVE Fetched(q)'
    BY <1>6, <2>1, <2>3 DEF CallGet, TypeOK, Underway, Fetched
  <2> QED BY <2>2, <2>3 DEF Underway
<1>7. ASSUME NEW r \in Readers, SeqReadBegin(r)
      PROVE  Underway'
  BY <1>7 DEF SeqReadBegin, TypeOK, Underway, Stored, FirstFits, Fetched
<1>8. ASSUME NEW r \in Readers, NEW w \in Words, LoadWord(r, w)
      PROVE  Underway'
  <2>1. Fetched(r)'
    <3>1. Fetched(r) /\ w \in ask[r] \ Bodies /\ idx[r] < count
      BY <1>8 DEF LoadWord, IsNext, InBounds, Underway, Fetched
    <3>2. /\ \A v \in Words : v # w => buf'[r][v] = buf[r][v]
          /\ todo'[r] = todo[r] \ {w} /\ pc'[r] = "load"
          /\ UNCHANGED <<ask, idx, count>>
      BY <1>8 DEF LoadWord, TypeOK
    <3> QED BY <3>1, <3>2 DEF Fetched
  <2>2. ASSUME NEW q \in Writers, pc'[q] = "store" PROVE Stored(q)'
    BY <1>8, <2>2 DEF LoadWord, TypeOK, Underway, Stored, FirstFits
  <2>3. ASSUME NEW q \in Readers, pc'[q] \in {"begin", "load"} PROVE Fetched(q)'
    BY <1>8, <2>1, <2>3 DEF LoadWord, TypeOK, Underway, Fetched
  <2> QED BY <2>2, <2>3 DEF Underway
<1>9. ASSUME NEW r \in Readers, GetOutOfBounds(r)
      PROVE  Underway'
  BY <1>9 DEF GetOutOfBounds, TypeOK, Underway, Stored, FirstFits, Fetched
<1>10. ASSUME NEW r \in Readers, GetReturn(r)
       PROVE  Underway'
  BY <1>10 DEF GetReturn, TypeOK, Underway, Stored, FirstFits, Fetched
<1>11. ASSUME NEW r \in Readers, GetRetry(r)
       PROVE  Underway'
  <2>1. Fetched(r)'
    BY <1>11 DEF GetRetry, TypeOK, Underway, Fetched, Blank
  <2>2. ASSUME NEW q \in Writers, pc'[q] = "store" PROVE Stored(q)'
    BY <1>11, <2>2 DEF GetRetry, TypeOK, Underway, Stored, FirstFits
  <2>3. ASSUME NEW q \in Readers, pc'[q] \in {"begin", "load"} PROVE Fetched(q)'
    BY <1>11, <2>1, <2>3 DEF GetRetry, TypeOK, Underway, Fetched
  <2> QED BY <2>2, <2>3 DEF Underway
<1>12. CASE Append
  <2>1. count \in Nat /\ count' = count + 1 /\ \A p \in Procs : idx[p] \in Nat
    BY <1>12 DEF Append, TypeOK, Records
  <2> QED BY <1>12, <2>1 DEF Append, Underway, Stored, FirstFits, Fetched
<1>13. CASE Crash
  BY <1>13 DEF Crash, Underway
<1>14. CASE OpenStore
  BY <1>14 DEF OpenStore, Underway, Stored, FirstFits, Fetched
<1>15. CASE UNCHANGED vars
  BY <1>15 DEF vars, Underway, Stored, FirstFits, Fetched
<1> QED
  BY <1>1, <1>2, <1>3, <1>4, <1>5, <1>6, <1>7, <1>8, <1>9, <1>10, <1>11, <1>12, <1>13, <1>14, <1>15
     DEF Next, SetterStep, GetterStep

LEMMA UnderwayInvariant ==
  ASSUME Serialized, CleanCrashes
  PROVE  Spec => [](IInv /\ Underway)
<1>1. IInv /\ Underway /\ [Next]_vars => (IInv /\ Underway)'
  BY StepIInv, StepUnderway
<1> QED BY <1>1, InitIInv, InitUnderway, PTL DEF Spec

(* A setter that returns nil has replaced exactly the fields that fit, the *)
(* first one among them, and one that returns an error has changed         *)
(* nothing: SetByFields.                                                   *)
THEOREM SetsByFields ==
  ASSUME Serialized, CleanCrashes
  PROVE  Spec => SetByFields
<1>1. ASSUME IInv, Underway, [Next]_vars, NEW p \in Writers, SeqEndWrite(p)
      PROVE  LET i == idx[p] IN
             IF out'[p] = "ok"
             THEN /\ FirstFits(p) /\ i < count
                  /\ \A w \in Words :
                       committed'[i][w] = IF w \in ask[p] /\ buf[p][w] # TooLong THEN buf[p][w]
                                          ELSE committed[i][w]
             ELSE committed'[i] = committed[i]
  <2>1. TypeOK /\ Stored(p) /\ ask[p] # {} /\ idx[p] \in Records /\ todo[p] = {}
    BY <1>1, AccessFacts DEF IInv, Underway, SeqEndWrite, TypeOK, Stored, Procs
  <2>2. committed'[idx[p]] = cell[idx[p]] /\ out'[p] = IF out[p] = "err" THEN "err" ELSE "ok"
    BY <1>1, <2>1 DEF SeqEndWrite, TypeOK, Procs
  <2>3. CASE out[p] = "none"
    BY <2>1, <2>2, <2>3 DEF Stored
  <2>4. CASE out[p] = "err"
    <3>1. cell[idx[p]] = committed[idx[p]]
      BY <2>1, <2>4 DEF TypeOK, Stored
    <3> QED BY <2>2, <2>4, <3>1
  <2> QED BY <2>1, <2>3, <2>4 DEF Stored
<1>2. IInv /\ Underway /\ [Next]_vars =>
        [\A p \in Writers : SeqEndWrite(p) =>
           LET i == idx[p] IN
           IF out'[p] = "ok"
           THEN /\ FirstFits(p) /\ i < count
                /\ \A w \in Words :
                     committed'[i][w] = IF w \in ask[p] /\ buf[p][w] # TooLong THEN buf[p][w]
                                        ELSE committed[i][w]
           ELSE committed'[i] = committed[i]]_vars
  BY <1>1
<1> QED BY <1>2, UnderwayInvariant, PTL DEF Spec, SetByFields
-----------------------------------------------------------------------------
(***************************************************************************)
(* The accessors implement AtomicRecord.                                   *)
(***************************************************************************)
Busy == [p \in Procs |-> pc[p] # "idle"]
Arg == [p \in Writers |-> buf[p]]
Got == [r \in Readers |-> IF pc[r] = "idle" /\ out[r] = "ok" THEN buf[r] ELSE Blank]

(* How the variables of AtomicRecord that are not Seqlock's move.          *)
LEMMA MappedVariables ==
  ASSUME TypeOK, NEW p \in Procs,
         \A q \in Procs \ {p} : pc'[q] = pc[q] /\ out'[q] = out[q] /\ buf'[q] = buf[q]
  PROVE  /\ Busy' = [Busy EXCEPT ![p] = pc'[p] # "idle"]
         /\ p \in Writers => /\ Arg' = [Arg EXCEPT ![p] = buf'[p]]
                             /\ Got' = Got
         /\ p \in Readers =>
              /\ Arg' = Arg
              /\ Got' = [Got EXCEPT ![p] =
                           IF pc'[p] = "idle" /\ out'[p] = "ok" THEN buf'[p] ELSE Blank]
BY RolesAssumption DEF Procs, Busy, Arg, Got

LEMMA MappedInit == Init => Atomic!Init
<1> SUFFICES ASSUME Init PROVE Atomic!Init
  OBVIOUS
<1>1. Busy = [p \in Procs |-> FALSE] /\ Arg = [p \in Writers |-> Blank] /\ Got = [r \in Readers |-> Blank]
  BY DEF Init, Busy, Arg, Got, Procs
<1> QED BY <1>1 DEF Init, Atomic!Init, Atomic!Procs, Atomic!Blank, Busy, Arg, Got, Procs, Blank

\* AtomicRecord does not move
Stutters == UNCHANGED <<count, committed, Busy, idx, ask, Arg, Got, out>>

LEMMA MappedStutter == Stutters => UNCHANGED Atomic!vars
BY DEF Stutters, Atomic!vars, Busy, Arg, Got

(* Calling a setter, the setter failing, and its return.                   *)
LEMMA MappedSetter ==
  ASSUME Serialized, CleanCrashes, IInv, Underway, NEW p \in Writers
  PROVE  /\ \A i \in Records, A \in Accesses : \A u \in Arguments(A) :
              SeqBeginWrite(p, i, A, u) => Atomic!CallSet(p)
         /\ \A w \in Words : StoreWord(p, w) \/ DiscardLater(p, w) => Stutters
         /\ \A w \in Words : RejectFirst(p, w) => Atomic!RejectSet(p)
         /\ SeqEndWrite(p) => Atomic!ReturnSetErr(p) \/ Atomic!ReturnSetOk(p)
<1> USE RolesAssumption DEF Procs, shared, process, locals
<1>0. TypeOK /\ Setters
  BY DEF IInv
<1>1. ASSUME NEW i \in Records, NEW A \in Accesses, NEW u \in Arguments(A), SeqBeginWrite(p, i, A, u)
      PROVE  Atomic!CallSet(p)
  <2>1. Busy' = [Busy EXCEPT ![p] = TRUE] /\ Arg' = [Arg EXCEPT ![p] = u] /\ Got' = Got /\ ~Busy[p]
    BY <1>0, <1>1, MappedVariables DEF SeqBeginWrite, TypeOK, Busy
  <2>2. A \in SUBSET Words /\ u \in [Words -> Values \cup {None, TooLong}]
        /\ \A w \in Words : u[w] = None <=> w \notin A
    BY AccessFacts DEF Arguments
  <2> QED BY <1>1, <2>1, <2>2 DEF SeqBeginWrite, Atomic!CallSet, Busy, Arg, Got, Blank, Atomic!Blank
<1>2. ASSUME NEW w \in Words, StoreWord(p, w) \/ DiscardLater(p, w)
      PROVE  Stutters
  BY <1>2 DEF StoreWord, DiscardLater, Stutters, Busy, Arg, Got
<1>3. ASSUME NEW w \in Words, RejectFirst(p, w)
      PROVE  Atomic!RejectSet(p)
  <2>1. Stored(p) /\ w \in ask[p] /\ pc[p] = "store" /\ \A v \in ask[p] : w <= v
    BY <1>3 DEF RejectFirst, IsNext, Underway
  <2>2. out[p] = "none" /\ Busy[p] /\ Arg[p] = buf[p]
    BY <1>3, <2>1 DEF RejectFirst, Stored, Busy, Arg
  <2>3. idx[p] >= count \/ buf[p][w] = TooLong
    BY <1>0, <1>3 DEF RejectFirst, InBounds, TypeOK, Records
  <2>4. buf[p][w] = TooLong => ~Atomic!FirstFits(p)
    <3>1. SUFFICES ASSUME NEW v \in ask[p], v <= w PROVE v = w
      BY <2>1, <2>2 DEF Atomic!FirstFits
    <3>2. v \in Nat /\ w \in Nat /\ w <= v
      BY <1>0, <2>1, WordsAssumption DEF TypeOK, Words
    <3> QED BY <3>1, <3>2
  <2>5. UNCHANGED <<Busy, Arg, Got>>
    BY <1>0, <1>3 DEF RejectFirst, TypeOK, Busy, Arg, Got
  <2> QED BY <1>3, <2>2, <2>3, <2>4, <2>5
          DEF RejectFirst, Atomic!RejectSet, Busy, Arg, Got, Blank, Atomic!Blank
<1>4. ASSUME SeqEndWrite(p)
      PROVE  Atomic!ReturnSetErr(p) \/ Atomic!ReturnSetOk(p)
  <2>1. Stored(p) /\ pc[p] = "store" /\ todo[p] = {} /\ ask[p] # {} /\ idx[p] \in Records
    BY <1>0, <1>4, AccessFacts DEF SeqEndWrite, Underway, Stored, TypeOK
  <2>2. /\ Busy' = [Busy EXCEPT ![p] = FALSE] /\ Got' = Got /\ Busy[p] /\ Arg[p] = buf[p]
        /\ Arg' = [Arg EXCEPT ![p] = Blank]
    BY <1>0, <1>4, MappedVariables DEF SeqEndWrite, TypeOK, Busy, Arg, Got
  <2>3. CASE out[p] = "err"
    <3>1. out' = out
      BY <1>0, <1>4, <2>3 DEF SeqEndWrite, TypeOK
    <3>2. cell[idx[p]] = committed[idx[p]]
      BY <1>0, <2>1, <2>3 DEF TypeOK, Stored
    <3>3. committed' = committed
      BY <1>0, <1>4, <2>1, <3>2 DEF SeqEndWrite, TypeOK
    <3> QED BY <1>4, <2>2, <2>3, <3>1, <3>3
            DEF SeqEndWrite, Atomic!ReturnSetErr, Busy, Arg, Got, Blank, Atomic!Blank
  <2>4. CASE out[p] = "none"
    <3>1. out' = [out EXCEPT ![p] = "ok"]
      BY <1>0, <1>4, <2>4 DEF SeqEndWrite, TypeOK
    <3>2. Atomic!FirstFits(p) /\ idx[p] < count
      BY <2>1, <2>2, <2>4 DEF Stored, FirstFits, Atomic!FirstFits
    <3>3. cell[idx[p]] = Atomic!Overlay(committed[idx[p]], Arg[p])
      <4>1. ASSUME NEW w \in Words
            PROVE  cell[idx[p]][w] = IF buf[p][w] \in Values THEN buf[p][w] ELSE committed[idx[p]][w]
        BY <2>1, <2>4, ArgumentFacts, ValuesAssumption DEF Stored
      <4> QED BY <1>0, <2>1, <2>2, <4>1 DEF TypeOK, Atomic!Overlay
    <3>4. committed' = [committed EXCEPT ![idx[p]] = Atomic!Overlay(@, Arg[p])]
      BY <1>4, <3>3 DEF SeqEndWrite
    <3> QED BY <1>4, <2>2, <2>4, <3>1, <3>2, <3>4
            DEF SeqEndWrite, Atomic!ReturnSetOk, Busy, Arg, Got, Blank, Atomic!Blank
  <2> QED BY <2>1, <2>3, <2>4 DEF Stored
<1> QED BY <1>1, <1>2, <1>3, <1>4

(* Calling a getter, its attempts, and its return.                         *)
LEMMA MappedGetter ==
  ASSUME IInv, Underway, NEW r \in Readers
  PROVE  /\ \A i \in Records, A \in Accesses : CallGet(r, i, A) => Atomic!CallGet(r)
         /\ SeqReadBegin(r) \/ GetRetry(r) => Stutters
         /\ \A w \in Words : LoadWord(r, w) => Stutters
         /\ GetOutOfBounds(r) => Atomic!ReturnGetErr(r)
         /\ GetReturn(r) => Atomic!ReturnGetOk(r)
<1> USE RolesAssumption DEF Procs, shared, process, locals
<1>0. TypeOK /\ Setters
  BY DEF IInv
<1>1. ASSUME NEW i \in Records, NEW A \in Accesses, CallGet(r, i, A)
      PROVE  Atomic!CallGet(r)
  <2>1. Busy' = [Busy EXCEPT ![r] = TRUE] /\ Arg' = Arg /\ Got' = [Got EXCEPT ![r] = Blank] /\ ~Busy[r]
    BY <1>0, <1>1, MappedVariables DEF CallGet, TypeOK, Busy
  <2>2. A \in SUBSET Words
    BY AccessFacts
  <2> QED BY <1>1, <2>1, <2>2 DEF CallGet, Atomic!CallGet, Busy, Arg, Got, Blank, Atomic!Blank
<1>2. ASSUME SeqReadBegin(r) \/ GetRetry(r) PROVE Stutters
  <2>1. pc[r] # "idle" /\ pc'[r] # "idle" /\ \A q \in Procs \ {r} : pc'[q] = pc[q] /\ buf'[q] = buf[q]
    BY <1>0, <1>2 DEF SeqReadBegin, GetRetry, TypeOK
  <2>2. UNCHANGED <<count, committed, idx, ask, out>>
    BY <1>2 DEF SeqReadBegin, GetRetry
  <2> QED BY <2>1, <2>2 DEF Stutters, Busy, Arg, Got
<1>3. ASSUME NEW w \in Words, LoadWord(r, w) PROVE Stutters
  <2>1. pc[r] # "idle" /\ pc' = pc /\ \A q \in Procs \ {r} : buf'[q] = buf[q]
    BY <1>0, <1>3 DEF LoadWord, TypeOK
  <2>2. UNCHANGED <<count, committed, idx, ask, out>>
    BY <1>3 DEF LoadWord
  <2> QED BY <2>1, <2>2 DEF Stutters, Busy, Arg, Got
<1>4. ASSUME GetOutOfBounds(r) PROVE Atomic!ReturnGetErr(r)
  <2>1. /\ Busy[r] /\ Busy' = [Busy EXCEPT ![r] = FALSE] /\ Arg' = Arg
        /\ Got' = [Got EXCEPT ![r] = Blank] /\ Got[r] = Blank
    BY <1>0, <1>4, MappedVariables DEF GetOutOfBounds, TypeOK, Busy, Got
  <2>2. Got' = Got
    BY <2>1 DEF Got
  <2>3. idx[r] >= count
    BY <1>0, <1>4 DEF GetOutOfBounds, InBounds, TypeOK, Records
  <2> QED BY <1>4, <2>1, <2>2, <2>3 DEF GetOutOfBounds, Atomic!ReturnGetErr, Busy, Arg, Got, Blank, Atomic!Blank
<1>5. ASSUME GetReturn(r) PROVE Atomic!ReturnGetOk(r)
  <2>1. Fetched(r) /\ idx[r] \in Records /\ pc[r] = "load" /\ todo[r] = {}
    BY <1>0, <1>5 DEF GetReturn, Underway, TypeOK
  <2>2. idx[r] < count
    BY <2>1, AccessFacts DEF Fetched
  <2>3. /\ \A w \in ask[r] \ Bodies : buf[r][w] = committed[idx[r]][w]
        /\ \A w \in ask[r] : cell[idx[r]][w] = committed[idx[r]][w]
    BY <1>5, ValidIsCommitted DEF GetReturn, ValidMeansCommitted
  <2>4. buf'[r] = Atomic!View(committed[idx[r]], ask[r])
    <3>1. buf'[r] = [w \in Words |-> IF w \in ask[r] \cap Bodies THEN cell[idx[r]][w] ELSE buf[r][w]]
      BY <1>0, <1>5 DEF GetReturn, TypeOK
    <3> QED BY <2>1, <2>3, <3>1 DEF Fetched, Atomic!View
  <2>5. /\ Busy[r] /\ Busy' = [Busy EXCEPT ![r] = FALSE] /\ Arg' = Arg
        /\ Got' = [Got EXCEPT ![r] = buf'[r]]
    BY <1>0, <1>5, MappedVariables DEF GetReturn, TypeOK, Busy
  <2> QED BY <1>5, <2>2, <2>4, <2>5 DEF GetReturn, Atomic!ReturnGetOk, Busy, Arg, Got, Blank, Atomic!Blank
<1> QED BY <1>1, <1>2, <1>3, <1>4, <1>5

LEMMA MappedCrash ==
  ASSUME IInv, Underway, Crash
  PROVE  Atomic!Crash
<1>0. TypeOK /\ Contents
  BY DEF IInv
<1>1. committed' \in [Records -> [Words -> Values]]
  BY <1>0 DEF Crash, TypeOK
<1>2. ASSUME NEW i \in Records, NEW w \in Words
      PROVE  \/ committed'[i][w] = committed[i][w]
             \/ \E p \in Writers : Busy[p] /\ idx[p] = i /\ committed'[i][w] = Arg[p][w]
  <2>1. CASE ~BeingSet(i)
    BY <1>0, <2>1 DEF Crash, Contents
  <2>2. CASE BeingSet(i)
    <3>1. PICK p \in Writers : pc[p] # "idle" /\ idx[p] = i
      BY <2>2 DEF BeingSet, InSetter
    <3>2. Stored(p) /\ Busy[p] /\ Arg[p] = buf[p]
      BY <3>1 DEF IInv, Setters, Underway, Busy, Arg, Procs
    <3> QED BY <3>1, <3>2 DEF Crash, Stored
  <2> QED BY <2>1, <2>2
<1>3. /\ Busy' = [p \in Procs |-> FALSE] /\ Arg' = [p \in Writers |-> Blank]
      /\ Got' = [r \in Readers |-> Blank]
  BY DEF Crash, Busy, Arg, Got, Procs
<1> QED BY <1>1, <1>2, <1>3 DEF Crash, shared, Atomic!Crash, Atomic!Procs, Atomic!Blank, Busy, Arg, Got, Procs, Blank

(* Every behaviour of the accessors, with torn stores, spinning readers    *)
(* and crashes, is one of a record that is read and written at one instant.*)
THEOREM AccessorsAreAtomic ==
  ASSUME Serialized, CleanCrashes
  PROVE  Spec => ImplementsAtomic
<1>1. IInv /\ Underway /\ [Next]_vars => [Atomic!Next]_Atomic!vars
  <2> SUFFICES ASSUME IInv, Underway, [Next]_vars PROVE [Atomic!Next]_Atomic!vars
    OBVIOUS
  <2>1. CASE Append
    BY <2>1 DEF Append, process, locals, Atomic!Next, Atomic!Append
  <2>2. CASE Crash
    BY <2>2, MappedCrash DEF Atomic!Next
  <2>3. CASE OpenStore \/ UNCHANGED vars
    BY <2>3, MappedStutter DEF OpenStore, vars, shared, process, locals, Stutters, Busy, Arg, Got
  <2>4. ASSUME NEW p \in Writers, NEW i \in Records, NEW A \in Accesses, NEW u \in Arguments(A),
               SeqBeginWrite(p, i, A, u)
        PROVE  Atomic!Next
    BY <2>4, MappedSetter DEF Atomic!Next
  <2>5. ASSUME NEW p \in Writers, SetterStep(p) PROVE [Atomic!Next]_Atomic!vars
    BY <2>5, MappedSetter, MappedStutter DEF SetterStep, Atomic!Next
  <2>6. ASSUME NEW r \in Readers, NEW i \in Records, NEW A \in Accesses, CallGet(r, i, A)
        PROVE  Atomic!Next
    BY <2>6, MappedGetter DEF Atomic!Next
  <2>7. ASSUME NEW r \in Readers, GetterStep(r) PROVE [Atomic!Next]_Atomic!vars
    BY <2>7, MappedGetter, MappedStutter DEF GetterStep, Atomic!Next
  <2> QED BY <2>1, <2>2, <2>3, <2>4, <2>5, <2>6, <2>7 DEF Next
<1> QED BY <1>1, MappedInit, UnderwayInvariant, PTL DEF Spec, ImplementsAtomic, Atomic!Spec
=============================================================================
