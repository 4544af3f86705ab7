------------------------------ MODULE Seqlock -------------------------------
(***************************************************************************)
(* The per-record seqlock of store_seq.go as the generated accessors of    *)
(* internal/codegen/template/store.tmpl use it.                            *)
(*                                                                         *)
(* A setter increments the record's counter, stores its words one by one   *)
(* and increments the counter again.  A getter loads the counter, spins    *)
(* while it is odd, loads its words one by one and starts again unless the *)
(* counter is unchanged.  One process runs the goroutines Writers and      *)
(* Readers; it may crash at any point and open the store again, which      *)
(* resets odd counters.  The store's file survives the crash.              *)
(*                                                                         *)
(* Every load and store of a word is an action of its own and memory is    *)
(* sequentially consistent, as on amd64; SeqlockWeak has what the arm64    *)
(* build may reorder.  A field of several words is a string or a byte      *)
(* slice: a length prefix, and a body (Bodies) that setters copy in and    *)
(* getters do not load, because the string they return points into the     *)
(* record.  The capacity is never reached (Store.tla models growth).       *)
(*                                                                         *)
(* Bounds: MaxRecords records, MaxSeq on counters, MaxCrashes crashes.     *)
(***************************************************************************)
EXTENDS Naturals

CONSTANTS
  Writers,      \* goroutines that call Set and Set<Field>
  Readers,      \* goroutines that call Get and Get<Field>
  NumWords,     \* words per record, in layout order
  Fields,       \* the fields, each a set of words
  Fallible,     \* the string and bytes fields whose argument may be too long
  Bodies,       \* the words that are the body of a string or byte slice
  Values, Zero, \* word values; Zero is what a fresh page holds
  None,         \* "no word"
  TooLong,      \* a word of an argument longer than its field's max size
  Serialized,   \* callers never run two setters on one record at a time
  CleanCrashes, \* no crash strikes a setter whose index is past the end
  MaxRecords, MaxSeq, MaxCrashes

Words == 1 .. NumWords
Records == 0 .. MaxRecords - 1
Procs == Writers \cup Readers

ASSUME WordsAssumption == NumWords \in Nat \ {0}
ASSUME BoundsAssumption == MaxRecords \in Nat \ {0} /\ MaxSeq \in Nat /\ MaxCrashes \in Nat
ASSUME RolesAssumption == Writers \cap Readers = {}
ASSUME ValuesAssumption == Zero \in Values /\ None \notin Values /\ TooLong \notin Values
                           /\ None # TooLong
ASSUME SwitchesAssumption == Serialized \in BOOLEAN /\ CleanCrashes \in BOOLEAN
ASSUME FieldsAssumption ==
  /\ Fields \subseteq SUBSET Words \ {{}}
  /\ \A w \in Words : \E F \in Fields : w \in F
  /\ \A F, G \in Fields : F # G => F \cap G = {}
  /\ Fallible \subseteq Fields
  /\ Bodies \subseteq Words /\ \A F \in Fields : ~(F \subseteq Bodies)

VARIABLES
  count,      \* recordCountPtr: the number of records
  seq,        \* seq[i]: the 8-byte counter at offset 0 of record i
  cell,       \* cell[i][w]: word w of record i
  up,         \* the process runs and has the store open
  crashes,    \* crashes so far
  pc,         \* pc[p]: where goroutine p is
  idx,        \* idx[p]: the idx argument of p's call
  ask,        \* ask[p]: the words p's call stores or loads
  todo,       \* todo[p]: those it has not stored or loaded yet
  buf,        \* buf[p]: a running setter's argument, what a getter loaded (and,
              \* once it has returned, what its strings pointed at then)
  snap,       \* snap[r]: the counter SeqReadBegin returned
  out,        \* out[p]: how p's last call ended
  committed   \* history: record contents at the last SeqEndWrite or crash

shared == <<count, seq, cell>>
process == <<up, crashes>>
locals == <<pc, idx, ask, todo, buf, snap, out>>
vars == <<shared, process, locals, committed>>

Blank == [w \in Words |-> None]
Odd(n) == n % 2 = 1

\* A generated accessor touches one field, Get and Set touch all of them.
Accesses == Fields \cup {Words}

\* The arguments of a setter for the words A: a whole field is either of an
\* acceptable length or not.
Arguments(A) ==
  {u \in [Words -> Values \cup {None, TooLong}] :
     /\ \A w \in Words : u[w] = None <=> w \notin A
     /\ \A F \in Fields : (\E w \in F : u[w] = TooLong) =>
          F \in Fallible /\ \A w \in F : u[w] = TooLong}

\* w is the next word the call of p gets to: fields go in layout order
IsNext(p, w) == w \in todo[p] /\ \A v \in todo[p] : w <= v

InSetter(p, i) == p \in Writers /\ pc[p] # "idle" /\ idx[p] = i
BeingSet(i) == \E p \in Writers : InSetter(p, i)

-----------------------------------------------------------------------------
(* The checks and conversions the actions are made of.                     *)

\* fieldSlice: the index must be below the live record count
InBoundsOffByOne(i) == i <= count
InBounds(i) == i < count

\* Append's capacity check, with growth left out: there is room
HasRoomUnchecked == TRUE
HasRoom == count < MaxRecords

\* SeqReadValid: even, and unchanged since SeqReadBegin
SeqReadValidParityOnly(i, s) == ~Odd(s)
SeqReadValid(i, s) == ~Odd(s) /\ seq[i] = s

\* recoverSeqlocks: the counter of record i after a writable OpenStore
RecoveredNever(i) == seq[i]
Recovered(i) == IF i < count /\ Odd(seq[i]) THEN seq[i] + 1 ELSE seq[i]
-----------------------------------------------------------------------------

Init ==
  /\ count = 0
  /\ seq = [i \in Records |-> 0]
  /\ cell = [i \in Records |-> [w \in Words |-> Zero]]
  /\ up = TRUE
  /\ crashes = 0
  /\ pc = [p \in Procs |-> "idle"]
  /\ idx = [p \in Procs |-> 0]
  /\ ask = [p \in Procs |-> {}]
  /\ todo = [p \in Procs |-> {}]
  /\ buf = [p \in Procs |-> Blank]
  /\ snap = [r \in Readers |-> 0]
  /\ out = [p \in Procs |-> "none"]
  /\ committed = cell

(* Append, when the capacity suffices: one store to the record count,      *)
(* under appendMu.                                                         *)
Append ==
  /\ up
  /\ HasRoom
  /\ count' = count + 1
  /\ UNCHANGED <<seq, cell, process, locals, committed>>

(***************************************************************************)
(* Setters.                                                                *)
(***************************************************************************)
(* Set or Set<Field>: SeqBeginWrite comes first, before any check of idx,  *)
(* which may be past the end.  (A negative idx, or one so large that the   *)
(* counter is outside the mapping, is not modelled.)                       *)
SeqBeginWrite(p, i, A, u) ==
  /\ up
  /\ pc[p] = "idle"
  /\ Serialized => ~BeingSet(i)
  /\ seq[i] + 2 <= MaxSeq
  /\ seq' = [seq EXCEPT ![i] = @ + 1]
  /\ pc' = [pc EXCEPT ![p] = "store"]
  /\ idx' = [idx EXCEPT ![p] = i]
  /\ ask' = [ask EXCEPT ![p] = A]
  /\ todo' = [todo EXCEPT ![p] = A]
  /\ buf' = [buf EXCEPT ![p] = u]
  /\ out' = [out EXCEPT ![p] = "none"]
  /\ UNCHANGED <<count, cell, process, snap, committed>>

(* One Write<Type> call, or one of the stores of WriteString/WriteBytes:   *)
(* the index is in bounds and the argument fits.                           *)
StoreWord(p, w) ==
  /\ pc[p] = "store" /\ IsNext(p, w)
  /\ InBounds(idx[p])
  /\ buf[p][w] # TooLong
  /\ cell' = [cell EXCEPT ![idx[p]][w] = buf[p][w]]
  /\ todo' = [todo EXCEPT ![p] = @ \ {w}]
  /\ UNCHANGED <<count, seq, process, pc, idx, ask, buf, snap, out, committed>>

(* The first Write<Type> call fails (no such record, or too long): the     *)
(* setter goes straight to SeqEndWrite and will return the error.          *)
RejectFirstSwallowed(p, w) ==
  /\ pc[p] = "store" /\ IsNext(p, w) /\ todo[p] = ask[p]
  /\ ~InBounds(idx[p]) \/ buf[p][w] = TooLong
  /\ todo' = [todo EXCEPT ![p] = {}]
  /\ UNCHANGED <<shared, process, pc, idx, ask, buf, snap, out, committed>>
RejectFirst(p, w) ==
  /\ pc[p] = "store" /\ IsNext(p, w) /\ todo[p] = ask[p]
  /\ ~InBounds(idx[p]) \/ buf[p][w] = TooLong
  /\ todo' = [todo EXCEPT ![p] = {}]
  /\ out' = [out EXCEPT ![p] = "err"]
  /\ UNCHANGED <<shared, process, pc, idx, ask, buf, snap, committed>>

(* A later Write<Type> call of Set fails: its error is discarded.  (The    *)
(* index cannot be what fails: the record count never decreases here.)     *)
DiscardLater(p, w) ==
  /\ pc[p] = "store" /\ IsNext(p, w) /\ todo[p] # ask[p]
  /\ buf[p][w] = TooLong
  /\ todo' = [todo EXCEPT ![p] = @ \ {w}]
  /\ UNCHANGED <<shared, process, pc, idx, ask, buf, snap, out, committed>>

(* SeqEndWrite, and the setter returns; an error path that returned first  *)
(* would leave the counter odd.                                            *)
SeqEndWriteSkippedOnError(p) ==
  /\ pc[p] = "store" /\ todo[p] = {}
  /\ seq' = IF out[p] = "err" THEN seq ELSE [seq EXCEPT ![idx[p]] = @ + 1]
  /\ committed' = [committed EXCEPT ![idx[p]] = cell[idx[p]]]
  /\ pc' = [pc EXCEPT ![p] = "idle"]
  /\ out' = [out EXCEPT ![p] = IF @ = "err" THEN "err" ELSE "ok"]
  /\ buf' = [buf EXCEPT ![p] = Blank]
  /\ UNCHANGED <<count, cell, process, idx, ask, todo, snap>>
SeqEndWrite(p) ==
  /\ pc[p] = "store" /\ todo[p] = {}
  /\ seq' = [seq EXCEPT ![idx[p]] = @ + 1]
  /\ committed' = [committed EXCEPT ![idx[p]] = cell[idx[p]]]
  /\ pc' = [pc EXCEPT ![p] = "idle"]
  /\ out' = [out EXCEPT ![p] = IF @ = "err" THEN "err" ELSE "ok"]
  /\ buf' = [buf EXCEPT ![p] = Blank]
  /\ UNCHANGED <<count, cell, process, idx, ask, todo, snap>>

(***************************************************************************)
(* Getters.                                                                *)
(***************************************************************************)
(* Get or Get<Field> is called.                                            *)
CallGet(r, i, A) ==
  /\ up
  /\ pc[r] = "idle"
  /\ pc' = [pc EXCEPT ![r] = "begin"]
  /\ idx' = [idx EXCEPT ![r] = i]
  /\ ask' = [ask EXCEPT ![r] = A]
  /\ todo' = [todo EXCEPT ![r] = A \ Bodies]
  /\ buf' = [buf EXCEPT ![r] = Blank]
  /\ out' = [out EXCEPT ![r] = "none"]
  /\ UNCHANGED <<shared, process, snap, committed>>

(* SeqReadBegin returned an even counter; while it is odd the getter spins *)
(* here and changes nothing.                                               *)
SeqReadBegin(r) ==
  /\ pc[r] = "begin"
  /\ ~Odd(seq[idx[r]])
  /\ snap' = [snap EXCEPT ![r] = seq[idx[r]]]
  /\ pc' = [pc EXCEPT ![r] = "load"]
  /\ UNCHANGED <<shared, process, idx, ask, todo, buf, out, committed>>

(* One Read<Type> call; ReadString and ReadBytes load the length prefix.   *)
LoadWord(r, w) ==
  /\ pc[r] = "load" /\ IsNext(r, w)
  /\ InBounds(idx[r])
  /\ buf' = [buf EXCEPT ![r][w] = cell[idx[r]][w]]
  /\ todo' = [todo EXCEPT ![r] = @ \ {w}]
  /\ UNCHANGED <<shared, process, pc, idx, ask, snap, out, committed>>

(* The first Read<Type> call fails: the getter returns the error without   *)
(* validating the counter.                                                 *)
GetOutOfBounds(r) ==
  /\ pc[r] = "load" /\ todo[r] = ask[r] \ Bodies
  /\ ~InBounds(idx[r])
  /\ pc' = [pc EXCEPT ![r] = "idle"]
  /\ out' = [out EXCEPT ![r] = "err"]
  /\ UNCHANGED <<shared, process, idx, ask, todo, buf, snap, committed>>

(* SeqReadValid holds and the getter returns what it loaded, with strings  *)
(* and byte slices that point at the body words as they are now.           *)
GetReturn(r) ==
  /\ pc[r] = "load" /\ todo[r] = {}
  /\ SeqReadValid(idx[r], snap[r])
  /\ pc' = [pc EXCEPT ![r] = "idle"]
  /\ out' = [out EXCEPT ![r] = "ok"]
  /\ buf' = [buf EXCEPT ![r] =
               [w \in Words |-> IF w \in ask[r] \cap Bodies THEN cell[idx[r]][w] ELSE @[w]]]
  /\ UNCHANGED <<shared, process, idx, ask, todo, snap, committed>>

(* SeqReadValid fails: the getter drops what it loaded and goes around.    *)
GetRetry(r) ==
  /\ pc[r] = "load" /\ todo[r] = {}
  /\ ~SeqReadValid(idx[r], snap[r])
  /\ pc' = [pc EXCEPT ![r] = "begin"]
  /\ todo' = [todo EXCEPT ![r] = ask[r] \ Bodies]
  /\ buf' = [buf EXCEPT ![r] = Blank]
  /\ UNCHANGED <<shared, process, idx, ask, snap, out, committed>>

(***************************************************************************)
(* Crash and restart.                                                      *)
(***************************************************************************)
(* The process dies; the mapped file keeps whatever had been stored.       *)
Crash ==
  /\ up /\ crashes < MaxCrashes
  /\ CleanCrashes => \A p \in Writers : pc[p] # "idle" => idx[p] < count
  /\ up' = FALSE
  /\ crashes' = crashes + 1
  /\ pc' = [p \in Procs |-> "idle"]
  /\ idx' = [p \in Procs |-> 0]
  /\ ask' = [p \in Procs |-> {}]
  /\ todo' = [p \in Procs |-> {}]
  /\ buf' = [p \in Procs |-> Blank]
  /\ snap' = [r \in Readers |-> 0]
  /\ out' = [p \in Procs |-> "none"]
  /\ committed' = cell
  /\ UNCHANGED shared

(* A writable OpenStore runs recoverSeqlocks before it returns the store.  *)
OpenStore ==
  /\ ~up
  /\ up' = TRUE
  /\ seq' = [i \in Records |-> Recovered(i)]
  /\ UNCHANGED <<count, cell, crashes, locals, committed>>
-----------------------------------------------------------------------------

SetterStep(p) ==
  \/ \E w \in Words : StoreWord(p, w) \/ RejectFirst(p, w) \/ DiscardLater(p, w)
  \/ SeqEndWrite(p)

GetterStep(r) ==
  \/ SeqReadBegin(r)
  \/ \E w \in Words : LoadWord(r, w)
  \/ GetOutOfBounds(r)
  \/ GetReturn(r)
  \/ GetRetry(r)

Next ==
  \/ Append
  \/ \E p \in Writers :
       \/ \E i \in Records, A \in Accesses : \E u \in Arguments(A) :
            SeqBeginWrite(p, i, A, u)
       \/ SetterStep(p)
  \/ \E r \in Readers :
       \/ \E i \in Records, A \in Accesses : CallGet(r, i, A)
       \/ GetterStep(r)
  \/ Crash
  \/ OpenStore

Spec == Init /\ [][Next]_vars

(* The Go scheduler preempts, so no runnable goroutine is passed over for  *)
(* ever; when calls are made, when the process dies and whether anyone     *)
(* opens the store again is up to the environment.                         *)
Fairness ==
  /\ \A p \in Writers : WF_vars(SetterStep(p))
  /\ \A r \in Readers : WF_vars(GetterStep(r))

FairSpec == Spec /\ Fairness
-----------------------------------------------------------------------------

TypeOK ==
  /\ count \in 0 .. MaxRecords
  /\ seq \in [Records -> 0 .. MaxSeq]
  /\ cell \in [Records -> [Words -> Values]]
  /\ up \in BOOLEAN /\ crashes \in 0 .. MaxCrashes
  /\ pc \in [Procs -> {"idle", "store", "begin", "load"}]
  /\ idx \in [Procs -> Records]
  /\ ask \in [Procs -> SUBSET Words]
  /\ todo \in [Procs -> SUBSET Words]
  /\ buf \in [Procs -> [Words -> Values \cup {None, TooLong}]]
  /\ snap \in [Readers -> 0 .. MaxSeq]
  /\ out \in [Procs -> {"none", "ok", "err"}]
  /\ committed \in [Records -> [Words -> Values]]

(* A getter whose SeqReadValid is about to succeed holds the record as the *)
(* last setter left it, all words from the same setters, and no setter is  *)
(* under way: "readers never see a torn write" (store_seq.go:40).          *)
ValidMeansCommitted ==
  \A r \in Readers :
    pc[r] = "load" /\ todo[r] = {} /\ SeqReadValid(idx[r], snap[r]) =>
      /\ ~BeingSet(idx[r])
      /\ \A w \in ask[r] \ Bodies : buf[r][w] = committed[idx[r]][w]
      /\ \A w \in ask[r] : cell[idx[r]][w] = committed[idx[r]][w]

(* A counter is odd exactly while a setter is between SeqBeginWrite and    *)
(* SeqEndWrite on its record: no error path and no crash leaves it odd for *)
(* a store that is open.                                                   *)
OddIffWriting == up => \A i \in Records : Odd(seq[i]) <=> BeingSet(i)

(* Append returns a zero-filled record: nothing, not even a setter called  *)
(* with an index past the end, has stored to a record before it is         *)
(* appended (the doc comment of Append).                                   *)
FreshRecordsZero ==
  \A i \in Records : i >= count => cell[i] = [w \in Words |-> Zero]

(* "Set writes all fields atomically" (the doc comment of the generated    *)
(* Set): a setter that returns nil has stored every word it was given and  *)
(* one that returns an error has changed nothing.                          *)
SetAllOrNothing ==
  [][\A p \in Writers : SeqEndWrite(p) =>
       LET i == idx[p] IN
       IF out'[p] = "ok" THEN \A w \in ask[p] : committed'[i][w] = buf[p][w]
                         ELSE committed'[i] = committed[i]]_vars

\* the first of the fields p was given fits
FirstFits(p) == \E w \in ask[p] : buf[p][w] # TooLong /\ \A v \in ask[p] : w <= v

(* What a setter does of that, whichever fields are too long: if it        *)
(* returns nil, its first field fitted, and of the record it has replaced  *)
(* exactly the fields that fitted, each of them whole; if it returns an    *)
(* error, it has changed nothing.                                          *)
SetByFields ==
  [][\A p \in Writers : SeqEndWrite(p) =>
       LET i == idx[p] IN
       IF out'[p] = "ok"
       THEN /\ FirstFits(p) /\ i < count
            /\ \A w \in Words :
                 committed'[i][w] = IF w \in ask[p] /\ buf[p][w] # TooLong THEN buf[p][w]
                                    ELSE committed[i][w]
       ELSE committed'[i] = committed[i]]_vars

(* A getter whose record is, from some time on, never being set returns:   *)
(* readers do not spin for ever on a counter nobody will make even.        *)
GetReturns ==
  \A r \in Readers, i \in Records :
    <>[](~BeingSet(i)) => (pc[r] # "idle" /\ idx[r] = i ~> pc[r] = "idle")

(***************************************************************************)
(* The accessors implement the atomic record of AtomicRecord: a setter     *)
(* takes effect when it makes the counter even again, a getter when        *)
(* SeqReadValid succeeds.                                                  *)
(***************************************************************************)
Atomic == INSTANCE AtomicRecord WITH
  rec  <- committed,
  busy <- [p \in Procs |-> pc[p] # "idle"],
  arg  <- [p \in Writers |-> buf[p]],
  got  <- [r \in Readers |-> IF pc[r] = "idle" /\ out[r] = "ok" THEN buf[r] ELSE Blank]

(* Every behaviour of the seqlock is one of an atomic Get/Set.             *)
ImplementsAtomic == Atomic!Spec
=============================================================================
