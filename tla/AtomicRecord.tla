---------------------------- MODULE AtomicRecord ----------------------------
(***************************************************************************)
(* What the generated accessors of a typed store promise their callers:    *)
(* "Get reads all fields atomically", "Set writes all fields atomically",  *)
(* and a per-field getter or setter does the same for its own field.  A    *)
(* getter returns the record as it is at one instant between its call and  *)
(* its return; a setter that returns nil has replaced, at one instant,     *)
(* every field whose argument fits, the first one among them, and one that *)
(* returns an error has replaced none.  (The fields after the first that   *)
(* are too long are dropped without an error: Seqlock's SetAllOrNothing.)  *)
(* A process crash may leave any part of the updates in flight, and        *)
(* nothing else.                                                           *)
(*                                                                         *)
(* Seqlock implements this specification: see the refinement mapping       *)
(* there.  No line of the repository is modelled here.                     *)
(***************************************************************************)
EXTENDS Naturals

CONSTANTS
  Writers,      \* goroutines that call setters
  Readers,      \* goroutines that call getters
  Records,      \* record indices
  Words,        \* the words of a record, numbers in layout order: the
                \* unit of one machine store
  Values,       \* what a word can hold
  Zero,         \* the word of a freshly appended record
  None,         \* marks a word a call does not touch
  TooLong       \* marks a word of an argument longer than its field

VARIABLES
  count,        \* the number of records
  rec,          \* rec[i][w]: the value of word w of record i
  busy,         \* busy[p]: p is inside a call
  idx,          \* idx[p]: the record index p's call is about
  ask,          \* ask[p]: the words p's call is about
  arg,          \* arg[p]: the words a running setter was given
  got,          \* got[p]: the words p's last getter returned
  out           \* out[p]: "none", "ok" or "err", how p's last call ended

vars == <<count, rec, busy, idx, ask, arg, got, out>>

Procs == Writers \cup Readers

Blank == [w \in Words |-> None]

\* r with the words of u that are values laid over it
Overlay(r, u) == [w \in Words |-> IF u[w] \in Values THEN u[w] ELSE r[w]]

\* the words A of r
View(r, A) == [w \in Words |-> IF w \in A THEN r[w] ELSE None]

Init ==
  /\ count = 0
  /\ rec = [i \in Records |-> [w \in Words |-> Zero]]
  /\ busy = [p \in Procs |-> FALSE]
  /\ idx = [p \in Procs |-> 0]
  /\ ask = [p \in Procs |-> {}]
  /\ arg = [p \in Writers |-> Blank]
  /\ got = [p \in Readers |-> Blank]
  /\ out = [p \in Procs |-> "none"]

Append ==
  /\ count' = count + 1
  /\ UNCHANGED <<rec, busy, idx, ask, arg, got, out>>

CallSet(p) ==
  /\ ~busy[p]
  /\ busy' = [busy EXCEPT ![p] = TRUE]
  /\ out' = [out EXCEPT ![p] = "none"]
  /\ \E i \in Records, A \in SUBSET Words,
        u \in [Words -> Values \cup {None, TooLong}] :
       /\ \A w \in Words : u[w] = None <=> w \notin A
       /\ idx' = [idx EXCEPT ![p] = i]
       /\ ask' = [ask EXCEPT ![p] = A]
       /\ arg' = [arg EXCEPT ![p] = u]
  /\ UNCHANGED <<count, rec, got>>

\* the first of the words p was given fits its field
FirstFits(p) == \E w \in ask[p] : arg[p][w] # TooLong /\ \A v \in ask[p] : w <= v

\* the setter finds that it must fail: its first field is too long, or there
\* is no such record
RejectSet(p) ==
  /\ busy[p] /\ out[p] = "none"
  /\ idx[p] >= count \/ ~FirstFits(p)
  /\ out' = [out EXCEPT ![p] = "err"]
  /\ UNCHANGED <<count, rec, busy, idx, ask, arg, got>>

ReturnSetErr(p) ==
  /\ busy[p] /\ out[p] = "err"
  /\ busy' = [busy EXCEPT ![p] = FALSE]
  /\ arg' = [arg EXCEPT ![p] = Blank]
  /\ UNCHANGED <<count, rec, idx, ask, got, out>>

\* the setter takes effect: every field that fits, at this instant
ReturnSetOk(p) ==
  /\ busy[p] /\ out[p] = "none"
  /\ idx[p] < count
  /\ FirstFits(p)
  /\ rec' = [rec EXCEPT ![idx[p]] = Overlay(@, arg[p])]
  /\ busy' = [busy EXCEPT ![p] = FALSE]
  /\ out' = [out EXCEPT ![p] = "ok"]
  /\ arg' = [arg EXCEPT ![p] = Blank]
  /\ UNCHANGED <<count, idx, ask, got>>

CallGet(p) ==
  /\ ~busy[p]
  /\ \E i \in Records, A \in SUBSET Words :
       /\ idx' = [idx EXCEPT ![p] = i]
       /\ ask' = [ask EXCEPT ![p] = A]
  /\ busy' = [busy EXCEPT ![p] = TRUE]
  /\ got' = [got EXCEPT ![p] = Blank]
  /\ out' = [out EXCEPT ![p] = "none"]
  /\ UNCHANGED <<count, rec, arg>>

ReturnGetErr(p) ==
  /\ busy[p]
  /\ idx[p] >= count
  /\ busy' = [busy EXCEPT ![p] = FALSE]
  /\ out' = [out EXCEPT ![p] = "err"]
  /\ UNCHANGED <<count, rec, idx, ask, arg, got>>

\* the getter returns the record as it is now
ReturnGetOk(p) ==
  /\ busy[p]
  /\ idx[p] < count
  /\ got' = [got EXCEPT ![p] = View(rec[idx[p]], ask[p])]
  /\ busy' = [busy EXCEPT ![p] = FALSE]
  /\ out' = [out EXCEPT ![p] = "ok"]
  /\ UNCHANGED <<count, rec, idx, ask, arg>>

\* The process dies: calls vanish, and each word of a record is either what
\* it was or what a setter in flight was about to make it.
Crash ==
  /\ rec' \in [Records -> [Words -> Values]]
  /\ \A i \in Records, w \in Words :
       \/ rec'[i][w] = rec[i][w]
       \/ \E p \in Writers : busy[p] /\ idx[p] = i /\ rec'[i][w] = arg[p][w]
  /\ busy' = [p \in Procs |-> FALSE]
  /\ idx' = [p \in Procs |-> 0]
  /\ ask' = [p \in Procs |-> {}]
  /\ arg' = [p \in Writers |-> Blank]
  /\ got' = [p \in Readers |-> Blank]
  /\ out' = [p \in Procs |-> "none"]
  /\ UNCHANGED count

Next ==
  \/ Append
  \/ \E p \in Writers : CallSet(p) \/ RejectSet(p) \/ ReturnSetErr(p) \/ ReturnSetOk(p)
  \/ \E p \in Readers : CallGet(p) \/ ReturnGetErr(p) \/ ReturnGetOk(p)
  \/ Crash

Spec == Init /\ [][Next]_vars
=============================================================================
