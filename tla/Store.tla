------------------------------- MODULE Store --------------------------------
(***************************************************************************)
(* Appending to a store, growing it, flushing its header and reopening it: *)
(* Append, grow, Sync, Close and OpenStore of store.go over Map, Grow and  *)
(* Sync of mmap_unix.go.                                                   *)
(*                                                                         *)
(* The record count and the capacity live in the mapped header, so what a  *)
(* process stores there is in the file at once and survives the process.   *)
(* s.header is a copy of the header in Go memory, read when the store is   *)
(* opened; flushHeader refreshes the copy's record count and writes the    *)
(* whole copy back.  Append holds appendMu; Sync holds nothing.            *)
(*                                                                         *)
(* One process uses the file at a time, with any number of goroutines.     *)
(* Every load and store of shared state and every system call is an action *)
(* of its own; a system call may fail.  Record contents are in Seqlock.    *)
(*                                                                         *)
(* Bounds: MaxCount records (in CallAppend, and in LockAppend for when     *)
(* Sync has set the count back since), MaxOpens openings of the file.  The *)
(* 64-bit overflow checks of grow and Append are out of reach of these     *)
(* sizes.                                                                  *)
(***************************************************************************)
EXTENDS Naturals, FiniteSets

CONSTANTS
  Appenders,        \* goroutines that call Append
  Syncers,          \* goroutines that call Sync
  None,             \* "nobody" holds appendMu
  HeaderSize, RecordSize, PageSize,  \* bytes
  InitialCapacity,  \* the capacity of a new store, in records
  MaxVA,            \* the address space reserved for the store, in bytes
  SyncsAlone,       \* callers never run Sync while an Append is under way
  FlushesGrown,     \* callers Sync and Close a store that grew since it was opened
  MaxCount, MaxOpens

ASSUME SizesAssumption ==
  /\ HeaderSize \in Nat \ {0} /\ RecordSize \in Nat \ {0}
  /\ PageSize \in Nat \ {0} /\ InitialCapacity \in Nat \ {0}
ASSUME RolesAssumption == Appenders \cap Syncers = {} /\ None \notin Appenders
ASSUME SwitchesAssumption == SyncsAlone \in BOOLEAN /\ FlushesGrown \in BOOLEAN
ASSUME BoundsAssumption == MaxCount \in Nat /\ MaxOpens \in Nat \ {0}

Procs == Appenders \cup Syncers

\* pageAlign, for the sizes n > 0 it is called with
PageAlign(n) == ((n - 1) \div PageSize + 1) * PageSize

\* the bytes a file needs for n records
Bytes(n) == HeaderSize + n * RecordSize

\* Map clamps the reservation to at least what it maps first
ASSUME ReservationAssumption == MaxVA \in Nat /\ PageAlign(Bytes(InitialCapacity)) <= MaxVA

VARIABLES
  count,      \* recordCountPtr: the record count in the mapped header
  capacity,   \* capacityPtr: the capacity in the mapped header
  fileSize,   \* the length of the file
  open,       \* a process has the store open
  opens,      \* times the store has been created or opened
  header,     \* s.header: the record count and capacity as read at open
  window,     \* bytes of file mapped at region.base, in whole pages
  size,       \* region.size: the bytes Region believes are mapped
  appendMu,   \* the holder of appendMu, or None
  pc,         \* pc[p]: where goroutine p is
  idx,        \* idx[p]: the record count Append loaded
  newCap,     \* newCap[p]: the capacity grow is growing to
  issued      \* history: the indices Append has returned

file == <<count, capacity, fileSize>>
process == <<open, opens, header, window, size, appendMu>>
locals == <<pc, idx, newCap>>
vars == <<file, process, locals, issued>>

-----------------------------------------------------------------------------
\* the capacity grow asks for
Doubled(n) == IF n = 0 THEN InitialCapacity ELSE n * 2

\* what Region.Grow extends the file and the mapping to
Target(p) == PageAlign(Bytes(newCap[p]))

Idle == \A p \in Procs : pc[p] = "idle"
Appending == \E p \in Appenders : pc[p] # "idle"
Syncing == \E p \in Syncers : pc[p] # "idle"

\* flushHeader would write a capacity other than the live one
HeaderStale == header.capacity # capacity

Goto(p, here, there) == pc[p] = here /\ pc' = [pc EXCEPT ![p] = there]

\* Append returns and its deferred Unlock runs
Unlocked == appendMu' = None
-----------------------------------------------------------------------------

\* CreateStore of a new file succeeded
Init ==
  /\ count = 0
  /\ capacity = InitialCapacity
  /\ fileSize = Bytes(InitialCapacity)
  /\ open = TRUE /\ opens = 1
  /\ header = [count |-> 0, capacity |-> InitialCapacity]
  /\ window = PageAlign(Bytes(InitialCapacity))
  /\ size = Bytes(InitialCapacity)
  /\ appendMu = None
  /\ pc = [p \in Procs |-> "idle"]
  /\ idx = [p \in Procs |-> 0]
  /\ newCap = [p \in Procs |-> 0]
  /\ issued = {}

(***************************************************************************)
(* Append and grow.                                                        *)
(***************************************************************************)

(* A goroutine calls Append; the store is open and writable.               *)
CallAppend(p) ==
  /\ open
  /\ count + Cardinality({q \in Appenders : pc[q] # "idle"}) < MaxCount
  /\ SyncsAlone => ~Syncing
  /\ Goto(p, "idle", "lock")
  /\ UNCHANGED <<file, process, idx, newCap, issued>>

(* It gets appendMu and loads the record count.                            *)
LockAppendUnguarded(p) ==
  /\ Goto(p, "lock", "check")
  /\ count < MaxCount
  /\ appendMu' = p
  /\ idx' = [idx EXCEPT ![p] = count]
  /\ UNCHANGED <<file, open, opens, header, window, size, newCap, issued>>
LockAppend(p) ==
  /\ Goto(p, "lock", "check")
  /\ count < MaxCount
  /\ appendMu = None
  /\ appendMu' = p
  /\ idx' = [idx EXCEPT ![p] = count]
  /\ UNCHANGED <<file, open, opens, header, window, size, newCap, issued>>

HasRoomOffByOne(p) ==
  /\ Goto(p, "check", "store")
  /\ idx[p] <= capacity
  /\ UNCHANGED <<file, process, idx, newCap, issued>>
HasRoom(p) ==
  /\ Goto(p, "check", "store")
  /\ idx[p] < capacity
  /\ UNCHANGED <<file, process, idx, newCap, issued>>

(* There is no room: grow loads the capacity again and doubles it.         *)
CallGrow(p) ==
  /\ Goto(p, "check", "grow")
  /\ idx[p] >= capacity
  /\ UNCHANGED <<file, process, idx, newCap, issued>>

Grow(p) ==
  /\ Goto(p, "grow", "region")
  /\ newCap' = [newCap EXCEPT ![p] = Doubled(capacity)]
  /\ UNCHANGED <<file, process, idx, issued>>

(* Region.Grow: large enough already.                                      *)
RegionLargeEnough(p) ==
  /\ Goto(p, "region", "publish")
  /\ Bytes(newCap[p]) <= size
  /\ UNCHANGED <<file, process, idx, newCap, issued>>

(* Region.Grow, call by call: Truncate, mmap over the same base, madvise.  *)
TruncateUnlimited(p) ==
  /\ Goto(p, "region", "mmap")
  /\ Bytes(newCap[p]) > size
  /\ fileSize' = Target(p)
  /\ UNCHANGED <<count, capacity, process, idx, newCap, issued>>
Truncate(p) ==
  /\ Goto(p, "region", "mmap")
  /\ Bytes(newCap[p]) > size /\ Target(p) <= MaxVA
  /\ fileSize' = Target(p)
  /\ UNCHANGED <<count, capacity, process, idx, newCap, issued>>

MmapInPlace(p) ==
  /\ Goto(p, "mmap", "madvise")
  /\ UNCHANGED <<file, process, idx, newCap, issued>>
Mmap(p) ==
  /\ Goto(p, "mmap", "madvise")
  /\ window' = Target(p)
  /\ UNCHANGED <<file, open, opens, header, size, appendMu, idx, newCap, issued>>

Madvise(p) ==
  /\ Goto(p, "madvise", "publish")
  /\ size' = Target(p)
  /\ UNCHANGED <<file, open, opens, header, window, appendMu, idx, newCap, issued>>

(* The reservation is too small or one of the calls fails: what was done   *)
(* stays done and Append returns the error.                                *)
GrowFailsLocked(p) ==
  /\ \/ Goto(p, "region", "idle") /\ Bytes(newCap[p]) > size
     \/ Goto(p, "mmap", "idle")
     \/ Goto(p, "madvise", "idle")
  /\ idx' = [idx EXCEPT ![p] = 0]
  /\ newCap' = [newCap EXCEPT ![p] = 0]
  /\ UNCHANGED <<file, process, issued>>
GrowFails(p) ==
  /\ \/ Goto(p, "region", "idle") /\ Bytes(newCap[p]) > size
     \/ Goto(p, "mmap", "idle")
     \/ Goto(p, "madvise", "idle")
  /\ Unlocked
  /\ idx' = [idx EXCEPT ![p] = 0]
  /\ newCap' = [newCap EXCEPT ![p] = 0]
  /\ UNCHANGED <<file, open, opens, header, window, size, issued>>

(* grow publishes the new capacity.                                        *)
PublishCapacity(p) ==
  /\ Goto(p, "publish", "store")
  /\ capacity' = newCap[p]
  /\ UNCHANGED <<count, fileSize, process, idx, newCap, issued>>

(* Append publishes the record, returns its index and unlocks.             *)
StoreCount(p) ==
  /\ Goto(p, "store", "idle")
  /\ count' = idx[p] + 1
  /\ issued' = issued \cup {idx[p]}
  /\ Unlocked
  /\ idx' = [idx EXCEPT ![p] = 0]
  /\ newCap' = [newCap EXCEPT ![p] = 0]
  /\ UNCHANGED <<capacity, fileSize, open, opens, header, window, size>>

AppendStep(p) ==
  \/ LockAppend(p) \/ HasRoom(p) \/ CallGrow(p) \/ Grow(p)
  \/ RegionLargeEnough(p) \/ Truncate(p) \/ Mmap(p) \/ Madvise(p) \/ GrowFails(p)
  \/ PublishCapacity(p) \/ StoreCount(p)

(***************************************************************************)
(* Sync: flushHeader copies the live record count to s.header, encodes the *)
(* copy into the mapped header word by word, and msync writes it out.      *)
(***************************************************************************)
CallSyncUnrefreshed(p) ==
  /\ open
  /\ SyncsAlone => ~Appending
  /\ FlushesGrown \/ ~HeaderStale
  /\ Goto(p, "idle", "putCount")
  /\ UNCHANGED <<file, process, idx, newCap, issued>>
CallSync(p) ==
  /\ open
  /\ SyncsAlone => ~Appending
  /\ FlushesGrown \/ ~HeaderStale
  /\ Goto(p, "idle", "putCount")
  /\ header' = [header EXCEPT !.count = count]
  /\ UNCHANGED <<file, open, opens, window, size, appendMu, idx, newCap, issued>>

PutRecordCount(p) ==
  /\ Goto(p, "putCount", "putCapacity")
  /\ count' = header.count
  /\ UNCHANGED <<capacity, fileSize, process, idx, newCap, issued>>

PutCapacity(p) ==
  /\ Goto(p, "putCapacity", "msync")
  /\ capacity' = header.capacity
  /\ UNCHANGED <<count, fileSize, process, idx, newCap, issued>>

\* msync succeeds or fails, and Sync returns
Msync(p) ==
  /\ Goto(p, "msync", "idle")
  /\ UNCHANGED <<file, process, idx, newCap, issued>>

SyncStep(p) == PutRecordCount(p) \/ PutCapacity(p) \/ Msync(p)

(***************************************************************************)
(* Closing, crashing, opening again.                                       *)
(***************************************************************************)
Released ==
  /\ open' = FALSE
  /\ header' = [count |-> 0, capacity |-> 0]
  /\ window' = 0 /\ size' = 0

(* Close, once nobody uses the store: flushHeader, msync, unmap.  A crash  *)
(* half-way leaves one of the two states around this step.                 *)
Close ==
  /\ open /\ Idle
  /\ FlushesGrown \/ ~HeaderStale
  /\ capacity' = header.capacity
  /\ Released
  /\ UNCHANGED <<count, fileSize, opens, appendMu, locals, issued>>

(* The process dies: the kernel keeps every page of the file it stored to. *)
Crash ==
  /\ open
  /\ Released
  /\ appendMu' = None
  /\ pc' = [p \in Procs |-> "idle"]
  /\ idx' = [p \in Procs |-> 0]
  /\ newCap' = [p \in Procs |-> 0]
  /\ UNCHANGED <<file, opens, issued>>

\* Map: all of the file, at the start of a fresh reservation
MapFile ==
  /\ window' = PageAlign(fileSize)
  /\ size' = fileSize

(* OpenStore maps what the file has and decodes the header.                *)
OpenStore ==
  /\ ~open /\ opens < MaxOpens
  /\ open' = TRUE /\ opens' = opens + 1
  /\ header' = [count |-> count, capacity |-> capacity]
  /\ MapFile
  /\ UNCHANGED <<file, appendMu, locals, issued>>
-----------------------------------------------------------------------------

Next ==
  \/ \E p \in Appenders : CallAppend(p) \/ AppendStep(p)
  \/ \E p \in Syncers : CallSync(p) \/ SyncStep(p)
  \/ Close
  \/ Crash
  \/ OpenStore

Spec == Init /\ [][Next]_vars

(* sync.Mutex is starvation-free: a goroutine that has waited 1ms is next  *)
(* in line.  Strong fairness of the locking step says so; everything else  *)
(* needs only a scheduler that preempts.                                   *)
Fairness ==
  /\ \A p \in Appenders : WF_vars(AppendStep(p)) /\ SF_vars(LockAppend(p))
  /\ \A p \in Syncers : WF_vars(SyncStep(p))

FairSpec == Spec /\ Fairness
-----------------------------------------------------------------------------

TypeOK ==
  /\ count \in Nat /\ capacity \in Nat /\ fileSize \in Nat
  /\ open \in BOOLEAN /\ opens \in 0 .. MaxOpens
  /\ header \in [count : Nat, capacity : Nat]
  /\ window \in 0 .. MaxVA /\ size \in Nat
  /\ appendMu \in Appenders \cup {None}
  /\ pc \in [Procs -> {"idle", "lock", "check", "grow", "region", "mmap", "madvise",
                       "publish", "store", "putCount", "putCapacity", "msync"}]
  /\ idx \in [Procs -> Nat]
  /\ newCap \in [Procs -> Nat]
  /\ issued \subseteq Nat

(* Every record the capacity promises lies in the file and, in a store     *)
(* that is open, in mapped pages: grow publishes a capacity only after the *)
(* file and the mapping have it, whatever fails or crashes on the way.     *)
CapacityBacked ==
  /\ Bytes(capacity) <= fileSize
  /\ open => Bytes(capacity) <= window

(* No index that Append returned is ever past the end again, after other   *)
(* Appends, failed ones, Sync, Close, a crash and OpenStore.               *)
IssuedLive == \A i \in issued : i < count

(* Every record below Len() is in mapped pages, so that no accessor of an  *)
(* index Append has returned faults.                                       *)
RecordsMapped == open => Bytes(count) <= window

(* Append never returns an index it has returned before.                   *)
UniqueIndices ==
  [][\A p \in Appenders : StoreCount(p) => idx[p] \notin issued]_vars

(* Every Append returns, with an index or an error; in particular no path  *)
(* out of it keeps appendMu.                                               *)
AppendReturns == \A p \in Appenders : pc[p] # "idle" ~> pc[p] = "idle"

(* To its callers the store is a log: Append is one atomic step, and       *)
(* nothing else, not Sync, Close, a failed grow or a crash, changes it.    *)
Log == INSTANCE AppendLog
ImplementsLog == Log!Spec
=============================================================================
