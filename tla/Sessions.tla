------------------------------ MODULE Sessions ------------------------------
(***************************************************************************)
(* Several processes that create, open, use and close the store at one     *)
(* path: CreateStore, OpenStore, Sync, Close and recoverSeqlocks of        *)
(* store.go with their failure paths, over Map and Close of mmap_unix.go,  *)
(* the sidecar lock of lock_unix.go and the options of options.go.         *)
(*                                                                         *)
(* The header and the counters are shared memory: every process sees and   *)
(* changes them at once, and they outlive it.  What a process has for      *)
(* itself are a descriptor, a mapping of the file as long as the file was  *)
(* when it was mapped, the copy of the header it decoded, and perhaps the  *)
(* lock, which the kernel gives back when the process dies.                *)
(*                                                                         *)
(* A process works on one store at a time, with one goroutine; Append is   *)
(* one step, with or without growth (Store has its steps, and what fails   *)
(* in a growth other than mapping the file).  Sizes are in records.  Of    *)
(* the counters that recovery scans, record 0's is followed.  munmap and   *)
(* encoding the header do not fail.  EncodeHeader and DecodeHeader are     *)
(* split where another process can tell: what identifies the file comes    *)
(* first, the count and the capacity after it.                             *)
(*                                                                         *)
(* Bounds: MaxCapacity and MaxCount, in the guards of Append, on the       *)
(* capacity and the number of records.                                     *)
(***************************************************************************)
EXTENDS Naturals

CONSTANTS
  Procs,            \* processes
  None,             \* "nobody" holds the lock
  Options,          \* the option sets callers use: "one", "ro", both, neither
  InitialCapacity,  \* initialCapacity
  CreatedFirst,     \* callers append only when nobody is in CreateStore
  MaxCapacity,
  MaxCount

ASSUME ProcsAssumption == None \notin Procs
ASSUME OptionsAssumption == Options \subseteq SUBSET {"one", "ro"}
ASSUME CapacityAssumption ==
  /\ InitialCapacity \in Nat \ {0} /\ MaxCapacity \in Nat /\ MaxCount \in Nat
  /\ InitialCapacity <= MaxCapacity
ASSUME SwitchAssumption == CreatedFirst \in BOOLEAN

VARIABLES
  path,       \* "absent", "blank" (no such header yet) or "ready": the file
              \* has the magic number and the hash of this schema
  fileCap,    \* the length of the file
  shrunk,     \* history: a growth has made the file shorter
  count,      \* the record count in the header
  capacity,   \* the capacity in the header
  odd,        \* record 0's counter is odd
  holder,     \* the process that has the .lock file flocked, or None
  pc,         \* pc[p]: where process p is in a call
  opt,        \* opt[p]: the options of its store
  fd,         \* fd[p]: it has the file open
  win,        \* win[p]: how much of the file it has mapped, 0: none
  handle,     \* handle[p]: the *Store it was given: "none", one whose
              \* s.region is set ("region"), one whose s.region is nil ("nil")
  header,     \* header[p]: s.header
  closing,    \* closing[p]: flushHeader runs for Close, not for Sync
  botched,    \* history: botched[p]: msync failed in the last Close
  outdated    \* history: outdated[p]: the length of the file has changed
              \* since p mapped it

file == <<path, fileCap, shrunk, count, capacity, odd>>
call == <<pc, opt, closing>>
held == <<fd, win, handle, header, botched, outdated>>
vars == <<file, holder, call, held>>

Goto(p, here, there) == pc[p] = here /\ pc' = [pc EXCEPT ![p] = there]

ReadOnly(p) == "ro" \in opt[p]
OneWriter(p) == "one" \in opt[p]

\* p may use its store
IsOpen(p) == pc[p] = "idle" /\ handle[p] = "region" /\ win[p] > 0

\* every live record is in the file and in what p has mapped of it
RecordsMappedBy(p) == count <= win[p] /\ count <= fileCap

\* Region.Close; nobody reads s.header again, and the model forgets it
UnmappedFileOnly(p) == fd' = [fd EXCEPT ![p] = FALSE] /\ UNCHANGED <<win, header, outdated>>
Unmapped(p) ==
  /\ win' = [win EXCEPT ![p] = 0]
  /\ fd' = [fd EXCEPT ![p] = FALSE]
  /\ header' = [header EXCEPT ![p] = [count |-> 0, capacity |-> 0]]
  /\ outdated' = [outdated EXCEPT ![p] = FALSE]

\* releaseLock, which does nothing without a lockFile
Unlocked(p) == holder' = IF holder = p THEN None ELSE holder
-----------------------------------------------------------------------------

Init ==
  /\ path = "absent" /\ fileCap = 0 /\ shrunk = FALSE /\ count = 0 /\ capacity = 0 /\ odd = FALSE
  /\ holder = None
  /\ pc = [p \in Procs |-> "idle"]
  /\ opt = [p \in Procs |-> {}]
  /\ fd = [p \in Procs |-> FALSE]
  /\ win = [p \in Procs |-> 0]
  /\ handle = [p \in Procs |-> "none"]
  /\ header = [p \in Procs |-> [count |-> 0, capacity |-> 0]]
  /\ closing = [p \in Procs |-> FALSE]
  /\ botched = [p \in Procs |-> FALSE]
  /\ outdated = [p \in Procs |-> FALSE]

(***************************************************************************)
(* CreateStore and OpenStore.                                              *)
(***************************************************************************)

\* The call begins with the options o and opens the file.  p has no store.
OpenFile(p, o, there) ==
  /\ win[p] = 0
  /\ Goto(p, "idle", there)
  /\ opt' = [opt EXCEPT ![p] = o]
  /\ fd' = [fd EXCEPT ![p] = TRUE]
  /\ handle' = [handle EXCEPT ![p] = "none"]
  /\ botched' = [botched EXCEPT ![p] = FALSE]
  /\ UNCHANGED <<holder, win, header, closing, outdated>>

(* O_EXCL: only one process ever creates the file.                         *)
CallCreate(p, o) ==
  /\ "ro" \notin o
  /\ path = "absent" /\ path' = "blank"
  /\ OpenFile(p, o, "createMap")
  /\ UNCHANGED <<fileCap, shrunk, count, capacity, odd>>

CallOpen(p, o) ==
  /\ path # "absent"
  /\ OpenFile(p, o, "openMap")
  /\ UNCHANGED file

(* Map extends the new file and maps it.                                   *)
CreateMap(p) ==
  /\ Goto(p, "createMap", "identify")
  /\ fileCap' = InitialCapacity
  /\ win' = [win EXCEPT ![p] = InitialCapacity]
  /\ UNCHANGED <<path, shrunk, count, capacity, odd, holder, opt, closing, fd, handle, header, botched, outdated>>

(* Stat and Map: the mapping is as long as the file is now.                *)
OpenMap(p) ==
  /\ fileCap > 0
  /\ Goto(p, "openMap", "decode")
  /\ win' = [win EXCEPT ![p] = fileCap]
  /\ UNCHANGED <<file, holder, opt, closing, fd, handle, header, botched, outdated>>

(* The file is too short for a header, or a call of Map fails: Map gives   *)
(* its reservation back and the caller closes the file.  The file that     *)
(* CreateStore has created stays, extended already if it was mmap or       *)
(* madvise that failed.                                                    *)
MapFails(p) ==
  /\ \/ Goto(p, "createMap", "idle") /\ fileCap' \in {fileCap, InitialCapacity}
     \/ Goto(p, "openMap", "idle") /\ UNCHANGED fileCap
  /\ fd' = [fd EXCEPT ![p] = FALSE]
  /\ UNCHANGED <<path, shrunk, count, capacity, odd, holder, opt, closing, win, handle, header, botched, outdated>>

\* the call succeeds, but for the lock if it is asked for
Proceed(p) ==
  IF OneWriter(p) THEN pc' = [pc EXCEPT ![p] = "lock"] /\ UNCHANGED handle
  ELSE pc' = [pc EXCEPT ![p] = "idle"] /\ handle' = [handle EXCEPT ![p] = "region"]

(* CreateStore encodes the header, from the magic number to the capacity.  *)
EncodeIdentity(p) ==
  /\ Goto(p, "identify", "encode")
  /\ path' = "ready"
  /\ UNCHANGED <<fileCap, shrunk, count, capacity, odd, holder, opt, closing, held>>
EncodeHeader(p) ==
  /\ pc[p] = "encode"
  /\ count' = 0 /\ capacity' = InitialCapacity
  /\ header' = [header EXCEPT ![p] = [count |-> 0, capacity |-> InitialCapacity]]
  /\ Proceed(p)
  /\ UNCHANGED <<path, fileCap, shrunk, odd, holder, opt, closing, fd, win, botched, outdated>>

(* OpenStore decodes it into s.header, and goes on to recovery if the      *)
(* store is writable.                                                      *)
DecodeUnchecked(p) ==
  /\ pc[p] = "decode"
  /\ header' = [header EXCEPT ![p] = [count |-> count, capacity |-> capacity]]
  /\ IF ReadOnly(p) THEN Proceed(p)
     ELSE pc' = [pc EXCEPT ![p] = "recover"] /\ UNCHANGED handle
  /\ UNCHANGED <<file, holder, opt, closing, fd, win, botched, outdated>>
DecodeHeader(p) ==
  /\ pc[p] = "decode"
  /\ path = "ready"
  /\ header' = [header EXCEPT ![p] = [count |-> count, capacity |-> capacity]]
  /\ IF ReadOnly(p) THEN Proceed(p)
     ELSE pc' = [pc EXCEPT ![p] = "recover"] /\ UNCHANGED handle
  /\ UNCHANGED <<file, holder, opt, closing, fd, win, botched, outdated>>

(* Not the magic number or not the schema's hash: the region is closed.    *)
DecodeFails(p) ==
  /\ Goto(p, "decode", "idle")
  /\ path # "ready"
  /\ Unmapped(p)
  /\ UNCHANGED <<file, holder, opt, closing, handle, botched>>

(* recoverSeqlocks loads the counter of every record, which all must be in *)
(* what p has mapped, and if it is odd stores it plus one: an even number, *)
(* whatever the counter is by then.                                        *)
RecoverLoad(p) ==
  /\ pc[p] = "recover" /\ RecordsMappedBy(p)
  /\ IF count > 0 /\ odd THEN pc' = [pc EXCEPT ![p] = "reset"] /\ UNCHANGED handle
     ELSE Proceed(p)
  /\ UNCHANGED <<file, holder, opt, closing, fd, win, header, botched, outdated>>
RecoverStore(p) ==
  /\ pc[p] = "reset"
  /\ odd' = FALSE
  /\ Proceed(p)
  /\ UNCHANGED <<path, fileCap, shrunk, count, capacity, holder, opt, closing, fd, win, header, botched, outdated>>

(* WithOneWriter and WithReadOnly: the error return closes nothing, and    *)
(* the region waits for its finalizer.                                     *)
RejectOptions(p) ==
  /\ ReadOnly(p) /\ Goto(p, "lock", "idle")
  /\ UNCHANGED <<file, holder, opt, closing, held>>

(* acquireLock: flock does not block.                                      *)
AcquireLock(p) ==
  /\ ~ReadOnly(p) /\ Goto(p, "lock", "idle")
  /\ holder = None /\ holder' = p
  /\ handle' = [handle EXCEPT ![p] = "region"]
  /\ UNCHANGED <<file, opt, closing, fd, win, header, botched, outdated>>

(* Somebody has the lock (ErrLocked), or the .lock file cannot be opened.  *)
AcquireLockFailsOpen(p) ==
  /\ ~ReadOnly(p) /\ Goto(p, "lock", "idle")
  /\ UNCHANGED <<file, holder, opt, closing, held>>
AcquireLockFails(p) ==
  /\ ~ReadOnly(p) /\ Goto(p, "lock", "idle")
  /\ Unmapped(p)
  /\ UNCHANGED <<file, holder, opt, closing, handle, botched>>

(* The garbage collector finds a region nobody refers to any more.         *)
Finalize(p) ==
  /\ pc[p] = "idle" /\ handle[p] = "none" /\ win[p] > 0
  /\ Unmapped(p)
  /\ UNCHANGED <<file, holder, call, handle, botched>>

(***************************************************************************)
(* Using the store.                                                        *)
(***************************************************************************)
\* where a process is in CreateStore and has not written the whole header
Creating == {"createMap", "identify", "encode"}

MayAppend(p) ==
  /\ IsOpen(p) /\ ~ReadOnly(p)
  /\ CreatedFirst => \A q \in Procs : pc[q] \notin Creating

Append(p) ==
  /\ MayAppend(p)
  /\ count < capacity /\ count < MaxCount
  /\ count' = count + 1
  /\ UNCHANGED <<path, fileCap, shrunk, capacity, odd, holder, call, held>>

(* grow doubles the capacity in the header; a capacity of 0 is what a      *)
(* CreateStore that died in EncodeHeader leaves.  Region.Grow compares     *)
(* with what this process has mapped and sets the length of the file.      *)
Doubled(n) == IF n = 0 THEN InitialCapacity ELSE n * 2

\* Truncate, and who then has a mapping of another length
Truncated(n) == fileCap' = n /\ shrunk' = (shrunk \/ n < fileCap)
Outdating(n) == [q \in Procs |-> outdated[q] \/ (win[q] > 0 /\ n # fileCap)]

\* p truncates the file to n records and maps it again
RemappedInPlace(p, n) ==
  Truncated(n) /\ outdated' = [Outdating(n) EXCEPT ![p] = FALSE] /\ UNCHANGED win
Remapped(p, n) ==
  /\ Truncated(n)
  /\ win' = [win EXCEPT ![p] = n]
  /\ outdated' = [Outdating(n) EXCEPT ![p] = FALSE]

MustGrow(p) == MayAppend(p) /\ count >= capacity /\ Doubled(capacity) <= MaxCapacity

AppendGrowing(p) ==
  LET newCap == Doubled(capacity) IN
  /\ MustGrow(p) /\ count < MaxCount
  /\ IF newCap > win[p] THEN Remapped(p, newCap)
     ELSE UNCHANGED <<fileCap, shrunk, win, outdated>>
  /\ capacity' = newCap
  /\ count' = count + 1
  /\ UNCHANGED <<path, odd, holder, call, fd, handle, header, botched>>

(* Grow fails to map the file it has truncated.                            *)
AppendFails(p) ==
  LET newCap == Doubled(capacity) IN
  /\ MustGrow(p) /\ newCap > win[p]
  /\ Truncated(newCap)
  /\ outdated' = Outdating(newCap)
  /\ UNCHANGED <<path, count, capacity, odd, holder, call, fd, win, handle, header, botched>>

(* A setter of record 0.  On a read-only store it faults, below.           *)
SeqBeginWrite(p) ==
  /\ IsOpen(p) /\ ~ReadOnly(p) /\ count > 0
  /\ Goto(p, "idle", "set")
  /\ odd' = ~odd
  /\ UNCHANGED <<path, fileCap, shrunk, count, capacity, holder, opt, closing, held>>
SeqEndWrite(p) ==
  /\ Goto(p, "set", "idle")
  /\ odd' = ~odd
  /\ UNCHANGED <<path, fileCap, shrunk, count, capacity, holder, opt, closing, held>>

CallSync(p) ==
  /\ IsOpen(p)
  /\ Goto(p, "idle", "flush")
  /\ closing' = [closing EXCEPT ![p] = FALSE]
  /\ UNCHANGED <<file, holder, opt, held>>

(***************************************************************************)
(* Close: flushHeader, msync, unmap, unlock.  Sync: the first two.         *)
(***************************************************************************)
CallCloseUnlocking(p) ==
  /\ IsOpen(p)
  /\ Goto(p, "idle", IF ReadOnly(p) THEN "unmap" ELSE "flush")
  /\ closing' = [closing EXCEPT ![p] = TRUE]
  /\ Unlocked(p)
  /\ UNCHANGED <<file, opt, held>>
CallClose(p) ==
  /\ IsOpen(p)
  /\ Goto(p, "idle", IF ReadOnly(p) THEN "unmap" ELSE "flush")
  /\ closing' = [closing EXCEPT ![p] = TRUE]
  /\ UNCHANGED <<file, holder, opt, held>>

(* s.header takes the live record count.                                   *)
FlushLoad(p) ==
  /\ Goto(p, "flush", "put")
  /\ header' = [header EXCEPT ![p].count = count]
  /\ UNCHANGED <<file, holder, opt, closing, fd, win, handle, botched, outdated>>

(* s.header is encoded into the mapping, which must be writable.           *)
FlushPut(p) ==
  /\ ~ReadOnly(p)
  /\ Goto(p, "put", "msync")
  /\ count' = header[p].count /\ capacity' = header[p].capacity
  /\ UNCHANGED <<path, fileCap, shrunk, odd, holder, opt, closing, held>>

Msync(p) ==
  /\ Goto(p, "msync", IF closing[p] THEN "unmap" ELSE "idle")
  /\ UNCHANGED <<file, holder, opt, closing, held>>

(* msync fails: Close goes on, but will leave s.region set.                *)
MsyncFails(p) ==
  /\ Goto(p, "msync", IF closing[p] THEN "unmap" ELSE "idle")
  /\ botched' = [botched EXCEPT ![p] = closing[p]]
  /\ UNCHANGED <<file, holder, opt, closing, fd, win, handle, header, outdated>>

Unmap(p) ==
  /\ Goto(p, "unmap", "unlock")
  /\ Unmapped(p)
  /\ handle' = [handle EXCEPT ![p] = IF botched[p] THEN @ ELSE "nil"]
  /\ UNCHANGED <<file, holder, opt, closing, botched>>

ReleaseLock(p) ==
  /\ Goto(p, "unlock", "idle")
  /\ Unlocked(p)
  /\ UNCHANGED <<file, opt, closing, held>>

(***************************************************************************)
(* Dying.                                                                  *)
(***************************************************************************)
\* the kernel closes what p had; the file keeps all p had stored
Dies(p) ==
  /\ pc' = [pc EXCEPT ![p] = "idle"]
  /\ opt' = [opt EXCEPT ![p] = {}]
  /\ closing' = [closing EXCEPT ![p] = FALSE]
  /\ handle' = [handle EXCEPT ![p] = "none"]
  /\ botched' = [botched EXCEPT ![p] = FALSE]
  /\ Unmapped(p)
  /\ Unlocked(p)
  /\ UNCHANGED <<path, fileCap, shrunk, count, capacity>>

\* any call: s.region is set, and nothing is mapped
RegionGone(p) == pc[p] = "idle" /\ handle[p] = "region" /\ win[p] = 0

\* an accessor of a live record, whose index is checked against the count
\* only, or the scan of recoverSeqlocks
PastMapping(p) == (IsOpen(p) \/ pc[p] = "recover") /\ ~RecordsMappedBy(p)

\* SeqBeginWrite panics; Write<Type>, given a live record, and flushHeader
\* store into pages mapped for reading
WritesReadOnly(p) == ReadOnly(p) /\ (IsOpen(p) \/ pc[p] = "put")

\* the next access of p is to memory it has not mapped, or not for writing
StrayAccess(p) == RegionGone(p) \/ PastMapping(p) \/ WritesReadOnly(p)

\* Len and Cap do not look at s.region: their pointers outlive the mapping
LenAfterClose(p) == pc[p] = "idle" /\ handle[p] = "nil"

(* Such an access is a fatal signal; recovery may have got past record 0.  *)
Fault(p) ==
  /\ StrayAccess(p) \/ LenAfterClose(p)
  /\ UNCHANGED odd \/ (pc[p] = "recover" /\ odd' = FALSE)
  /\ Dies(p)

Crash(p) == (pc[p] # "idle" \/ fd[p]) /\ Dies(p) /\ UNCHANGED odd
-----------------------------------------------------------------------------

OpenStep(p) ==
  \/ \E o \in Options : CallCreate(p, o) \/ CallOpen(p, o)
  \/ CreateMap(p) \/ OpenMap(p) \/ MapFails(p)
  \/ EncodeIdentity(p) \/ EncodeHeader(p) \/ DecodeHeader(p) \/ DecodeFails(p)
  \/ RecoverLoad(p) \/ RecoverStore(p)
  \/ RejectOptions(p) \/ AcquireLock(p) \/ AcquireLockFails(p)

UseStep(p) ==
  \/ Append(p) \/ AppendGrowing(p) \/ AppendFails(p)
  \/ SeqBeginWrite(p) \/ SeqEndWrite(p)
  \/ CallSync(p)

CloseStep(p) ==
  \/ CallClose(p)
  \/ FlushLoad(p) \/ FlushPut(p) \/ Msync(p) \/ MsyncFails(p)
  \/ Unmap(p) \/ ReleaseLock(p)

Next ==
  \E p \in Procs :
    OpenStep(p) \/ UseStep(p) \/ CloseStep(p) \/ Finalize(p) \/ Fault(p) \/ Crash(p)

Spec == Init /\ [][Next]_vars
-----------------------------------------------------------------------------

TypeOK ==
  /\ path \in {"absent", "blank", "ready"}
  /\ fileCap \in 0 .. MaxCapacity /\ capacity \in 0 .. MaxCapacity
  /\ count \in 0 .. MaxCount /\ odd \in BOOLEAN
  /\ holder \in Procs \cup {None}
  /\ pc \in [Procs -> {"idle", "createMap", "openMap", "identify", "encode", "decode",
                       "recover", "reset", "lock", "set", "flush", "put", "msync", "unmap", "unlock"}]
  /\ opt \in [Procs -> SUBSET {"one", "ro"}]
  /\ fd \in [Procs -> BOOLEAN]
  /\ win \in [Procs -> 0 .. MaxCapacity]
  /\ \A p \in Procs : win[p] > 0 => fd[p]
  /\ handle \in [Procs -> {"none", "region", "nil"}]
  /\ header \in [Procs -> [count : 0 .. MaxCount, capacity : 0 .. MaxCapacity]]
  /\ closing \in [Procs -> BOOLEAN] /\ botched \in [Procs -> BOOLEAN]
  /\ shrunk \in BOOLEAN /\ outdated \in [Procs -> BOOLEAN]

(* A process that is in no call and has no open store has no descriptor,   *)
(* no mapping and not the lock: every error path of CreateStore, OpenStore *)
(* and Close gives back all it took.  Left out: the one that does not, for *)
(* WithOneWriter with WithReadOnly.                                        *)
NothingLeftBehind ==
  \A p \in Procs : pc[p] = "idle" /\ ~IsOpen(p) =>
    /\ holder # p
    /\ opt[p] # {"one", "ro"} => win[p] = 0 /\ ~fd[p]

(* What kills a process, other than writing to a read-only store and Len() *)
(* or Cap() of a closed one, after any calls, failures and deaths of any   *)
(* of them: s.region is left set and unmapped only by a Close whose msync  *)
(* failed, and a live record is past the mapping or the end of the file,   *)
(* for an accessor or the recovery scan, only if the length of the file    *)
(* has changed since this process mapped it, a growth has cut the file, or *)
(* the header holds a capacity below its count.                            *)
FaultsExplained ==
  \A p \in Procs :
    /\ RegionGone(p) => botched[p]
    /\ PastMapping(p) => outdated[p] \/ shrunk \/ count > capacity

(* Nobody is given a store on a file that is not identified as one of this *)
(* schema, or without the room of the first records mapped, however        *)
(* OpenStore and CreateStore of two processes interleave and wherever the  *)
(* creator dies or fails.  The count and the capacity it is given may      *)
(* still be 0: it is then an empty store that grows at its first Append.   *)
OpenedIdentified ==
  \A p \in Procs : handle[p] = "region" \/ pc[p] \in {"recover", "reset", "lock"} =>
    path = "ready" /\ (win[p] > 0 => win[p] >= InitialCapacity)

(* While a process has the store open as the one writer, record 0's        *)
(* counter is odd exactly when that process is inside a setter: a process  *)
(* that is refused the store leaves it alone.                              *)
CounterIsTheWriters ==
  \A p \in Procs :
    IsOpen(p) \/ pc[p] = "set" => (holder = p => (odd <=> pc[p] = "set"))

(* Every record below Len() can be accessed by whoever has the store open: *)
(* it is in the file and in what the process has mapped, whoever else      *)
(* appends, grows the file and closes it.                                  *)
RecordsReachable ==
  \A p \in Procs : IsOpen(p) => RecordsMappedBy(p)

(* The processes that may append: those inside are the ones with the store *)
(* open under WithOneWriter, until Close has flushed the header.           *)
Inside ==
  {p \in Procs : OneWriter(p) /\ ~ReadOnly(p) /\ handle[p] = "region" /\ win[p] > 0}

One == INSTANCE OneWriterLog WITH inside <- Inside

(* With WithOneWriter everywhere, one process at a time has the store, and *)
(* no header flush, at Close or Sync, undoes another process's Append.     *)
ImplementsOneWriterLog == One!Spec
=============================================================================
