------------------------------ MODULE Durable -------------------------------
(***************************************************************************)
(* What Sync and Close promise about a power failure.  Next to the file of *)
(* Store, which is what the kernel has, there is what the disk has: pages  *)
(* get there when the kernel writes them back, in any order, and when      *)
(* msync succeeds; so does the length of the file.  A power failure leaves *)
(* what is on the disk.                                                    *)
(*                                                                         *)
(* A record is stored to once after the Append that returned it; a power   *)
(* failure that takes the count back makes it a record to append again,    *)
(* and one that loses part of it a record to store to again.  A page is    *)
(* written as a whole, and a record may lie on several.  A successful      *)
(* msync writes the pages of its range and the length of the file (Linux   *)
(* flushes the metadata needed to read the data back), with which the new  *)
(* file's name is on the disk too.                                         *)
(*                                                                         *)
(* Bounds are those of Store.                                              *)
(***************************************************************************)
EXTENDS Store

CONSTANT
  LengthFirst  \* the file system puts a new length on the disk before the
               \* pages that were stored to after it

ASSUME LengthFirstAssumption == LengthFirst \in BOOLEAN

VARIABLES
  done,      \* records a setter has returned for
  stored,    \* those of them that the file has
  valid,     \* the file has a header, and OpenStore accepts it
  disk,      \* [valid, count, capacity, fileSize, pieces]: what is on the
             \* disk; <<i, k>> \in pieces: what page k has of record i
  begun,     \* begun[p]: what was done when p called Sync
  promised   \* history: what was done before a Sync or Close that succeeded

durable == <<done, stored, valid, disk, begun, promised>>
allVars == <<vars, durable>>

\* the pages a file of n bytes has, and those of record i
Pages(n) == {k \in 0 .. n : k * PageSize < n}
PagesOf(i) == {k \in Pages(Bytes(i + 1)) : (k + 1) * PageSize > Bytes(i)}

\* the disk once the pages in ks are written
Written(ks) ==
  LET d == [disk EXCEPT !.pieces = @ \cup {x \in stored \X ks : x[2] \in PagesOf(x[1])}] IN
  IF 0 \in ks THEN [d EXCEPT !.valid = TRUE, !.count = count, !.capacity = capacity] ELSE d

\* the bytes msync is asked to write
SyncedBytes == size

\* msync has succeeded
Synced == disk' = [Written(Pages(SyncedBytes)) EXCEPT !.fileSize = fileSize]
-----------------------------------------------------------------------------

DurableInit ==
  /\ Init
  /\ done = {} /\ stored = {} /\ valid = TRUE /\ promised = {}
  /\ disk = [valid |-> FALSE, count |-> 0, capacity |-> 0, fileSize |-> 0, pieces |-> {}]
  /\ begun = [p \in Syncers |-> {}]

(* A setter stores to a record.  Past the mapping it would fault; past the *)
(* end of the file, in its last page, what it stores never gets there.     *)
Set(i) ==
  /\ open /\ i \in issued \ done /\ Bytes(i + 1) <= window
  /\ done' = done \cup {i}
  /\ stored' = stored \cup {j \in {i} : Bytes(j + 1) <= fileSize}
  /\ UNCHANGED <<vars, valid, disk, begun, promised>>

CallDurableSync(p) ==
  /\ CallSync(p)
  /\ begun' = [begun EXCEPT ![p] = done]
  /\ UNCHANGED <<done, stored, valid, disk, promised>>

MsyncScheduled(p) ==
  /\ Msync(p)
  /\ promised' = promised \cup begun[p]
  /\ UNCHANGED <<done, stored, valid, disk, begun>>
MsyncSucceeds(p) ==
  /\ Msync(p)
  /\ Synced
  /\ promised' = promised \cup begun[p]
  /\ UNCHANGED <<done, stored, valid, begun>>
MsyncFails(p) == Msync(p) /\ UNCHANGED durable

(* Close encodes the header and then calls msync.                          *)
CloseSucceeds ==
  /\ Close
  /\ disk' = [Written(Pages(SyncedBytes)) EXCEPT !.capacity = header.capacity, !.fileSize = fileSize]
  /\ promised' = promised \cup done
  /\ UNCHANGED <<done, stored, valid, begun>>
CloseFails == Close /\ UNCHANGED durable

(* The kernel writes a page, or the length of the file.                    *)
Writeback ==
  /\ \/ /\ LengthFirst => disk.fileSize = fileSize
        /\ \E k \in Pages(fileSize) : disk' = Written({k})
     \/ disk' = [disk EXCEPT !.fileSize = fileSize]
  /\ UNCHANGED <<vars, done, stored, valid, begun, promised>>

(* The machine stops; the file is what the disk has of it.                 *)
PowerFailure ==
  /\ valid
  /\ count' = disk.count /\ capacity' = disk.capacity /\ fileSize' = disk.fileSize
  /\ valid' = (disk.valid /\ disk.fileSize >= HeaderSize)
  /\ stored' = {i \in stored : /\ i < disk.count /\ Bytes(i + 1) <= disk.fileSize
                              /\ \A k \in PagesOf(i) : <<i, k>> \in disk.pieces}
  /\ done' = stored'
  /\ disk' = [disk EXCEPT !.pieces = {x \in @ : x[1] \in stored'}]
  /\ issued' = {i \in issued : i < disk.count}
  /\ Released
  /\ appendMu' = None
  /\ pc' = [p \in Procs |-> "idle"]
  /\ idx' = [p \in Procs |-> 0]
  /\ newCap' = [p \in Procs |-> 0]
  /\ UNCHANGED <<opens, begun, promised>>

(* OpenStore of a file that has a header; recoverSeqlocks loads the        *)
(* counter of every record, and faults if one lies past the mapping.       *)
OpenRecovering ==
  /\ valid /\ (count = 0 \/ Bytes(count - 1) < PageAlign(fileSize))
  /\ OpenStore /\ UNCHANGED durable

DurableNext ==
  \/ /\ \/ \E p \in Appenders : CallAppend(p) \/ AppendStep(p)
        \/ \E p \in Syncers : PutRecordCount(p) \/ PutCapacity(p)
        \/ Crash
     /\ UNCHANGED durable
  \/ OpenRecovering
  \/ \E i \in issued : Set(i)
  \/ \E p \in Syncers : CallDurableSync(p) \/ MsyncSucceeds(p) \/ MsyncFails(p)
  \/ CloseSucceeds \/ CloseFails
  \/ Writeback
  \/ PowerFailure

DurableSpec == DurableInit /\ [][DurableNext]_allVars
-----------------------------------------------------------------------------

DurableTypeOK ==
  /\ TypeOK
  /\ done \subseteq Nat /\ promised \subseteq Nat
  /\ stored \subseteq done
  /\ \A i \in stored : Bytes(i + 1) <= fileSize
  /\ valid \in BOOLEAN
  /\ disk \in [valid : BOOLEAN, count : Nat, capacity : Nat, fileSize : Nat,
               pieces : SUBSET (stored \X Nat)]
  /\ \A x \in disk.pieces : x[2] \in PagesOf(x[1])
  /\ begun \in [Syncers -> SUBSET Nat]

(* What was stored before a Sync or a Close that returned no error is      *)
(* there after a power failure: the file opens, the record is below Len()  *)
(* and within the file, and all of it is as stored.                        *)
SyncedSurvives ==
  \A i \in promised : valid /\ i < count /\ i \in stored /\ Bytes(i + 1) <= fileSize
=============================================================================
