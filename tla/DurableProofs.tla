--------------------------- MODULE DurableProofs ----------------------------
(***************************************************************************)
(* Proofs about Durable, for any sizes, goroutines, failures and power     *)
(* failures: what Sync and Close promise, on a file system that writes a   *)
(* new length before the pages stored to after it, to callers that do not  *)
(* Sync while they Append nor flush an outdated capacity.                  *)
(*                                                                         *)
(* While the file is valid, the invariants of Store hold of it, power      *)
(* failures included; what is done is in the file, and what is promised on *)
(* the disk.                                                               *)
(***************************************************************************)
EXTENDS Durable, StoreProofs

\* Growth that has failed can only have been to what the next one asks for,
\* so that no growth ever makes the file shorter.
Grown ==
  /\ open /\ size # fileSize =>
       /\ size < Bytes(Doubled(capacity))
       /\ fileSize = PageAlign(Bytes(Doubled(capacity)))
  /\ \A p \in Appenders :
       /\ pc[p] \in {"region", "mmap", "madvise", "publish"} => newCap[p] = Doubled(capacity)
       /\ pc[p] = "publish" => size = fileSize

\* What setters have returned for is in the file, and what is promised, or
\* would be by the Sync under way, is done.
Kept ==
  /\ done \subseteq issued
  /\ stored = done
  /\ promised \subseteq done
  /\ \A p \in Syncers : pc[p] # "idle" => begun[p] \subseteq done

\* The disk is behind the file, but never promises more than it has itself;
\* it has all of what is promised.
OnDisk ==
  /\ disk.fileSize <= fileSize
  /\ disk.valid => /\ disk.count <= disk.capacity
                   /\ Bytes(disk.capacity) <= disk.fileSize
                   /\ PageAlign(disk.fileSize) <= MaxVA
  /\ \A i \in promised :
       /\ disk.valid /\ i < disk.count
       /\ \A k \in PagesOf(i) : <<i, k>> \in disk.pieces

Sound == IInv /\ Counting /\ Grown /\ Kept /\ OnDisk
Lost == ~open /\ Idle /\ promised = {}

DInv ==
  /\ DurableTypeOK
  /\ valid => Sound
  /\ ~valid => Lost
-----------------------------------------------------------------------------

(***************************************************************************)
(* The steps of Store.                                                     *)
(***************************************************************************)
LEMMA SizesFacts ==
  ASSUME TypeOK
  PROVE  /\ Doubled(capacity) \in Nat /\ Bytes(capacity) \in Nat \ {0}
         /\ Bytes(Doubled(capacity)) \in Nat \ {0}
         /\ Bytes(Doubled(capacity)) <= PageAlign(Bytes(Doubled(capacity)))
         /\ PageAlign(Bytes(Doubled(capacity))) \in Nat
         /\ \A p \in Appenders : /\ newCap[p] \in Nat /\ Bytes(newCap[p]) \in Nat \ {0}
                                /\ Target(p) \in Nat /\ Bytes(newCap[p]) <= Target(p)
<1>1. Doubled(capacity) \in Nat /\ Bytes(capacity) \in Nat \ {0}
  BY DoubledFacts, BytesType DEF TypeOK
<1>2. Bytes(Doubled(capacity)) \in Nat \ {0}
  BY <1>1, BytesType
<1>3. /\ Bytes(Doubled(capacity)) <= PageAlign(Bytes(Doubled(capacity)))
      /\ PageAlign(Bytes(Doubled(capacity))) \in Nat
  BY <1>2, PageAlignFacts
<1>4. ASSUME NEW p \in Appenders
      PROVE  /\ newCap[p] \in Nat /\ Bytes(newCap[p]) \in Nat \ {0}
             /\ Target(p) \in Nat /\ Bytes(newCap[p]) <= Target(p)
  <2>1. newCap[p] \in Nat
    BY DEF TypeOK, Procs
  <2>2. Bytes(newCap[p]) \in Nat \ {0}
    BY <2>1, BytesType
  <2> QED BY <2>1, <2>2, PageAlignFacts DEF Target
<1> QED BY <1>1, <1>2, <1>3, <1>4

(* What a step of an open store does to the file: it never gets shorter,   *)
(* and no index is taken back.                                             *)
Onward == fileSize <= fileSize' /\ issued \subseteq issued'

LEMMA StepGrown ==
  ASSUME SyncsAlone, ~FlushesGrown, IInv, Counting, Grown, Next
  PROVE  Grown' /\ Onward
<1> USE SizesAssumption, RolesAssumption
        DEF IInv, Procs, file, process, locals, Onward
<1>a. /\ fileSize \in Nat /\ size \in Nat /\ capacity \in Nat
      /\ pc \in [Procs -> {"idle", "lock", "check", "grow", "region", "mmap", "madvise",
                           "publish", "store", "putCount", "putCapacity", "msync"}]
      /\ newCap \in [Procs -> Nat]
  BY DEF TypeOK
<1>b. open => size <= fileSize
  BY DEF Mapping
<1>c. \A p \in Appenders : Target(p) = PageAlign(Bytes(newCap[p]))
  BY DEF Target
<1>d. /\ Doubled(capacity) \in Nat /\ Bytes(capacity) \in Nat \ {0}
      /\ Bytes(Doubled(capacity)) \in Nat \ {0}
      /\ Bytes(Doubled(capacity)) <= PageAlign(Bytes(Doubled(capacity)))
      /\ PageAlign(Bytes(Doubled(capacity))) \in Nat
  BY SizesFacts
<1>e. \A p \in Appenders : pc[p] \in Critical => appendMu = p
  BY DEF Locking
<1>g. \A p \in Appenders : pc[p] # "idle" => open
  BY DEF Locking, Idle
<1>h. \A p \in Appenders : pc[p] \in {"mmap", "madvise"} => fileSize = Target(p)
  BY DEF Mapping
<1>f. \A p \in Syncers : pc[p] \in {"idle", "putCount", "putCapacity", "msync"}
  BY DEF Locking
<1>1. ASSUME NEW p \in Appenders, CallAppend(p) PROVE Grown' /\ Onward
  BY <1>1, <1>a, <1>b, <1>c, <1>d, <1>e, <1>g, <1>h DEF CallAppend, Goto, Unlocked, Grown, Critical
<1>2. ASSUME NEW p \in Appenders, LockAppend(p) PROVE Grown' /\ Onward
  BY <1>2, <1>a, <1>b, <1>c, <1>d, <1>e, <1>g, <1>h DEF LockAppend, Goto, Unlocked, Grown, Critical
<1>3. ASSUME NEW p \in Appenders, HasRoom(p) PROVE Grown' /\ Onward
  BY <1>3, <1>a, <1>b, <1>c, <1>d, <1>e, <1>g, <1>h DEF HasRoom, Goto, Unlocked, Grown, Critical
<1>4. ASSUME NEW p \in Appenders, CallGrow(p) PROVE Grown' /\ Onward
  BY <1>4, <1>a, <1>b, <1>c, <1>d, <1>e, <1>g, <1>h DEF CallGrow, Goto, Unlocked, Grown, Critical
<1>5. ASSUME NEW p \in Appenders, Grow(p) PROVE Grown' /\ Onward
  BY <1>5, <1>a, <1>b, <1>c, <1>d, <1>e, <1>g, <1>h DEF Grow, Goto, Unlocked, Grown, Critical
<1>6. ASSUME NEW p \in Appenders, RegionLargeEnough(p) PROVE Grown' /\ Onward
  BY <1>6, <1>a, <1>b, <1>c, <1>d, <1>e, <1>g, <1>h DEF RegionLargeEnough, Goto, Unlocked, Grown, Critical
<1>7. ASSUME NEW p \in Appenders, Truncate(p) PROVE Grown' /\ Onward
  BY <1>7, <1>a, <1>b, <1>c, <1>d, <1>e, <1>g, <1>h DEF Truncate, Goto, Unlocked, Grown, Critical
<1>8. ASSUME NEW p \in Appenders, Mmap(p) PROVE Grown' /\ Onward
  BY <1>8, <1>a, <1>b, <1>c, <1>d, <1>e, <1>g, <1>h DEF Mmap, Goto, Unlocked, Grown, Critical
<1>9. ASSUME NEW p \in Appenders, Madvise(p) PROVE Grown' /\ Onward
  BY <1>9, <1>a, <1>b, <1>c, <1>d, <1>e, <1>g, <1>h DEF Madvise, Goto, Unlocked, Grown, Critical
<1>10. ASSUME NEW p \in Appenders, GrowFails(p) PROVE Grown' /\ Onward
  BY <1>10, <1>a, <1>b, <1>c, <1>d, <1>e, <1>g, <1>h DEF GrowFails, Goto, Unlocked, Grown, Critical
<1>11. ASSUME NEW p \in Appenders, PublishCapacity(p) PROVE Grown' /\ Onward
  BY <1>11, <1>a, <1>b, <1>c, <1>d, <1>e, <1>g, <1>h DEF PublishCapacity, Goto, Unlocked, Grown, Critical
<1>12. ASSUME NEW p \in Appenders, StoreCount(p) PROVE Grown' /\ Onward
  BY <1>12, <1>a, <1>b, <1>c, <1>d, <1>e, <1>g, <1>h DEF StoreCount, Goto, Unlocked, Grown, Critical
<1>13. ASSUME NEW p \in Syncers, CallSync(p) PROVE Grown' /\ Onward
  BY <1>13, <1>a, <1>f DEF CallSync, Goto, Grown, Counting, Numbering, Fitting, Syncing
<1>14. ASSUME NEW p \in Syncers, PutRecordCount(p) PROVE Grown' /\ Onward
  BY <1>14, <1>a, <1>f DEF PutRecordCount, Goto, Grown, Counting, Numbering, Fitting, Syncing
<1>15. ASSUME NEW p \in Syncers, PutCapacity(p) PROVE Grown' /\ Onward
  BY <1>15, <1>a, <1>f DEF PutCapacity, Goto, Grown, Counting, Numbering, Fitting, Syncing
<1>16. ASSUME NEW p \in Syncers, Msync(p) PROVE Grown' /\ Onward
  BY <1>16, <1>a, <1>f DEF Msync, Goto, Grown, Counting, Numbering, Fitting, Syncing
<1>17. ASSUME Close PROVE Grown' /\ Onward
  BY <1>17, <1>a DEF Close, Released, MapFile, HeaderStale, Idle, Locking, Grown
<1>18. ASSUME Crash PROVE Grown' /\ Onward
  BY <1>18, <1>a DEF Crash, Released, MapFile, HeaderStale, Idle, Locking, Grown
<1>19. ASSUME OpenStore PROVE Grown' /\ Onward
  BY <1>19, <1>a DEF OpenStore, Released, MapFile, HeaderStale, Idle, Locking, Grown
<1> QED
  BY <1>1, <1>2, <1>3, <1>4, <1>5, <1>6, <1>7, <1>8, <1>9, <1>10, <1>11, <1>12, <1>13, <1>14, <1>15, <1>16, <1>17, <1>18, <1>19 DEF Next, AppendStep, SyncStep
-----------------------------------------------------------------------------

(***************************************************************************)
(* Pages and records.                                                      *)
(***************************************************************************)
LEMMA PagesFacts ==
  ASSUME NEW i \in Nat, NEW n \in Nat, Bytes(i + 1) <= n
  PROVE  PagesOf(i) \subseteq Pages(n) /\ 0 \in Pages(n)
<1>1. Bytes(i + 1) \in Nat \ {0}
  BY BytesType
<1>2. PageSize \in Nat \ {0}
  BY SizesAssumption
<1>3. PagesOf(i) \subseteq Pages(Bytes(i + 1))
  BY DEF PagesOf
<1>4. \A k \in 0 .. Bytes(i + 1) : k \in 0 .. n
  BY <1>1
<1>5. ASSUME NEW k \in 0 .. n, k * PageSize < Bytes(i + 1)
      PROVE  k * PageSize < n
  BY <1>1, <1>2, <1>5
<1>6. Pages(Bytes(i + 1)) \subseteq Pages(n)
  BY <1>4, <1>5 DEF Pages
<1>7. 0 \in Pages(n)
  BY <1>1, <1>2 DEF Pages
<1> QED BY <1>3, <1>6, <1>7

LEMMA PagesNat == ASSUME NEW n \in Nat PROVE Pages(n) \subseteq Nat
BY DEF Pages

\* Every record below the capacity, so every one that is done, is in the file
\* and in what msync is asked to write.
LEMMA InFile ==
  ASSUME IInv, Counting, Kept, NEW i \in done
  PROVE  /\ i \in Nat /\ i < count /\ Bytes(i + 1) \in Nat /\ Bytes(i + 1) <= fileSize
         /\ open => Bytes(i + 1) <= size
<1>1. i \in Nat /\ i < count /\ count <= capacity /\ count \in Nat /\ capacity \in Nat
  BY DEF IInv, TypeOK, Counting, Numbering, Fitting, Kept
<1>2. i + 1 \in Nat /\ i + 1 <= capacity
  BY <1>1
<1>3. Bytes(i + 1) \in Nat /\ Bytes(i + 1) <= Bytes(capacity)
  BY <1>1, <1>2, BytesFacts
<1>4. Bytes(capacity) \in Nat /\ fileSize \in Nat /\ size \in Nat
  BY <1>1, BytesType DEF IInv, TypeOK
<1>5. Bytes(capacity) <= fileSize /\ (open => Bytes(capacity) <= size)
  BY DEF IInv, Mapping
<1> QED BY <1>1, <1>3, <1>4, <1>5

DiskType == [valid : BOOLEAN, count : Nat, capacity : Nat, fileSize : Nat,
             pieces : SUBSET (Nat \X Nat)]

\* d is the disk with the pages in ks written, and perhaps a new length
Updated(d, ks) ==
  /\ d \in DiskType
  /\ d.pieces = disk.pieces \cup {x \in stored \X ks : x[2] \in PagesOf(x[1])}
  /\ 0 \in ks => d.valid /\ d.count = count /\ d.capacity = capacity
  /\ 0 \notin ks => d.valid = disk.valid /\ d.count = disk.count /\ d.capacity = disk.capacity

LEMMA TypesFacts ==
  ASSUME DurableTypeOK
  PROVE  /\ disk \in DiskType /\ stored \subseteq Nat /\ count \in Nat /\ capacity \in Nat
         /\ fileSize \in Nat /\ size \in Nat /\ done \subseteq Nat /\ stored \subseteq done
         /\ disk.pieces \subseteq stored \X Nat
         /\ \A x \in disk.pieces : x[2] \in PagesOf(x[1])
<1>1. /\ stored \subseteq Nat /\ count \in Nat /\ capacity \in Nat
      /\ fileSize \in Nat /\ size \in Nat /\ done \subseteq Nat /\ stored \subseteq done
  BY DEF DurableTypeOK, TypeOK
<1>2. stored \X Nat \subseteq Nat \X Nat
  BY <1>1
<1>3. disk \in [valid : BOOLEAN, count : Nat, capacity : Nat, fileSize : Nat,
                pieces : SUBSET (stored \X Nat)]
  BY DEF DurableTypeOK
<1>4. disk \in DiskType /\ disk.pieces \subseteq stored \X Nat
  BY <1>2, <1>3 DEF DiskType
<1>5. \A x \in disk.pieces : x[2] \in PagesOf(x[1])
  BY DEF DurableTypeOK
<1> QED BY <1>1, <1>4, <1>5

LEMMA WrittenUpdates ==
  ASSUME DurableTypeOK, NEW ks \in SUBSET Nat
  PROVE  Updated(Written(ks), ks) /\ Written(ks).fileSize = disk.fileSize
<1> DEFINE new == {x \in stored \X ks : x[2] \in PagesOf(x[1])}
           d == [disk EXCEPT !.pieces = @ \cup new]
<1>1. disk \in DiskType /\ stored \subseteq Nat /\ count \in Nat /\ capacity \in Nat
  BY TypesFacts
<1>2. new \subseteq Nat \X Nat
  BY <1>1
<1>3. Written(ks) = IF 0 \in ks THEN [d EXCEPT !.valid = TRUE, !.count = count, !.capacity = capacity]
                    ELSE d
  BY DEF Written
<1> HIDE DEF new
<1>4. /\ d \in DiskType /\ d.pieces = disk.pieces \cup new
      /\ d.valid = disk.valid /\ d.count = disk.count /\ d.capacity = disk.capacity
      /\ d.fileSize = disk.fileSize
  BY <1>1, <1>2 DEF DiskType
<1> HIDE DEF d
<1>5. CASE 0 \in ks
  <2> DEFINE w == [d EXCEPT !.valid = TRUE, !.count = count, !.capacity = capacity]
  <2>1. /\ w \in DiskType /\ w.pieces = d.pieces /\ w.valid /\ w.count = count
        /\ w.capacity = capacity /\ w.fileSize = d.fileSize
    BY <1>1, <1>4 DEF DiskType
  <2>2. Written(ks) = w
    BY <1>3, <1>5
  <2> HIDE DEF w
  <2> QED BY <1>4, <1>5, <2>1, <2>2 DEF Updated, new
<1>6. CASE 0 \notin ks
  BY <1>3, <1>4, <1>6 DEF Updated, new
<1> QED BY <1>5, <1>6

LEMMA LengthUpdates ==
  ASSUME NEW d, NEW ks, Updated(d, ks), NEW n \in Nat
  PROVE  /\ Updated([d EXCEPT !.fileSize = n], ks)
         /\ [d EXCEPT !.fileSize = n].fileSize = n
<1> DEFINE w == [d EXCEPT !.fileSize = n]
<1>1. /\ w \in DiskType /\ w.pieces = d.pieces /\ w.valid = d.valid /\ w.count = d.count
      /\ w.capacity = d.capacity /\ w.fileSize = n
  BY DEF DiskType, Updated
<1> HIDE DEF w
<1>2. Updated(w, ks)
  BY <1>1 DEF Updated
<1> QED BY <1>1, <1>2 DEF w

\* What was promised stays on the disk when pages and the length are written.
LEMMA UpdateKeeps ==
  ASSUME DurableTypeOK, Sound, NEW ks \in SUBSET Nat, Updated(disk', ks),
         disk'.fileSize = fileSize,
         UNCHANGED <<count, capacity, fileSize>>
  PROVE  /\ disk'.fileSize <= fileSize'
         /\ disk'.valid => /\ disk'.count <= disk'.capacity
                           /\ Bytes(disk'.capacity) <= disk'.fileSize
                           /\ PageAlign(disk'.fileSize) <= MaxVA
         /\ \A i \in promised :
              /\ disk'.valid /\ i < disk'.count
              /\ \A k \in PagesOf(i) : <<i, k>> \in disk'.pieces
<1>1. /\ count <= capacity /\ Bytes(capacity) <= fileSize /\ PageAlign(fileSize) <= MaxVA
      /\ fileSize \in Nat
  BY TypesFacts DEF Sound, IInv, Counting, Numbering, Fitting, Mapping
<1>2. disk'.fileSize <= fileSize'
  BY <1>1
<1>3. ASSUME disk'.valid
      PROVE  disk'.count <= disk'.capacity /\ Bytes(disk'.capacity) <= disk'.fileSize
  <2>1. CASE 0 \in ks
    BY <1>1, <2>1 DEF Updated
  <2>2. CASE 0 \notin ks
    <3>1. disk.valid /\ disk'.count = disk.count /\ disk'.capacity = disk.capacity
      BY <1>3, <2>2 DEF Updated
    <3>2. Bytes(disk.capacity) \in Nat
      BY TypesFacts, BytesType DEF DiskType
    <3>3. disk.fileSize \in Nat
      BY TypesFacts DEF DiskType
    <3> QED BY <1>1, <3>1, <3>2, <3>3 DEF Sound, OnDisk
  <2> QED BY <2>1, <2>2
<1>4. ASSUME NEW i \in promised
      PROVE  disk'.valid /\ i < disk'.count
  <2>1. i < count
    BY InFile DEF Sound, Kept
  <2>2. disk.valid /\ i < disk.count
    BY DEF Sound, OnDisk
  <2> QED BY <2>1, <2>2 DEF Updated
<1>5. ASSUME NEW i \in promised, NEW k \in PagesOf(i)
      PROVE  <<i, k>> \in disk'.pieces
  BY DEF Sound, OnDisk, Updated
<1> QED BY <1>1, <1>2, <1>3, <1>4, <1>5

\* What msync has written of a record that is done is all of it.
LEMMA SyncReaches ==
  ASSUME DurableTypeOK, Sound, open, Updated(disk', Pages(SyncedBytes)), NEW i \in done
  PROVE  /\ disk'.valid /\ disk'.count = count /\ i < count
         /\ \A k \in PagesOf(i) : <<i, k>> \in disk'.pieces
<1>1. i \in Nat /\ i < count /\ Bytes(i + 1) <= size /\ i \in stored
  BY InFile DEF Sound, Kept
<1>2. size \in Nat
  BY TypesFacts
<1>3. PagesOf(i) \subseteq Pages(size) /\ 0 \in Pages(size)
  BY <1>1, <1>2, PagesFacts
<1>4. disk'.valid /\ disk'.count = count
  BY <1>3 DEF Updated, SyncedBytes
<1>5. ASSUME NEW k \in PagesOf(i)
      PROVE  <<i, k>> \in disk'.pieces
  BY <1>1, <1>3 DEF Updated, SyncedBytes
<1> QED BY <1>1, <1>4, <1>5

\* Types of what the steps of the disk leave.
LEMMA UpdateTyped ==
  ASSUME DurableTypeOK, NEW ks \in SUBSET Nat, Updated(disk', ks),
         TypeOK', UNCHANGED <<fileSize, done, stored, valid, begun>>, promised' \subseteq Nat
  PROVE  DurableTypeOK'
<1>1. /\ disk.pieces \subseteq stored \X Nat
      /\ \A x \in disk.pieces : x[2] \in PagesOf(x[1])
  BY TypesFacts
<1>2. /\ disk'.pieces \subseteq stored \X Nat
      /\ \A x \in disk'.pieces : x[2] \in PagesOf(x[1])
  BY <1>1 DEF Updated
<1>3. disk' \in [valid : BOOLEAN, count : Nat, capacity : Nat, fileSize : Nat,
                 pieces : SUBSET (stored \X Nat)]
  BY <1>2 DEF Updated, DiskType
<1>4. /\ done \subseteq Nat /\ stored \subseteq done
      /\ \A i \in stored : Bytes(i + 1) <= fileSize
      /\ valid \in BOOLEAN /\ begun \in [Syncers -> SUBSET Nat]
  BY DEF DurableTypeOK
<1> QED BY <1>2, <1>3, <1>4 DEF DurableTypeOK
-----------------------------------------------------------------------------

(***************************************************************************)
(* DInv is inductive: a lemma for each kind of step.                       *)
(***************************************************************************)
LEMMA StoreSteps ==
  ASSUME SyncsAlone, ~FlushesGrown, Sound, Next
  PROVE  IInv' /\ Counting' /\ Grown' /\ fileSize <= fileSize' /\ issued \subseteq issued'
BY StepIInv, StepCounting, StepGrown DEF Sound, Onward

(* A step of Store that leaves the disk alone.                             *)
LEMMA FileSteps ==
  ASSUME SyncsAlone, ~FlushesGrown, DurableTypeOK, Sound, Next, UNCHANGED durable,
         \A p \in Syncers : pc'[p] # "idle" => pc[p] # "idle"
  PROVE  Sound' /\ DurableTypeOK'
<1>1. IInv' /\ Counting' /\ Grown' /\ fileSize <= fileSize' /\ issued \subseteq issued'
  BY StoreSteps
<1>2. fileSize \in Nat /\ fileSize' \in Nat
  BY <1>1, TypesFacts DEF IInv, TypeOK
<1>3. Kept'
  BY <1>1 DEF Sound, Kept, durable
<1>4. disk \in DiskType /\ stored \subseteq Nat
  BY TypesFacts
<1>5. disk.fileSize \in Nat /\ disk.fileSize <= fileSize
  BY <1>4 DEF DiskType, Sound, OnDisk
<1>6. disk'.fileSize <= fileSize'
  BY <1>1, <1>2, <1>5 DEF durable
<1>7. OnDisk'
  BY <1>6 DEF Sound, OnDisk, durable
<1>8. \A i \in stored : Bytes(i + 1) \in Nat /\ Bytes(i + 1) <= fileSize
  BY <1>4, BytesType DEF DurableTypeOK
<1>9. \A i \in stored' : Bytes(i + 1) <= fileSize'
  BY <1>1, <1>2, <1>8 DEF durable
<1>10. DurableTypeOK'
  BY <1>1, <1>9 DEF DurableTypeOK, IInv, durable
<1> QED BY <1>1, <1>3, <1>7, <1>10 DEF Sound

LEMMA SetStep ==
  ASSUME DurableTypeOK, Sound, NEW i \in issued, Set(i)
  PROVE  Sound' /\ DurableTypeOK'
<1>1. i \in Nat /\ i < count /\ count <= capacity /\ count \in Nat /\ capacity \in Nat
  BY DEF Sound, IInv, TypeOK, Counting, Numbering, Fitting
<1>2. i + 1 \in Nat /\ i + 1 <= capacity
  BY <1>1
<1>3. Bytes(i + 1) \in Nat /\ Bytes(i + 1) <= Bytes(capacity)
  BY <1>1, <1>2, BytesFacts
<1>4. Bytes(capacity) \in Nat /\ fileSize \in Nat /\ Bytes(capacity) <= fileSize
  BY <1>1, BytesType DEF Sound, IInv, TypeOK, Mapping
<1>5. Bytes(i + 1) <= fileSize
  BY <1>3, <1>4
<1>6. done' = done \cup {i} /\ stored' = stored \cup {i}
  BY <1>5 DEF Set
<1>7. UNCHANGED <<vars, valid, disk, begun, promised>>
  BY DEF Set
<1>8. /\ UNCHANGED <<count, capacity, fileSize, open, opens, header, window, size, appendMu,
                     pc, idx, newCap, issued, valid, disk, begun, promised>>
  BY <1>7 DEF vars, file, process, locals
<1>9. IInv' /\ Counting' /\ Grown'
  <2>1. IInv'
    BY <1>7, StepIInv DEF Sound
  <2>2. Counting'
    BY <1>8 DEF Sound, Counting, Numbering, Fitting, Appending, Syncing
  <2>3. Grown'
    BY <1>8 DEF Sound, Grown
  <2> QED BY <2>1, <2>2, <2>3
<1>10. Kept'
  BY <1>6, <1>8 DEF Sound, Kept
<1>11. OnDisk'
  BY <1>8 DEF Sound, OnDisk
<1>12. DurableTypeOK'
  <2>1. TypeOK'
    BY <1>9 DEF IInv
  <2>2. done' \subseteq Nat /\ stored' \subseteq done' /\ promised' \subseteq Nat
    BY <1>1, <1>6, <1>8 DEF DurableTypeOK
  <2>3. \A j \in stored' : Bytes(j + 1) <= fileSize'
    BY <1>5, <1>6, <1>8 DEF DurableTypeOK
  <2>4. stored \X Nat \subseteq stored' \X Nat
    BY <1>6
  <2>5. /\ disk' \in [valid : BOOLEAN, count : Nat, capacity : Nat, fileSize : Nat,
                      pieces : SUBSET (stored' \X Nat)]
        /\ \A x \in disk'.pieces : x[2] \in PagesOf(x[1])
    BY <2>4, <1>8 DEF DurableTypeOK
  <2> QED BY <2>1, <2>2, <2>3, <2>5, <1>8 DEF DurableTypeOK
<1> QED BY <1>9, <1>10, <1>11, <1>12 DEF Sound

LEMMA CallSyncStep ==
  ASSUME SyncsAlone, ~FlushesGrown, DurableTypeOK, Sound, NEW p \in Syncers, CallDurableSync(p)
  PROVE  Sound' /\ DurableTypeOK'
<1>1. Next
  BY DEF CallDurableSync, Next
<1>2. IInv' /\ Counting' /\ Grown'
  BY <1>1, StoreSteps
<1>3. UNCHANGED <<count, capacity, fileSize, issued, done, stored, valid, disk, promised>>
  BY DEF CallDurableSync, CallSync, file
<1>4. begun' = [begun EXCEPT ![p] = done] /\ begun \in [Syncers -> SUBSET Nat]
  BY DEF CallDurableSync, DurableTypeOK
<1>5. pc \in [Procs -> {"idle", "lock", "check", "grow", "region", "mmap", "madvise",
                        "publish", "store", "putCount", "putCapacity", "msync"}]
  BY DEF DurableTypeOK, TypeOK
<1>6. \A q \in Syncers \ {p} : pc'[q] = pc[q]
  BY <1>5 DEF CallDurableSync, CallSync, Goto, Procs
<1>7. Kept'
  BY <1>3, <1>4, <1>6 DEF Sound, Kept
<1>8. OnDisk'
  BY <1>3 DEF Sound, OnDisk
<1>9. DurableTypeOK'
  <2>1. begun' \in [Syncers -> SUBSET Nat]
    BY <1>4 DEF DurableTypeOK
  <2> QED BY <1>2, <1>3, <2>1 DEF IInv, DurableTypeOK
<1> QED BY <1>2, <1>7, <1>8, <1>9 DEF Sound

(* msync succeeds, in Sync or in Close: what is done is promised.          *)
LEMMA SyncedSteps ==
  ASSUME SyncsAlone, ~FlushesGrown, DurableTypeOK, Sound, Next,
         UNCHANGED <<count, capacity, fileSize, issued, done, stored, valid, begun>>,
         open, Updated(disk', Pages(SyncedBytes)), disk'.fileSize = fileSize,
         NEW new \in SUBSET done, promised' = promised \cup new,
         \A p \in Syncers : pc'[p] # "idle" => pc[p] # "idle"
  PROVE  Sound' /\ DurableTypeOK'
<1>1. IInv' /\ Counting' /\ Grown'
  BY StoreSteps
<1>2. Pages(SyncedBytes) \in SUBSET Nat
  BY TypesFacts, PagesNat DEF SyncedBytes
<1>3. Kept'
  BY DEF Sound, Kept
<1>4. OnDisk'
  <2>1. /\ disk'.fileSize <= fileSize'
        /\ disk'.valid => /\ disk'.count <= disk'.capacity
                          /\ Bytes(disk'.capacity) <= disk'.fileSize
                          /\ PageAlign(disk'.fileSize) <= MaxVA
        /\ \A i \in promised :
             /\ disk'.valid /\ i < disk'.count
             /\ \A k \in PagesOf(i) : <<i, k>> \in disk'.pieces
    BY <1>2, UpdateKeeps
  <2>2. \A i \in done :
          /\ disk'.valid /\ i < disk'.count
          /\ \A k \in PagesOf(i) : <<i, k>> \in disk'.pieces
    BY SyncReaches
  <2> QED BY <2>1, <2>2 DEF OnDisk
<1>5. DurableTypeOK'
  <2>1. promised' \subseteq Nat /\ TypeOK'
    BY <1>1, TypesFacts DEF DurableTypeOK, IInv
  <2> QED BY <1>2, <2>1, UpdateTyped
<1> QED BY <1>1, <1>3, <1>4, <1>5 DEF Sound

LEMMA MsyncStep ==
  ASSUME SyncsAlone, ~FlushesGrown, DurableTypeOK, Sound, NEW p \in Syncers, MsyncSucceeds(p)
  PROVE  Sound' /\ DurableTypeOK'
<1>1. Msync(p) /\ Synced /\ promised' = promised \cup begun[p]
      /\ UNCHANGED <<done, stored, valid, begun>>
  BY DEF MsyncSucceeds
<1>2. Next
  BY <1>1 DEF Next, SyncStep
<1>3. pc[p] = "msync" /\ pc' = [pc EXCEPT ![p] = "idle"]
      /\ UNCHANGED <<count, capacity, fileSize, issued>>
  BY <1>1 DEF Msync, Goto, file
<1>4. open
  BY <1>3 DEF Sound, IInv, Locking, Idle, Procs
<1>5. begun[p] \in SUBSET done
  BY <1>3 DEF Sound, Kept
<1>6. pc \in [Procs -> {"idle", "lock", "check", "grow", "region", "mmap", "madvise",
                        "publish", "store", "putCount", "putCapacity", "msync"}]
  BY DEF DurableTypeOK, TypeOK
<1>7. \A q \in Syncers : pc'[q] # "idle" => pc[q] # "idle"
  BY <1>3, <1>6 DEF Procs
<1>8. Pages(SyncedBytes) \in SUBSET Nat /\ fileSize \in Nat
  BY TypesFacts, PagesNat DEF SyncedBytes
<1>9. Updated(Written(Pages(SyncedBytes)), Pages(SyncedBytes))
  BY <1>8, WrittenUpdates
<1>10. Updated(disk', Pages(SyncedBytes)) /\ disk'.fileSize = fileSize
  BY <1>1, <1>8, <1>9, LengthUpdates DEF Synced
<1> QED BY <1>1, <1>2, <1>3, <1>4, <1>5, <1>7, <1>10, SyncedSteps

LEMMA CloseStep ==
  ASSUME SyncsAlone, ~FlushesGrown, DurableTypeOK, Sound, CloseSucceeds
  PROVE  Sound' /\ DurableTypeOK'
<1> DEFINE w == Written(Pages(SyncedBytes))
<1>1. /\ Close
      /\ disk' = [w EXCEPT !.capacity = header.capacity, !.fileSize = fileSize]
      /\ promised' = promised \cup done
      /\ UNCHANGED <<done, stored, valid, begun>>
  BY DEF CloseSucceeds
<1>2. Next
  BY <1>1 DEF Next
<1>3. /\ open /\ Idle /\ header.capacity = capacity
      /\ UNCHANGED <<count, capacity, fileSize, issued, pc>>
  BY <1>1 DEF Close, HeaderStale, locals
<1>4. Pages(SyncedBytes) \in SUBSET Nat /\ fileSize \in Nat
  BY TypesFacts, PagesNat DEF SyncedBytes
<1>5. Updated(w, Pages(SyncedBytes))
  BY <1>4, WrittenUpdates
<1>6. 0 \in Pages(SyncedBytes)
  <2>1. Bytes(capacity) \in Nat \ {0} /\ Bytes(capacity) <= size /\ size \in Nat
    BY <1>3, BytesType, TypesFacts DEF Sound, IInv, Mapping
  <2>2. PageSize \in Nat
    BY SizesAssumption
  <2> QED BY <2>1, <2>2 DEF Pages, SyncedBytes
<1>7. w \in DiskType /\ w.capacity = header.capacity
  BY <1>3, <1>5, <1>6 DEF Updated
<1> HIDE DEF w
<1>8. disk' = [w EXCEPT !.fileSize = fileSize]
  BY <1>1, <1>4, <1>7 DEF DiskType
<1>9. Updated(disk', Pages(SyncedBytes)) /\ disk'.fileSize = fileSize
  BY <1>4, <1>5, <1>8, LengthUpdates
<1> QED BY <1>1, <1>2, <1>3, <1>9, SyncedSteps

(* The pages the kernel writes back go after the length.                   *)
LEMMA WritebackUpdates ==
  ASSUME DurableTypeOK, Writeback
  PROVE  \E ks \in SUBSET Nat :
           /\ Updated(disk', ks)
           /\ LengthFirst => disk'.fileSize = fileSize
<1>1. fileSize \in Nat /\ Pages(fileSize) \subseteq Nat
  BY TypesFacts, PagesNat
<1>2. CASE /\ LengthFirst => disk.fileSize = fileSize
           /\ \E k \in Pages(fileSize) : disk' = Written({k})
  <2>1. PICK k \in Pages(fileSize) : disk' = Written({k})
    BY <1>2
  <2>2. {k} \in SUBSET Nat
    BY <1>1
  <2> QED BY <1>2, <2>1, <2>2, WrittenUpdates
<1>3. CASE disk' = [disk EXCEPT !.fileSize = fileSize]
  <2>1. Updated(disk, {})
    BY TypesFacts DEF Updated
  <2>2. Updated(disk', {}) /\ disk'.fileSize = fileSize
    BY <1>1, <1>3, <2>1, LengthUpdates
  <2> QED BY <2>2
<1> QED BY <1>2, <1>3 DEF Writeback

LEMMA WritebackStep ==
  ASSUME LengthFirst, DInv, Writeback
  PROVE  DInv'
<1>1. UNCHANGED <<vars, done, stored, valid, begun, promised>> /\ DurableTypeOK
  BY DEF Writeback, DInv
<1>2. PICK ks \in SUBSET Nat : Updated(disk', ks) /\ disk'.fileSize = fileSize
  BY <1>1, WritebackUpdates
<1>3. UNCHANGED <<count, capacity, fileSize, open, opens, header, window, size, appendMu,
                  pc, idx, newCap, issued>>
  BY <1>1 DEF vars, file, process, locals
<1>4. DurableTypeOK'
  <2>1. TypeOK' /\ promised' \subseteq Nat
    BY <1>1, <1>3 DEF DurableTypeOK, TypeOK
  <2> QED BY <1>1, <1>2, <1>3, <2>1, UpdateTyped
<1>5. ASSUME valid PROVE Sound'
  <2>1. Sound
    BY <1>5 DEF DInv
  <2>2. IInv'
    BY <1>1, <2>1, StepIInv DEF Sound
  <2>3. Counting' /\ Grown'
    BY <1>3, <2>1 DEF Sound, Counting, Numbering, Fitting, Appending, Syncing, Grown, Target
  <2>4. Kept'
    BY <1>1, <1>3, <2>1 DEF Sound, Kept
  <2>5. OnDisk'
    <3>1. /\ disk'.fileSize <= fileSize'
          /\ disk'.valid => /\ disk'.count <= disk'.capacity
                            /\ Bytes(disk'.capacity) <= disk'.fileSize
                            /\ PageAlign(disk'.fileSize) <= MaxVA
          /\ \A i \in promised :
               /\ disk'.valid /\ i < disk'.count
               /\ \A k \in PagesOf(i) : <<i, k>> \in disk'.pieces
      BY <1>1, <1>2, <1>3, <2>1, UpdateKeeps
    <3> QED BY <1>1, <3>1 DEF OnDisk
  <2> QED BY <2>2, <2>3, <2>4, <2>5 DEF Sound
<1>6. ASSUME ~valid PROVE Lost'
  BY <1>1, <1>3, <1>6 DEF DInv, Lost, Idle
<1> QED BY <1>1, <1>4, <1>5, <1>6 DEF DInv

(* A power failure: the file is what the disk has of it.                   *)
LEMMA PowerStep ==
  ASSUME DInv, PowerFailure
  PROVE  DInv'
<1> DEFINE left == {i \in stored : /\ i < disk.count /\ Bytes(i + 1) <= disk.fileSize
                                  /\ \A k \in PagesOf(i) : <<i, k>> \in disk.pieces}
<1>1. Sound /\ DurableTypeOK
  BY DEF PowerFailure, DInv
<1>2. /\ count' = disk.count /\ capacity' = disk.capacity /\ fileSize' = disk.fileSize
      /\ valid' = (disk.valid /\ disk.fileSize >= HeaderSize)
      /\ stored' = left /\ done' = left
      /\ disk' = [disk EXCEPT !.pieces = {x \in disk.pieces : x[1] \in left}]
      /\ issued' = {i \in issued : i < disk.count}
      /\ UNCHANGED <<opens, begun, promised>>
  BY DEF PowerFailure
<1>3. /\ open' = FALSE /\ header' = [count |-> 0, capacity |-> 0]
      /\ window' = 0 /\ size' = 0 /\ appendMu' = None
      /\ pc' = [p \in Procs |-> "idle"] /\ idx' = [p \in Procs |-> 0]
      /\ newCap' = [p \in Procs |-> 0]
  BY DEF PowerFailure, Released
<1>4. /\ disk \in DiskType /\ stored \subseteq Nat
      /\ disk.pieces \subseteq stored \X Nat
      /\ \A x \in disk.pieces : x[2] \in PagesOf(x[1])
  BY <1>1, TypesFacts
<1>5. disk.count \in Nat /\ disk.capacity \in Nat /\ disk.fileSize \in Nat /\ disk.valid \in BOOLEAN
  BY <1>4 DEF DiskType
<1>6. left \subseteq stored /\ left \subseteq Nat
  BY <1>4
<1>7. /\ disk'.pieces \subseteq left \X Nat /\ disk'.pieces \subseteq disk.pieces
      /\ disk'.valid = disk.valid /\ disk'.count = disk.count
      /\ disk'.capacity = disk.capacity /\ disk'.fileSize = disk.fileSize
      /\ disk'.pieces = {x \in disk.pieces : x[1] \in left}
      /\ disk' \in [valid : BOOLEAN, count : Nat, capacity : Nat, fileSize : Nat,
                    pieces : SUBSET (left \X Nat)]
  <2> HIDE DEF left
  <2>1. {x \in disk.pieces : x[1] \in left} \subseteq left \X Nat
    BY <1>4
  <2> QED BY <1>2, <1>4, <2>1 DEF DiskType
<1>8. TypeOK'
  <2>1. 0 \in 0 .. MaxVA
    BY ReservationAssumption
  <2>2. issued' \subseteq Nat /\ opens' \in 0 .. MaxOpens
    BY <1>1, <1>2 DEF DurableTypeOK, TypeOK
  <2> QED BY <1>2, <1>3, <1>5, <2>1, <2>2 DEF TypeOK
<1>9. DurableTypeOK'
  <2>1. \A i \in stored' : Bytes(i + 1) <= fileSize'
    BY <1>2
  <2>2. promised' \subseteq Nat /\ begun' \in [Syncers -> SUBSET Nat]
    BY <1>1, <1>2 DEF DurableTypeOK
  <2>3. valid' \in BOOLEAN
    BY <1>2
  <2>4. done' \subseteq Nat /\ stored' \subseteq done'
    BY <1>2, <1>6
  <2>5. /\ disk' \in [valid : BOOLEAN, count : Nat, capacity : Nat, fileSize : Nat,
                      pieces : SUBSET (stored' \X Nat)]
        /\ \A x \in disk'.pieces : x[2] \in PagesOf(x[1])
    <3> HIDE DEF left
    <3> QED BY <1>2, <1>4, <1>7
  <2> QED BY <1>8, <2>1, <2>2, <2>3, <2>4, <2>5 DEF DurableTypeOK
<1>10. promised \subseteq left
  <2> SUFFICES ASSUME NEW i \in promised PROVE i \in left
    OBVIOUS
  <2>1. i \in stored /\ i \in Nat /\ i < disk.count /\ disk.valid
        /\ \A k \in PagesOf(i) : <<i, k>> \in disk.pieces
    BY <1>1, <1>4 DEF Sound, Kept, OnDisk
  <2>2. disk.count <= disk.capacity /\ Bytes(disk.capacity) <= disk.fileSize
    BY <1>1, <2>1 DEF Sound, OnDisk
  <2>3. i + 1 \in Nat /\ i + 1 <= disk.capacity
    BY <1>5, <2>1, <2>2
  <2>4. Bytes(i + 1) \in Nat /\ Bytes(i + 1) <= Bytes(disk.capacity) /\ Bytes(disk.capacity) \in Nat
    BY <1>5, <2>3, BytesFacts
  <2>5. Bytes(i + 1) <= disk.fileSize
    BY <1>5, <2>2, <2>4
  <2> QED BY <2>1, <2>5
<1>11. ASSUME disk.valid
       PROVE  /\ disk.count <= disk.capacity /\ Bytes(disk.capacity) \in Nat
              /\ Bytes(disk.capacity) <= disk.fileSize /\ PageAlign(disk.fileSize) <= MaxVA
              /\ disk.fileSize >= HeaderSize
  <2>1. /\ disk.count <= disk.capacity /\ Bytes(disk.capacity) <= disk.fileSize
        /\ PageAlign(disk.fileSize) <= MaxVA
    BY <1>1, <1>11 DEF Sound, OnDisk
  <2>2. disk.capacity * RecordSize \in Nat /\ HeaderSize \in Nat
    BY <1>5, SizesAssumption
  <2>3. Bytes(disk.capacity) \in Nat /\ Bytes(disk.capacity) >= HeaderSize
    BY <2>2 DEF Bytes
  <2> QED BY <1>5, <2>1, <2>2, <2>3
<1> HIDE DEF left
<1>12. ASSUME valid' PROVE Sound'
  <2>1. disk.valid
    BY <1>2, <1>12
  <2>2. Locking'
    BY <1>3, RolesAssumption DEF Locking, Idle, Procs, Critical
  <2>3. Mapping'
    BY <1>2, <1>3, <1>11, <2>1 DEF Mapping, Procs
  <2>4. Counting'
    <3>1. ~Appending' /\ ~Syncing' /\ \A p \in Appenders : pc'[p] = "idle"
      BY <1>3 DEF Appending, Syncing, Procs
    <3>2. count' <= capacity' /\ \A i \in issued' : i < count'
      BY <1>2, <1>11, <2>1
    <3> QED BY <3>1, <3>2 DEF Counting, Numbering, Fitting, Critical
  <2>5. Grown'
    BY <1>3 DEF Grown, Procs
  <2>6. Kept'
    <3>1. done' \subseteq issued'
      BY <1>1, <1>2, <1>6 DEF Sound, Kept, left
    <3>2. \A p \in Syncers : pc'[p] = "idle"
      BY <1>3 DEF Procs
    <3> QED BY <1>2, <1>10, <3>1, <3>2 DEF Kept
  <2>7. OnDisk'
    <3>1. ASSUME NEW i \in promised
          PROVE  /\ disk'.valid /\ i < disk'.count
                 /\ \A k \in PagesOf(i) : <<i, k>> \in disk'.pieces
      <4>1. /\ disk.valid /\ i < disk.count
            /\ \A k \in PagesOf(i) : <<i, k>> \in disk.pieces
        BY <1>1 DEF Sound, OnDisk
      <4>2. i \in left
        BY <1>10
      <4> QED BY <1>7, <4>1, <4>2
    <3>2. disk'.fileSize <= fileSize'
      BY <1>2, <1>5, <1>7
    <3>3. disk'.valid => /\ disk'.count <= disk'.capacity
                         /\ Bytes(disk'.capacity) <= disk'.fileSize
                         /\ PageAlign(disk'.fileSize) <= MaxVA
      BY <1>7, <1>11
    <3> QED BY <1>2, <3>1, <3>2, <3>3 DEF OnDisk
  <2> QED BY <1>8, <2>2, <2>3, <2>4, <2>5, <2>6, <2>7 DEF Sound, IInv
<1>13. ASSUME ~valid' PROVE Lost'
  <2>1. ~disk.valid
    BY <1>2, <1>11, <1>13
  <2>2. promised = {}
    BY <1>1, <2>1 DEF Sound, OnDisk
  <2>3. Idle'
    BY <1>3 DEF Idle
  <2> QED BY <1>2, <1>3, <2>2, <2>3 DEF Lost
<1> QED BY <1>9, <1>12, <1>13 DEF DInv

LEMMA InitDInv == DurableInit => DInv
<1> SUFFICES ASSUME DurableInit PROVE DInv
  OBVIOUS
<1>1. IInv /\ Counting
  BY InitIInv, InitCounting DEF DurableInit
<1>2. /\ done = {} /\ stored = {} /\ valid = TRUE /\ promised = {}
      /\ disk = [valid |-> FALSE, count |-> 0, capacity |-> 0, fileSize |-> 0, pieces |-> {}]
      /\ begun = [p \in Syncers |-> {}]
  BY DEF DurableInit
<1>3. DurableTypeOK
  BY <1>1, <1>2 DEF DurableTypeOK, IInv
<1>4. Grown
  <2>1. size = fileSize /\ \A p \in Appenders : pc[p] = "idle"
    BY DEF DurableInit, Init, Procs
  <2> QED BY <2>1 DEF Grown
<1>5. Kept
  BY <1>2 DEF Kept
<1>6. OnDisk
  <2>1. fileSize \in Nat
    BY <1>1 DEF IInv, TypeOK
  <2> QED BY <1>2, <2>1 DEF OnDisk
<1> QED BY <1>1, <1>2, <1>3, <1>4, <1>5, <1>6 DEF DInv, Sound

LEMMA StepDInv ==
  ASSUME SyncsAlone, ~FlushesGrown, LengthFirst, DInv, [DurableNext]_allVars
  PROVE  DInv'
<1>1. CASE Writeback
  BY <1>1, WritebackStep
<1>2. CASE PowerFailure
  BY <1>2, PowerStep
<1>3. CASE UNCHANGED allVars
  <2>1. UNCHANGED <<vars, durable, count, capacity, fileSize, open, opens, header, window, size,
                    appendMu, pc, idx, newCap, issued, done, stored, valid, disk, begun, promised>>
    BY <1>3 DEF allVars, vars, file, process, locals, durable
  <2>2. valid => IInv'
    BY <2>1, StepIInv DEF DInv, Sound
  <2>3. valid => Sound'
    BY <2>1, <2>2 DEF DInv, Sound, Counting, Numbering, Fitting, Appending, Syncing, Grown, Kept, OnDisk
  <2>4. DurableTypeOK' /\ (~valid => Lost')
    BY <2>1 DEF DInv, DurableTypeOK, TypeOK, Lost, Idle
  <2> QED BY <2>1, <2>3, <2>4 DEF DInv
<1>4. ASSUME Sound, DurableNext, ~Writeback, ~PowerFailure
      PROVE  Sound' /\ DurableTypeOK' /\ valid' = valid
  <2> USE DEF DInv
  <2>0. pc \in [Procs -> {"idle", "lock", "check", "grow", "region", "mmap", "madvise",
                          "publish", "store", "putCount", "putCapacity", "msync"}]
    BY DEF DurableTypeOK, TypeOK
  <2>1. ASSUME NEW p \in Appenders, CallAppend(p) \/ AppendStep(p), UNCHANGED durable
        PROVE  Sound' /\ DurableTypeOK' /\ valid' = valid
    <3>1. Next
      BY <2>1 DEF Next
    <3>2. \A q \in Procs \ {p} : pc'[q] = pc[q]
      BY <2>0, <2>1 DEF CallAppend, AppendStep, LockAppend, HasRoom, CallGrow, Grow,
         RegionLargeEnough, Truncate, Mmap, Madvise, GrowFails, PublishCapacity, StoreCount, Goto
    <3>3. \A q \in Syncers : pc'[q] # "idle" => pc[q] # "idle"
      BY <3>2, RolesAssumption DEF Procs
    <3>4. valid' = valid
      BY <2>1 DEF durable
    <3> QED BY <1>4, <2>1, <3>1, <3>3, <3>4, FileSteps
  <2>2. ASSUME NEW p \in Syncers, PutRecordCount(p) \/ PutCapacity(p) \/ MsyncFails(p),
               UNCHANGED durable
        PROVE  Sound' /\ DurableTypeOK' /\ valid' = valid
    <3>1. Next
      BY <2>2 DEF Next, SyncStep, MsyncFails
    <3>2. pc[p] # "idle" /\ \A q \in Procs \ {p} : pc'[q] = pc[q]
      BY <2>0, <2>2 DEF PutRecordCount, PutCapacity, MsyncFails, Msync, Goto
    <3>3. \A q \in Syncers : pc'[q] # "idle" => pc[q] # "idle"
      BY <3>2 DEF Procs
    <3>4. valid' = valid
      BY <2>2 DEF durable
    <3> QED BY <1>4, <2>2, <3>1, <3>3, <3>4, FileSteps
  <2>3. ASSUME Crash \/ OpenStore \/ Close, UNCHANGED durable
        PROVE  Sound' /\ DurableTypeOK' /\ valid' = valid
    <3>1. Next
      BY <2>3 DEF Next
    <3>2. \A q \in Syncers : pc'[q] # "idle" => pc[q] # "idle"
      BY <2>3 DEF Crash, OpenStore, Close, locals, Procs
    <3>3. valid' = valid
      BY <2>3 DEF durable
    <3> QED BY <1>4, <2>3, <3>1, <3>2, <3>3, FileSteps
  <2>4. ASSUME NEW i \in issued, Set(i)
        PROVE  Sound' /\ DurableTypeOK' /\ valid' = valid
    BY <1>4, <2>4, SetStep DEF Set
  <2>5. ASSUME NEW p \in Syncers, CallDurableSync(p)
        PROVE  Sound' /\ DurableTypeOK' /\ valid' = valid
    BY <1>4, <2>5, CallSyncStep DEF CallDurableSync
  <2>6. ASSUME NEW p \in Syncers, MsyncSucceeds(p)
        PROVE  Sound' /\ DurableTypeOK' /\ valid' = valid
    BY <1>4, <2>6, MsyncStep DEF MsyncSucceeds
  <2>7. ASSUME CloseSucceeds
        PROVE  Sound' /\ DurableTypeOK' /\ valid' = valid
    BY <1>4, <2>7, CloseStep DEF CloseSucceeds
  <2> QED
    BY <1>4, <2>1, <2>2, <2>3, <2>4, <2>5, <2>6, <2>7
    DEF DurableNext, OpenRecovering, CloseFails, MsyncFails
<1>5. ASSUME Lost, ~valid, DurableNext, ~Writeback, ~PowerFailure
      PROVE  FALSE
  <2>1. ~open /\ \A p \in Procs : pc[p] = "idle"
    BY <1>5 DEF Lost, Idle
  <2>2. \A p \in Procs : ~CallAppend(p) /\ ~AppendStep(p) /\ ~CallSync(p)
                         /\ ~PutRecordCount(p) /\ ~PutCapacity(p) /\ ~Msync(p)
    BY <2>1 DEF CallAppend, AppendStep, LockAppend, HasRoom, CallGrow, Grow, RegionLargeEnough,
       Truncate, Mmap, Madvise, GrowFails, PublishCapacity, StoreCount, CallSync, PutRecordCount,
       PutCapacity, Msync, Goto
  <2>3. ~Crash /\ ~Close /\ ~OpenRecovering /\ \A i \in issued : ~Set(i)
    BY <1>5, <2>1 DEF Crash, Close, OpenRecovering, Set
  <2> QED
    BY <1>5, <2>2, <2>3
    DEF DurableNext, CallDurableSync, MsyncSucceeds, MsyncFails, CloseSucceeds, CloseFails, Procs
<1> QED BY <1>1, <1>2, <1>3, <1>4, <1>5 DEF DInv

LEMMA DInvInvariant ==
  ASSUME SyncsAlone, ~FlushesGrown, LengthFirst
  PROVE  DurableSpec => []DInv
<1>1. DInv /\ [DurableNext]_allVars => DInv'
  BY StepDInv
<1> QED BY <1>1, InitDInv, PTL DEF DurableSpec
-----------------------------------------------------------------------------

(* What is recorded of the file and of the disk keeps its type; in         *)
(* particular nothing that is stored lies past the end of the file.        *)
THEOREM DurableTyped ==
  ASSUME SyncsAlone, ~FlushesGrown, LengthFirst
  PROVE  DurableSpec => []DurableTypeOK
<1>1. DInv => DurableTypeOK
  BY DEF DInv
<1> QED BY <1>1, DInvInvariant, PTL

(* What a Sync or Close that returned no error has covered survives every  *)
(* later power failure.                                                    *)
THEOREM SyncsSurvive ==
  ASSUME SyncsAlone, ~FlushesGrown, LengthFirst
  PROVE  DurableSpec => []SyncedSurvives
<1>1. DInv => SyncedSurvives
  <2> SUFFICES ASSUME DInv, NEW i \in promised
               PROVE  valid /\ i < count /\ i \in stored /\ Bytes(i + 1) <= fileSize
    BY DEF SyncedSurvives
  <2>1. valid /\ Sound
    BY DEF DInv, Lost
  <2>2. i \in done /\ i \in stored
    BY <2>1 DEF Sound, Kept
  <2> QED BY <2>1, <2>2, InFile DEF Sound
<1> QED BY <1>1, DInvInvariant, PTL

(* Nor does a power failure leave a store with records past its mapping.   *)
THEOREM MappedAfterPowerFailure ==
  ASSUME SyncsAlone, ~FlushesGrown, LengthFirst
  PROVE  DurableSpec => []RecordsMapped
<1>1. DInv => RecordsMapped
  <2> SUFFICES ASSUME DInv, open PROVE Bytes(count) <= window
    BY DEF RecordsMapped
  <2>1. Sound
    BY DEF DInv, Lost
  <2>2. count \in Nat /\ capacity \in Nat /\ count <= capacity /\ size \in Nat /\ window \in 0 .. MaxVA
    BY <2>1 DEF Sound, IInv, TypeOK, Counting, Numbering, Fitting
  <2>3. /\ Bytes(count) \in Nat /\ Bytes(count) <= Bytes(capacity) /\ Bytes(capacity) \in Nat
    BY <2>2, BytesFacts
  <2>4. Bytes(capacity) <= size /\ size <= window
    BY <2>1 DEF Sound, IInv, Mapping
  <2> QED BY <2>2, <2>3, <2>4
<1> QED BY <1>1, DInvInvariant, PTL
=============================================================================
