---------------------------- MODULE StoreProofs -----------------------------
(***************************************************************************)
(* Proofs about Store, for every value of its constants.                   *)
(*                                                                         *)
(* Whatever callers do, every specification step keeps Mapping: the        *)
(* capacity, and the capacity s.header would put back, fit region.size,    *)
(* and the mapping and the file are at least that large.                   *)
(***************************************************************************)
EXTENDS Store, TLAPS

(* Division by the page size.                                              *)
LEMMA DivFacts ==
  ASSUME NEW P \in Nat \ {0}, NEW m \in Nat
  PROVE  m \div P \in Nat /\ (m \div P) * P <= m /\ m < (m \div P + 1) * P
<1>1. m = P * (m \div P) + (m % P) /\ m % P \in 0 .. P - 1
  BY SMT
<1>2. m \div P \in Nat
  BY SMT
<1> QED BY <1>1, <1>2, SMT

(* The quotient is the only number with these bounds.                      *)
LEMMA DivUnique ==
  ASSUME NEW P \in Nat \ {0}, NEW k \in Nat, NEW q \in Nat,
         q * P <= k * P + (P - 1), k * P + (P - 1) < (q + 1) * P
  PROVE  q = k
<1>1. CASE q >= k + 1
  <2>1. q * P >= (k + 1) * P  BY <1>1, SMT
  <2> QED BY <2>1, SMT
<1>2. CASE q + 1 <= k
  <2>1. (q + 1) * P <= k * P  BY <1>2, SMT
  <2> QED BY <2>1, SMT
<1> QED BY <1>1, <1>2, SMT

(* pageAlign rounds up, and leaves whole pages as they are.                *)
LEMMA PageAlignFacts ==
  ASSUME NEW n \in Nat \ {0}
  PROVE  /\ PageAlign(n) \in Nat \ {0}
         /\ n <= PageAlign(n)
         /\ PageAlign(PageAlign(n)) = PageAlign(n)
<1> DEFINE P == PageSize
           k == (n - 1) \div P
           m == PageAlign(n) - 1
           q == m \div P
<1>0. P \in Nat \ {0}
  BY SizesAssumption
<1>1. k \in Nat /\ n - 1 < (k + 1) * P
  BY <1>0, DivFacts
<1>2. PageAlign(n) = (k + 1) * P
  BY DEF PageAlign
<1>3. (k + 1) * P = k * P + P /\ (k + 1) * P \in Nat /\ k * P \in Nat
  BY <1>0, <1>1, SMT
<1>4. PageAlign(n) \in Nat \ {0} /\ n <= PageAlign(n) /\ m \in Nat /\ m = k * P + (P - 1)
  <2> HIDE DEF k, P
  <2> QED BY <1>0, <1>1, <1>2, <1>3
<1>5. q \in Nat /\ q * P <= m /\ m < (q + 1) * P
  <2> HIDE DEF m, P
  <2> QED BY <1>0, <1>4, DivFacts
<1>6. q = k
  <2> HIDE DEF m, P, k, q
  <2> QED BY <1>0, <1>1, <1>4, <1>5, DivUnique
<1>7. PageAlign(PageAlign(n)) = (q + 1) * P
  BY DEF PageAlign
<1> QED BY <1>2, <1>4, <1>6, <1>7

LEMMA BytesFacts ==
  ASSUME NEW n \in Nat, NEW m \in Nat, n <= m
  PROVE  Bytes(n) \in Nat \ {0} /\ Bytes(n) <= Bytes(m)
<1>1. n * RecordSize \in Nat /\ n * RecordSize <= m * RecordSize
  BY SizesAssumption, SMT
<1>2. m * RecordSize \in Nat
  BY SizesAssumption, SMT
<1> QED BY <1>1, <1>2, SizesAssumption DEF Bytes

LEMMA DoubledFacts ==
  ASSUME NEW n \in Nat
  PROVE  Doubled(n) \in Nat /\ n < Doubled(n)
BY SizesAssumption DEF Doubled
-----------------------------------------------------------------------------

(***************************************************************************)
(* The inductive invariant behind CapacityBacked.                          *)
(***************************************************************************)
Critical == {"check", "grow", "region", "mmap", "madvise", "publish", "store"}

\* Only the holder of appendMu is inside Append; a closed store is idle.
Locking ==
  /\ \A p \in Appenders : pc[p] \in {"idle", "lock"} \cup Critical
  /\ \A p \in Syncers : pc[p] \in {"idle", "putCount", "putCapacity", "msync"}
  /\ \A p \in Appenders : pc[p] \in Critical => appendMu = p
  /\ ~open => Idle

\* The sizes in Go memory, in the kernel and in the file agree.
Mapping ==
  /\ PageAlign(fileSize) <= MaxVA
  /\ Bytes(capacity) <= fileSize
  /\ open => /\ Bytes(capacity) <= size /\ Bytes(header.capacity) <= size
             /\ size <= window /\ size <= fileSize
  /\ \A p \in Appenders :
       /\ pc[p] \in {"mmap", "madvise"} =>
            size < Bytes(newCap[p]) /\ fileSize = Target(p)
       /\ pc[p] = "madvise" => window = Target(p)
       /\ pc[p] = "publish" => Bytes(newCap[p]) <= size

IInv == TypeOK /\ Locking /\ Mapping

LEMMA BytesType ==
  ASSUME NEW n \in Nat
  PROVE  Bytes(n) \in Nat \ {0}
BY BytesFacts

LEMMA InitIInv == Init => IInv
<1> SUFFICES ASSUME Init PROVE IInv
  OBVIOUS
<1> USE SizesAssumption, ReservationAssumption, BoundsAssumption, RolesAssumption
<1>1. InitialCapacity \in Nat /\ Bytes(InitialCapacity) \in Nat \ {0}
  BY BytesType
<1>2. /\ PageAlign(Bytes(InitialCapacity)) \in Nat
      /\ Bytes(InitialCapacity) <= PageAlign(Bytes(InitialCapacity))
  BY <1>1, PageAlignFacts
<1>3. TypeOK
  <2>1. opens \in 0 .. MaxOpens
    BY DEF Init
  <2> QED BY <1>1, <1>2, <2>1 DEF Init, TypeOK, Procs
<1>4. Locking
  BY DEF Init, Locking, Critical, Procs, Idle
<1>5. Mapping
  BY <1>1, <1>2 DEF Init, Mapping, Procs
<1> QED BY <1>3, <1>4, <1>5 DEF IInv

LEMMA StepIInv == IInv /\ [Next]_vars => IInv'
<1> SUFFICES ASSUME IInv, [Next]_vars PROVE IInv'
  OBVIOUS
<1> USE SizesAssumption, ReservationAssumption, BoundsAssumption, RolesAssumption
        DEF IInv, Procs, file, process, locals
<1>a. \A n \in Nat : Bytes(n) \in Nat \ {0}
  BY BytesType
<1>b. /\ fileSize \in Nat \ {0}
      /\ PageAlign(fileSize) \in Nat /\ fileSize <= PageAlign(fileSize)
  <2>1. fileSize \in Nat \ {0}
    BY <1>a DEF TypeOK, Mapping
  <2> QED BY <2>1, PageAlignFacts
<1>c. ASSUME NEW p \in Appenders
      PROVE  /\ newCap[p] \in Nat /\ Bytes(newCap[p]) \in Nat \ {0}
             /\ Target(p) \in Nat /\ Bytes(newCap[p]) <= Target(p)
             /\ PageAlign(Target(p)) = Target(p)
  <2>1. newCap[p] \in Nat /\ Bytes(newCap[p]) \in Nat \ {0}
    BY <1>a DEF TypeOK
  <2> QED BY <2>1, PageAlignFacts DEF Target
<1>1. ASSUME NEW p \in Appenders, CallAppend(p) PROVE IInv'
  <2>1. TypeOK'
    BY <1>1 DEF CallAppend, Goto, TypeOK
  <2>2. Locking'
    BY <1>1 DEF CallAppend, Goto, TypeOK, Locking, Critical, Idle
  <2>3. Mapping'
    BY <1>1 DEF CallAppend, Goto, TypeOK, Locking, Critical, Mapping, Target
  <2> QED BY <2>1, <2>2, <2>3
<1>2. ASSUME NEW p \in Appenders, LockAppend(p) PROVE IInv'
  <2>1. TypeOK'
    BY <1>2 DEF LockAppend, Goto, TypeOK
  <2>2. Locking'
    BY <1>2 DEF LockAppend, Goto, TypeOK, Locking, Critical, Idle
  <2>3. Mapping'
    BY <1>2 DEF LockAppend, Goto, TypeOK, Locking, Critical, Mapping, Target
  <2> QED BY <2>1, <2>2, <2>3
<1>3. ASSUME NEW p \in Appenders, HasRoom(p) PROVE IInv'
  <2>1. TypeOK'
    BY <1>3 DEF HasRoom, Goto, TypeOK
  <2>2. Locking'
    BY <1>3 DEF HasRoom, Goto, TypeOK, Locking, Critical, Idle
  <2>3. Mapping'
    BY <1>3 DEF HasRoom, Goto, TypeOK, Locking, Critical, Mapping, Target
  <2> QED BY <2>1, <2>2, <2>3
<1>4. ASSUME NEW p \in Appenders, CallGrow(p) PROVE IInv'
  <2>1. TypeOK'
    BY <1>4 DEF CallGrow, Goto, TypeOK
  <2>2. Locking'
    BY <1>4 DEF CallGrow, Goto, TypeOK, Locking, Critical, Idle
  <2>3. Mapping'
    BY <1>4 DEF CallGrow, Goto, TypeOK, Locking, Critical, Mapping, Target
  <2> QED BY <2>1, <2>2, <2>3
<1>5. ASSUME NEW p \in Appenders, Grow(p) PROVE IInv'
  <2>1. TypeOK'
    <3>1. Doubled(capacity) \in Nat
      BY DoubledFacts DEF TypeOK
    <3> QED BY <3>1, <1>5 DEF Grow, Goto, TypeOK
  <2>2. Locking'
    BY <1>5 DEF Grow, Goto, TypeOK, Locking, Critical, Idle
  <2>3. Mapping'
    BY <1>5 DEF Grow, Goto, TypeOK, Locking, Critical, Mapping, Target
  <2> QED BY <2>1, <2>2, <2>3
<1>6. ASSUME NEW p \in Appenders, RegionLargeEnough(p) PROVE IInv'
  <2>1. TypeOK'
    BY <1>6 DEF RegionLargeEnough, Goto, TypeOK
  <2>2. Locking'
    BY <1>6 DEF RegionLargeEnough, Goto, TypeOK, Locking, Critical, Idle
  <2>3. Mapping'
    BY <1>6 DEF RegionLargeEnough, Goto, TypeOK, Locking, Critical, Mapping, Target
  <2> QED BY <2>1, <2>2, <2>3
<1>7. ASSUME NEW p \in Appenders, Truncate(p) PROVE IInv'
  <2>1. TypeOK'
    BY <1>a, <1>b, <1>c, <1>7 DEF Truncate, Goto, TypeOK
  <2>2. Locking'
    BY <1>a, <1>b, <1>c, <1>7 DEF Truncate, Goto, TypeOK, Locking, Critical, Idle
  <2>3. Mapping'
    <3>0. open /\ appendMu = p
      BY <1>7 DEF Truncate, Goto, Locking, Critical, Idle
    <3>1. /\ size < fileSize' /\ size \in Nat /\ fileSize' = Target(p) /\ fileSize' = Target(p)'
          /\ fileSize' \in Nat
          /\ PageAlign(fileSize') <= MaxVA
      BY <1>c, <1>7 DEF Truncate, Target, TypeOK
    <3>2. Bytes(capacity) <= fileSize' /\ Bytes(capacity) \in Nat
      BY <1>a, <3>0, <3>1 DEF Mapping, TypeOK
    <3>3. \A q \in Appenders \ {p} : pc'[q] \notin Critical
      BY <3>0, <1>7 DEF Truncate, Goto, Locking, TypeOK
    <3>4. pc'[p] = "mmap" /\ size' < Bytes(newCap'[p])
      BY <1>7 DEF Truncate, Goto, TypeOK
    <3> QED BY <1>7, <3>0, <3>1, <3>2, <3>3, <3>4 DEF Truncate, Mapping, Critical
  <2> QED BY <2>1, <2>2, <2>3
<1>8. ASSUME NEW p \in Appenders, Mmap(p) PROVE IInv'
  <2>1. TypeOK'
    <3>1. window' \in 0 .. MaxVA
      BY <1>c, <1>8 DEF Mmap, Goto, Mapping
    <3> QED BY <1>8, <3>1 DEF Mmap, Goto, TypeOK
  <2>2. Locking'
    BY <1>a, <1>b, <1>c, <1>8 DEF Mmap, Goto, TypeOK, Locking, Critical, Idle
  <2>3. Mapping'
    BY <1>a, <1>b, <1>c, <1>8 DEF Mmap, Goto, TypeOK, Locking, Critical, Mapping, Target
  <2> QED BY <2>1, <2>2, <2>3
<1>9. ASSUME NEW p \in Appenders, Madvise(p) PROVE IInv'
  <2>1. TypeOK'
    BY <1>a, <1>b, <1>c, <1>9 DEF Madvise, Goto, TypeOK
  <2>2. Locking'
    BY <1>a, <1>b, <1>c, <1>9 DEF Madvise, Goto, TypeOK, Locking, Critical, Idle
  <2>3. Mapping'
    BY <1>a, <1>b, <1>c, <1>9 DEF Madvise, Goto, TypeOK, Locking, Critical, Mapping, Target
  <2> QED BY <2>1, <2>2, <2>3
<1>10. ASSUME NEW p \in Appenders, GrowFails(p) PROVE IInv'
  <2>1. TypeOK'
    <3>1. /\ pc' \in [Procs -> {"idle", "lock", "check", "grow", "region", "mmap", "madvise",
                               "publish", "store", "putCount", "putCapacity", "msync"}]
          /\ idx' \in [Procs -> Nat] /\ newCap' \in [Procs -> Nat]
      BY <1>10 DEF GrowFails, Goto, TypeOK
    <3> QED BY <1>10, <3>1 DEF GrowFails, Unlocked, TypeOK
  <2>2. Locking'
    BY <1>a, <1>b, <1>c, <1>10 DEF GrowFails, Goto, TypeOK, Locking, Critical, Idle
  <2>3. Mapping'
    BY <1>a, <1>b, <1>c, <1>10 DEF GrowFails, Goto, TypeOK, Locking, Critical, Mapping, Target
  <2> QED BY <2>1, <2>2, <2>3
<1>11. ASSUME NEW p \in Appenders, PublishCapacity(p) PROVE IInv'
  <2>1. TypeOK'
    BY <1>a, <1>b, <1>c, <1>11 DEF PublishCapacity, Goto, TypeOK
  <2>2. Locking'
    BY <1>a, <1>b, <1>c, <1>11 DEF PublishCapacity, Goto, TypeOK, Locking, Critical, Idle
  <2>3. Mapping'
    <3>1. /\ open /\ Bytes(capacity') <= size
      BY <1>11 DEF PublishCapacity, Goto, Locking, Critical, Idle, Mapping
    <3>2. Bytes(capacity') <= fileSize
      BY <1>a, <1>c, <3>1, <1>11 DEF PublishCapacity, Mapping, TypeOK
    <3> QED BY <1>11, <3>1, <3>2 DEF PublishCapacity, Goto, TypeOK, Mapping, Target
  <2> QED BY <2>1, <2>2, <2>3
<1>12. ASSUME NEW p \in Appenders, StoreCount(p) PROVE IInv'
  <2>1. TypeOK'
    <3>0. idx[p] \in Nat
      BY DEF TypeOK
    <3>1. /\ count' = idx[p] + 1 /\ issued' = issued \cup {idx[p]} /\ issued \subseteq Nat
          /\ appendMu' \in Appenders \cup {None}
      BY <1>12 DEF StoreCount, Unlocked, TypeOK
    <3>3. count' \in Nat
      BY <3>0, <3>1
    <3>4. issued' \subseteq Nat
      BY <3>0, <3>1
    <3>2. /\ pc' \in [Procs -> {"idle", "lock", "check", "grow", "region", "mmap", "madvise",
                               "publish", "store", "putCount", "putCapacity", "msync"}]
          /\ idx' \in [Procs -> Nat] /\ newCap' \in [Procs -> Nat]
      BY <1>12 DEF StoreCount, Goto, TypeOK
    <3> QED BY <1>12, <3>1, <3>2, <3>3, <3>4 DEF StoreCount, TypeOK
  <2>2. Locking'
    BY <1>a, <1>b, <1>c, <1>12 DEF StoreCount, Goto, TypeOK, Locking, Critical, Idle
  <2>3. Mapping'
    BY <1>a, <1>b, <1>c, <1>12 DEF StoreCount, Goto, TypeOK, Locking, Critical, Mapping, Target
  <2> QED BY <2>1, <2>2, <2>3
<1>13. ASSUME NEW p \in Syncers, CallSync(p) PROVE IInv'
  <2>1. TypeOK'
    BY <1>13 DEF CallSync, Goto, TypeOK
  <2>2. Locking'
    BY <1>13 DEF CallSync, Goto, TypeOK, Locking, Critical, Idle
  <2>3. Mapping'
    BY <1>13 DEF CallSync, Goto, TypeOK, Locking, Critical, Mapping, Target
  <2> QED BY <2>1, <2>2, <2>3
<1>14. ASSUME NEW p \in Syncers, PutRecordCount(p) PROVE IInv'
  <2>1. TypeOK'
    BY <1>14 DEF PutRecordCount, Goto, TypeOK
  <2>2. Locking'
    BY <1>14 DEF PutRecordCount, Goto, TypeOK, Locking, Critical, Idle
  <2>3. Mapping'
    BY <1>14 DEF PutRecordCount, Goto, TypeOK, Locking, Critical, Mapping, Target
  <2> QED BY <2>1, <2>2, <2>3
<1>15. ASSUME NEW p \in Syncers, PutCapacity(p) PROVE IInv'
  <2>1. TypeOK'
    BY <1>a, <1>b, <1>c, <1>15 DEF PutCapacity, Goto, TypeOK
  <2>2. Locking'
    BY <1>a, <1>b, <1>c, <1>15 DEF PutCapacity, Goto, TypeOK, Locking, Critical, Idle
  <2>3. Mapping'
    <3>1. /\ open /\ Bytes(capacity') <= size
      BY <1>15 DEF PutCapacity, Goto, Locking, Idle, Mapping
    <3>2. Bytes(capacity') <= fileSize
      <4>1. Bytes(capacity') \in Nat
        BY <1>a, <1>15 DEF PutCapacity, TypeOK
      <4> QED BY <1>b, <3>1, <4>1 DEF Mapping, TypeOK
    <3> QED BY <1>15, <3>1, <3>2 DEF PutCapacity, Goto, TypeOK, Locking, Mapping, Target
  <2> QED BY <2>1, <2>2, <2>3
<1>16. ASSUME NEW p \in Syncers, Msync(p) PROVE IInv'
  <2>1. TypeOK'
    BY <1>16 DEF Msync, Goto, TypeOK
  <2>2. Locking'
    BY <1>16 DEF Msync, Goto, TypeOK, Locking, Critical, Idle
  <2>3. Mapping'
    BY <1>16 DEF Msync, Goto, TypeOK, Locking, Critical, Mapping, Target
  <2> QED BY <2>1, <2>2, <2>3
<1>17. ASSUME Close PROVE IInv'
  <2>1. TypeOK'
    <3>1. /\ header' \in [count : Nat, capacity : Nat] /\ window' \in 0 .. MaxVA
          /\ size' \in Nat /\ capacity' \in Nat
      BY <1>17 DEF Close, Released, TypeOK
    <3> QED BY <1>17, <3>1 DEF Close, Released, TypeOK
  <2>2. Locking'
    BY <1>a, <1>b, <1>c, <1>17 DEF Close, Released, TypeOK, Locking, Critical, Idle
  <2>3. Mapping'
    <3>1. Bytes(capacity') <= fileSize
      <4>1. Bytes(capacity') \in Nat /\ Bytes(capacity') <= size
        BY <1>a, <1>17 DEF Close, TypeOK, Mapping
      <4> QED BY <1>b, <1>17, <4>1 DEF Close, Mapping, TypeOK
    <3> QED BY <1>17, <3>1 DEF Close, Released, Idle, Mapping
  <2> QED BY <2>1, <2>2, <2>3
<1>18. ASSUME Crash PROVE IInv'
  <2>1. TypeOK'
    <3>1. header' \in [count : Nat, capacity : Nat] /\ window' \in 0 .. MaxVA /\ size' \in Nat
      BY <1>18 DEF Crash, Released
    <3>2. /\ appendMu' \in Appenders \cup {None}
          /\ idx' \in [Procs -> Nat] /\ newCap' \in [Procs -> Nat]
      BY <1>18 DEF Crash, Released
    <3>3. pc' \in [Procs -> {"idle"}]
      BY <1>18 DEF Crash, Released
    <3> QED BY <1>18, <3>1, <3>2, <3>3 DEF Crash, Released, TypeOK
  <2>2. Locking'
    BY <1>a, <1>b, <1>c, <1>18 DEF Crash, Released, TypeOK, Locking, Critical, Idle
  <2>3. Mapping'
    BY <1>a, <1>b, <1>c, <1>18 DEF Crash, Released, TypeOK, Locking, Critical, Mapping, Target
  <2> QED BY <2>1, <2>2, <2>3
<1>19. ASSUME OpenStore PROVE IInv'
  <2>1. TypeOK'
    <3>1. header' \in [count : Nat, capacity : Nat] /\ size' \in Nat
      BY <1>19 DEF OpenStore, MapFile, TypeOK
    <3>2. opens' \in 0 .. MaxOpens
      BY <1>19 DEF OpenStore, MapFile, TypeOK
    <3>3. window' \in 0 .. MaxVA
      BY <1>b, <1>19 DEF OpenStore, MapFile, TypeOK, Mapping
    <3> QED BY <1>19, <3>1, <3>2, <3>3 DEF OpenStore, MapFile, TypeOK
  <2>2. Locking'
    BY <1>a, <1>b, <1>c, <1>19 DEF OpenStore, MapFile, TypeOK, Locking, Critical, Idle
  <2>3. Mapping'
    <3>1. \A q \in Appenders : pc'[q] = "idle"
      BY <1>19 DEF OpenStore, MapFile, Locking, Idle
    <3>2. open' => /\ Bytes(capacity') <= size' /\ Bytes(header'.capacity) <= size'
                  /\ size' <= window' /\ size' <= fileSize'
      BY <1>b, <1>19 DEF OpenStore, MapFile, Mapping
    <3> QED BY <1>19, <3>1, <3>2 DEF OpenStore, MapFile, Mapping
  <2> QED BY <2>1, <2>2, <2>3
<1>20. CASE UNCHANGED vars
  BY <1>20 DEF vars, TypeOK, Locking, Critical, Mapping, Idle, Target
<1> QED
  BY <1>1, <1>2, <1>3, <1>4, <1>5, <1>6, <1>7, <1>8, <1>9, <1>10, <1>11, <1>12, <1>13, <1>14, <1>15, <1>16, <1>17, <1>18, <1>19, <1>20 DEF Next, AppendStep, SyncStep

LEMMA IInvInvariant == Spec => []IInv
<1> QED BY InitIInv, StepIInv, PTL DEF Spec

(* TypeOK, for any goroutines, sizes, reservation and switches; its bound  *)
(* on window says that growth never maps past the reserved address space.  *)
THEOREM TypeCorrect == Spec => []TypeOK
<1>1. IInv => TypeOK
  BY DEF IInv
<1> QED BY <1>1, IInvInvariant, PTL

(* Every record the capacity promises is in the file and, in an open       *)
(* store, mapped, whatever fails or crashes in grow and however Sync       *)
(* interleaves with it.                                                    *)
THEOREM CapacityIsBacked == Spec => []CapacityBacked
<1>1. IInv => CapacityBacked
  <2> SUFFICES ASSUME IInv PROVE CapacityBacked
    OBVIOUS
  <2>1. Bytes(capacity) \in Nat
    BY BytesType DEF IInv, TypeOK
  <2> QED BY <2>1 DEF IInv, TypeOK, Mapping, CapacityBacked
<1> QED BY <1>1, IInvInvariant, PTL
-----------------------------------------------------------------------------
(***************************************************************************)
(* Callers that never run Sync during an Append get the log, whatever has  *)
(* become of the capacity.                                                 *)
(***************************************************************************)
\* The count belongs to the Append that holds appendMu, and Sync puts back
\* what is there.
Numbering ==
  /\ ~(Appending /\ Syncing)
  /\ Syncing => header.count = count
  /\ \A i \in issued : i < count
  /\ \A p \in Appenders : pc[p] \in Critical => idx[p] = count

LEMMA InitNumbering == Init => Numbering
BY RolesAssumption DEF Init, Numbering, Appending, Syncing, Procs, Critical

LEMMA StepNumbering ==
  ASSUME SyncsAlone, IInv, Numbering, [Next]_vars
  PROVE  Numbering'
<1> USE SizesAssumption, RolesAssumption DEF IInv, Procs, file, process, locals, Critical
<1>1. ASSUME NEW p \in Appenders, CallAppend(p) PROVE Numbering'
  BY <1>1 DEF CallAppend, Goto, TypeOK, Locking, Numbering, Appending, Syncing, Idle
<1>2. ASSUME NEW p \in Appenders, LockAppend(p) PROVE Numbering'
  BY <1>2 DEF LockAppend, Goto, TypeOK, Locking, Numbering, Appending, Syncing, Idle
<1>3. ASSUME NEW p \in Appenders, HasRoom(p) PROVE Numbering'
  BY <1>3 DEF HasRoom, Goto, TypeOK, Locking, Numbering, Appending, Syncing, Idle
<1>4. ASSUME NEW p \in Appenders, CallGrow(p) PROVE Numbering'
  BY <1>4 DEF CallGrow, Goto, TypeOK, Locking, Numbering, Appending, Syncing, Idle
<1>5. ASSUME NEW p \in Appenders, Grow(p) PROVE Numbering'
  BY <1>5 DEF Grow, Goto, TypeOK, Locking, Numbering, Appending, Syncing, Idle
<1>6. ASSUME NEW p \in Appenders, RegionLargeEnough(p) PROVE Numbering'
  BY <1>6 DEF RegionLargeEnough, Goto, TypeOK, Locking, Numbering, Appending, Syncing, Idle
<1>7. ASSUME NEW p \in Appenders, Truncate(p) PROVE Numbering'
  BY <1>7 DEF Truncate, Goto, TypeOK, Locking, Numbering, Appending, Syncing, Idle
<1>8. ASSUME NEW p \in Appenders, Mmap(p) PROVE Numbering'
  BY <1>8 DEF Mmap, Goto, TypeOK, Locking, Numbering, Appending, Syncing, Idle
<1>9. ASSUME NEW p \in Appenders, Madvise(p) PROVE Numbering'
  BY <1>9 DEF Madvise, Goto, TypeOK, Locking, Numbering, Appending, Syncing, Idle
<1>10. ASSUME NEW p \in Appenders, GrowFails(p) PROVE Numbering'
  BY <1>10 DEF GrowFails, Goto, TypeOK, Locking, Numbering, Appending, Syncing, Idle
<1>11. ASSUME NEW p \in Appenders, PublishCapacity(p) PROVE Numbering'
  BY <1>11 DEF PublishCapacity, Goto, TypeOK, Locking, Numbering, Appending, Syncing, Idle
<1>12. ASSUME NEW p \in Appenders, StoreCount(p) PROVE Numbering'
  BY <1>12 DEF StoreCount, Goto, TypeOK, Locking, Numbering, Appending, Syncing, Idle
<1>13. ASSUME NEW p \in Syncers, CallSync(p) PROVE Numbering'
  BY <1>13 DEF CallSync, Goto, TypeOK, Locking, Numbering, Appending, Syncing, Idle
<1>14. ASSUME NEW p \in Syncers, PutRecordCount(p) PROVE Numbering'
  BY <1>14 DEF PutRecordCount, Goto, TypeOK, Locking, Numbering, Appending, Syncing, Idle
<1>15. ASSUME NEW p \in Syncers, PutCapacity(p) PROVE Numbering'
  BY <1>15 DEF PutCapacity, Goto, TypeOK, Locking, Numbering, Appending, Syncing, Idle
<1>16. ASSUME NEW p \in Syncers, Msync(p) PROVE Numbering'
  BY <1>16 DEF Msync, Goto, TypeOK, Locking, Numbering, Appending, Syncing, Idle
<1>17. ASSUME Close PROVE Numbering'
  BY <1>17 DEF Close, TypeOK, Locking, Numbering, Appending, Syncing, Idle
<1>18. ASSUME Crash PROVE Numbering'
  BY <1>18 DEF Crash, TypeOK, Locking, Numbering, Appending, Syncing, Idle
<1>19. ASSUME OpenStore PROVE Numbering'
  BY <1>19 DEF OpenStore, MapFile, TypeOK, Locking, Numbering, Appending, Syncing, Idle
<1>20. CASE UNCHANGED vars
  BY <1>20 DEF vars, Numbering, Appending, Syncing
<1> QED
  BY <1>1, <1>2, <1>3, <1>4, <1>5, <1>6, <1>7, <1>8, <1>9, <1>10, <1>11, <1>12, <1>13, <1>14, <1>15, <1>16, <1>17, <1>18, <1>19, <1>20 DEF Next, AppendStep, SyncStep

LEMMA NumberingInvariant ==
  ASSUME SyncsAlone
  PROVE  Spec => [](IInv /\ Numbering)
<1>1. IInv /\ Numbering /\ [Next]_vars => (IInv /\ Numbering)'
  BY StepIInv, StepNumbering
<1> QED BY <1>1, InitIInv, InitNumbering, PTL DEF Spec

(* No index Append has returned is past the end again: not after grow,     *)
(* Sync, Close, a crash and OpenStore.                                     *)
THEOREM IssuedStaysLive ==
  ASSUME SyncsAlone
  PROVE  Spec => []IssuedLive
<1>1. IInv /\ Numbering => IssuedLive
  BY DEF Numbering, IssuedLive
<1> QED BY <1>1, NumberingInvariant, PTL

(* Append never returns the same index twice.                              *)
THEOREM IndicesUnique ==
  ASSUME SyncsAlone
  PROVE  Spec => UniqueIndices
<1>1. IInv /\ Numbering /\ [Next]_vars =>
        [\A p \in Appenders : StoreCount(p) => idx[p] \notin issued]_vars
  <2> SUFFICES ASSUME IInv, Numbering, NEW p \in Appenders, StoreCount(p)
               PROVE  idx[p] \notin issued
    OBVIOUS
  <2>1. pc[p] = "store"
    BY DEF StoreCount, Goto
  <2>2. idx[p] = count /\ count \in Nat
    BY <2>1 DEF IInv, TypeOK, Numbering, Critical
  <2> QED BY <2>2 DEF Numbering
<1> QED BY <1>1, NumberingInvariant, PTL DEF Spec, UniqueIndices

(* The store implements the log of AppendLog: appending is one atomic      *)
(* step, the one that stores the count, and no other step is seen.         *)
THEOREM StoreImplementsLog ==
  ASSUME SyncsAlone
  PROVE  Spec => ImplementsLog
<1>1. Init => Log!Init
  BY DEF Init, Log!Init
<1>2. IInv /\ Numbering /\ [Next]_vars => [Log!Append]_<<count, issued>>
  <2> SUFFICES ASSUME IInv, Numbering, [Next]_vars, ~UNCHANGED <<count, issued>>
               PROVE  Log!Append
    OBVIOUS
  <2>1. PICK p \in Appenders : StoreCount(p)
    <3>1. ASSUME NEW p \in Syncers, PutRecordCount(p) PROVE FALSE
      BY <3>1 DEF PutRecordCount, Goto, Numbering, Syncing
    <3> QED BY <3>1 DEF Next, vars, file, process, locals, AppendStep, SyncStep, CallAppend,
              LockAppend, HasRoom, CallGrow, Grow, RegionLargeEnough, Truncate, Mmap,
              Madvise, GrowFails, PublishCapacity, CallSync, PutCapacity, Msync, Close,
              Crash, OpenStore, MapFile
  <2>2. idx[p] = count /\ count \in Nat
    BY <2>1 DEF StoreCount, Goto, IInv, TypeOK, Numbering, Critical
  <2>3. count \notin issued
    BY <2>2 DEF Numbering
  <2> QED BY <2>1, <2>2, <2>3 DEF StoreCount, Log!Append
<1> QED BY <1>1, <1>2, NumberingInvariant, PTL DEF Spec, ImplementsLog, Log!Spec
-----------------------------------------------------------------------------
(***************************************************************************)
(* When, besides, nobody flushes a header whose capacity is out of date,   *)
(* the records stay within the capacity.                                   *)
(***************************************************************************)
Fitting ==
  /\ Syncing => header.capacity = capacity
  /\ count <= capacity
  /\ \A p \in Appenders :
       /\ pc[p] \in {"region", "mmap", "madvise", "publish"} => count < newCap[p]
       /\ pc[p] = "store" => count < capacity

Counting == Numbering /\ Fitting

LEMMA InitCounting == Init => Counting
BY InitNumbering, SizesAssumption, RolesAssumption DEF Init, Counting, Fitting, Syncing, Procs

LEMMA StepFitting ==
  ASSUME SyncsAlone, ~FlushesGrown, IInv, Numbering, Fitting, [Next]_vars
  PROVE  Fitting'
<1> USE SizesAssumption, RolesAssumption DEF IInv, Procs, file, process, locals, Critical
<1>1. ASSUME NEW p \in Appenders, CallAppend(p) PROVE Fitting'
  BY <1>1 DEF CallAppend, Goto, TypeOK, Locking, Numbering, Fitting, Appending, Syncing, Idle
<1>2. ASSUME NEW p \in Appenders, LockAppend(p) PROVE Fitting'
  BY <1>2 DEF LockAppend, Goto, TypeOK, Locking, Numbering, Fitting, Appending, Syncing, Idle
<1>3. ASSUME NEW p \in Appenders, HasRoom(p) PROVE Fitting'
  BY <1>3 DEF HasRoom, Goto, TypeOK, Locking, Numbering, Fitting, Appending, Syncing, Idle
<1>4. ASSUME NEW p \in Appenders, CallGrow(p) PROVE Fitting'
  BY <1>4 DEF CallGrow, Goto, TypeOK, Locking, Numbering, Fitting, Appending, Syncing, Idle
<1>5. ASSUME NEW p \in Appenders, Grow(p) PROVE Fitting'
  BY <1>5 DEF Grow, Goto, Doubled, TypeOK, Locking, Numbering, Fitting, Appending, Syncing, Idle
<1>6. ASSUME NEW p \in Appenders, RegionLargeEnough(p) PROVE Fitting'
  BY <1>6 DEF RegionLargeEnough, Goto, TypeOK, Locking, Numbering, Fitting, Appending, Syncing, Idle
<1>7. ASSUME NEW p \in Appenders, Truncate(p) PROVE Fitting'
  BY <1>7 DEF Truncate, Goto, TypeOK, Locking, Numbering, Fitting, Appending, Syncing, Idle
<1>8. ASSUME NEW p \in Appenders, Mmap(p) PROVE Fitting'
  BY <1>8 DEF Mmap, Goto, TypeOK, Locking, Numbering, Fitting, Appending, Syncing, Idle
<1>9. ASSUME NEW p \in Appenders, Madvise(p) PROVE Fitting'
  BY <1>9 DEF Madvise, Goto, TypeOK, Locking, Numbering, Fitting, Appending, Syncing, Idle
<1>10. ASSUME NEW p \in Appenders, GrowFails(p) PROVE Fitting'
  BY <1>10 DEF GrowFails, Goto, TypeOK, Locking, Numbering, Fitting, Appending, Syncing, Idle
<1>11. ASSUME NEW p \in Appenders, PublishCapacity(p) PROVE Fitting'
  BY <1>11 DEF PublishCapacity, Goto, TypeOK, Locking, Numbering, Fitting, Appending, Syncing, Idle
<1>12. ASSUME NEW p \in Appenders, StoreCount(p) PROVE Fitting'
  BY <1>12 DEF StoreCount, Goto, TypeOK, Locking, Numbering, Fitting, Appending, Syncing, Idle
<1>13. ASSUME NEW p \in Syncers, CallSync(p) PROVE Fitting'
  BY <1>13 DEF CallSync, Goto, HeaderStale, TypeOK, Locking, Numbering, Fitting, Appending, Syncing, Idle
<1>14. ASSUME NEW p \in Syncers, PutRecordCount(p) PROVE Fitting'
  BY <1>14 DEF PutRecordCount, Goto, TypeOK, Locking, Numbering, Fitting, Appending, Syncing, Idle
<1>15. ASSUME NEW p \in Syncers, PutCapacity(p) PROVE Fitting'
  BY <1>15 DEF PutCapacity, Goto, TypeOK, Locking, Numbering, Fitting, Appending, Syncing, Idle
<1>16. ASSUME NEW p \in Syncers, Msync(p) PROVE Fitting'
  BY <1>16 DEF Msync, Goto, TypeOK, Locking, Numbering, Fitting, Appending, Syncing, Idle
<1>17. ASSUME Close PROVE Fitting'
  BY <1>17 DEF Close, HeaderStale, TypeOK, Locking, Numbering, Fitting, Appending, Syncing, Idle
<1>18. ASSUME Crash PROVE Fitting'
  BY <1>18 DEF Crash, TypeOK, Locking, Numbering, Fitting, Appending, Syncing, Idle
<1>19. ASSUME OpenStore PROVE Fitting'
  BY <1>19 DEF OpenStore, MapFile, TypeOK, Locking, Numbering, Fitting, Appending, Syncing, Idle
<1>20. CASE UNCHANGED vars
  BY <1>20 DEF vars, Numbering, Fitting, Appending, Syncing
<1> QED
  BY <1>1, <1>2, <1>3, <1>4, <1>5, <1>6, <1>7, <1>8, <1>9, <1>10, <1>11, <1>12, <1>13, <1>14, <1>15, <1>16, <1>17, <1>18, <1>19, <1>20 DEF Next, AppendStep, SyncStep

LEMMA StepCounting ==
  ASSUME SyncsAlone, ~FlushesGrown, IInv, Counting, [Next]_vars
  PROVE  Counting'
BY StepNumbering, StepFitting DEF Counting

LEMMA CountingInvariant ==
  ASSUME SyncsAlone, ~FlushesGrown
  PROVE  Spec => [](IInv /\ Counting)
<1>1. IInv /\ Counting /\ [Next]_vars => (IInv /\ Counting)'
  BY StepIInv, StepCounting
<1> QED BY <1>1, InitIInv, InitCounting, PTL DEF Spec

(* Every record below Len() is in mapped pages.                            *)
THEOREM LiveRecordsMapped ==
  ASSUME SyncsAlone, ~FlushesGrown
  PROVE  Spec => []RecordsMapped
<1>1. IInv /\ Counting => RecordsMapped
  <2> SUFFICES ASSUME IInv, Counting, open PROVE Bytes(count) <= window
    BY DEF RecordsMapped
  <2>1. Bytes(count) <= Bytes(capacity) /\ Bytes(count) \in Nat /\ Bytes(capacity) \in Nat
    BY BytesFacts, BytesType DEF IInv, TypeOK, Counting, Fitting
  <2> QED BY <2>1 DEF IInv, TypeOK, Mapping
<1> QED BY <1>1, CountingInvariant, PTL
=============================================================================
