--------------------------- MODULE SessionsProofs ---------------------------
(***************************************************************************)
(* Proofs about Sessions, for any number of processes, any options and any *)
(* capacities.                                                             *)
(***************************************************************************)
EXTENDS Sessions, TLAPS

Opening == {"identify", "encode", "decode", "recover", "reset", "lock"}
Using == {"set", "flush", "put", "msync", "unmap"}
Both == {"one", "ro"}

\* What a process has: by where it is in a call, and, when it is in none, by
\* the handle it was left with.
Owns(p) ==
  /\ pc[p] \in {"createMap", "openMap"} => fd[p] /\ win[p] = 0 /\ handle[p] = "none"
  /\ pc[p] \in Opening => fd[p] /\ win[p] > 0 /\ handle[p] = "none"
  /\ pc[p] = "lock" => "one" \in opt[p]
  /\ pc[p] \in Using => fd[p] /\ win[p] > 0 /\ handle[p] = "region"
  /\ pc[p] = "unlock" => ~fd[p] /\ win[p] = 0 /\ handle[p] # "none"
  /\ pc[p] \in {"idle", "unlock"} =>
       /\ handle[p] = "none" => opt[p] = Both \/ (win[p] = 0 /\ ~fd[p])
       /\ handle[p] = "region" => win[p] > 0 \/ (botched[p] /\ ~fd[p])
       /\ handle[p] = "nil" => win[p] = 0 /\ ~fd[p]
  /\ holder = p => pc[p] \in Using \cup {"unlock"} \/ IsOpen(p)

\* A file is empty or has room for the first records, mapped or not; who has
\* got past the header's check has seen the file identified, which it stays.
Complete ==
  /\ fileCap = 0 \/ fileCap >= InitialCapacity
  /\ \A p \in Procs :
       /\ win[p] = 0 \/ win[p] >= InitialCapacity
       /\ handle[p] = "region" \/ pc[p] \in {"encode", "recover", "reset", "lock"} =>
            path = "ready"

IInv == TypeOK /\ (\A p \in Procs : Owns(p)) /\ Complete

LEMMA InitIInv == Init => IInv
<1> SUFFICES ASSUME Init PROVE IInv
  OBVIOUS
<1>1. TypeOK
  <2>1. 0 \in 0 .. MaxCapacity /\ 0 \in 0 .. MaxCount
    BY CapacityAssumption
  <2>2. [count |-> 0, capacity |-> 0] \in [count : 0 .. MaxCount, capacity : 0 .. MaxCapacity]
    BY <2>1
  <2>3. header \in [Procs -> [count : 0 .. MaxCount, capacity : 0 .. MaxCapacity]]
    BY <2>2 DEF Init
  <2>4. win \in [Procs -> 0 .. MaxCapacity] /\ \A p \in Procs : ~(win[p] > 0)
    BY <2>1 DEF Init
  <2> QED BY <2>1, <2>3, <2>4 DEF Init, TypeOK
<1>2. ASSUME NEW p \in Procs PROVE Owns(p)
  BY ProcsAssumption DEF Init, Owns, Opening, Using
<1>3. Complete
  BY DEF Init, Complete
<1> QED BY <1>1, <1>2, <1>3 DEF IInv

ProcStep(p) ==
  OpenStep(p) \/ UseStep(p) \/ CloseStep(p) \/ Finalize(p) \/ Fault(p) \/ Crash(p)

\* what is q's stays as it is, and so does whether q has the lock
Apart(p, q) ==
  /\ pc'[q] = pc[q] /\ opt'[q] = opt[q] /\ closing'[q] = closing[q]
  /\ fd'[q] = fd[q] /\ win'[q] = win[q] /\ handle'[q] = handle[q]
  /\ header'[q] = header[q] /\ botched'[q] = botched[q]
  /\ holder' = q <=> holder = q

(* A step of one process takes nothing from another one.                   *)
LEMMA StepApart ==
  ASSUME TypeOK, NEW p \in Procs, NEW q \in Procs \ {p}, ProcStep(p)
  PROVE  Apart(p, q)
<1> USE ProcsAssumption DEF call, held
<1>1. ASSUME NEW o \in Options, CallCreate(p, o) PROVE Apart(p, q)
  BY <1>1 DEF CallCreate, OpenFile, Goto, Apart, TypeOK
<1>2. ASSUME NEW o \in Options, CallOpen(p, o) PROVE Apart(p, q)
  BY <1>2 DEF CallOpen, OpenFile, Goto, Apart, TypeOK
<1>3. ASSUME CreateMap(p) PROVE Apart(p, q)
  BY <1>3 DEF CreateMap, Goto, Apart, TypeOK
<1>4. ASSUME OpenMap(p) PROVE Apart(p, q)
  BY <1>4 DEF OpenMap, Goto, Apart, TypeOK
<1>5. ASSUME MapFails(p) PROVE Apart(p, q)
  BY <1>5 DEF MapFails, Goto, Apart, TypeOK
<1>6. ASSUME EncodeIdentity(p) PROVE Apart(p, q)
  BY <1>6 DEF EncodeIdentity, Goto, Apart, TypeOK
<1>7. ASSUME EncodeHeader(p) PROVE Apart(p, q)
  BY <1>7 DEF EncodeHeader, Proceed, Apart, TypeOK
<1>8. ASSUME DecodeHeader(p) PROVE Apart(p, q)
  BY <1>8 DEF DecodeHeader, Proceed, Apart, TypeOK
<1>9. ASSUME DecodeFails(p) PROVE Apart(p, q)
  BY <1>9 DEF DecodeFails, Unmapped, Goto, Apart, TypeOK
<1>10. ASSUME RecoverLoad(p) PROVE Apart(p, q)
  BY <1>10 DEF RecoverLoad, Proceed, Apart, TypeOK
<1>11. ASSUME RecoverStore(p) PROVE Apart(p, q)
  BY <1>11 DEF RecoverStore, Proceed, Apart, TypeOK
<1>12. ASSUME RejectOptions(p) PROVE Apart(p, q)
  BY <1>12 DEF RejectOptions, Goto, Apart, TypeOK
<1>13. ASSUME AcquireLock(p) PROVE Apart(p, q)
  BY <1>13 DEF AcquireLock, Goto, Apart, TypeOK
<1>14. ASSUME AcquireLockFails(p) PROVE Apart(p, q)
  BY <1>14 DEF AcquireLockFails, Unmapped, Goto, Apart, TypeOK
<1>15. ASSUME Append(p) PROVE Apart(p, q)
  BY <1>15 DEF Append, MayAppend, IsOpen, Apart, TypeOK
<1>16. ASSUME AppendGrowing(p) PROVE Apart(p, q)
  BY <1>16 DEF AppendGrowing, MustGrow, MayAppend, Remapped, Truncated, Outdating, IsOpen, Doubled, Apart, TypeOK
<1>17. ASSUME SeqBeginWrite(p) PROVE Apart(p, q)
  BY <1>17 DEF SeqBeginWrite, IsOpen, Goto, Apart, TypeOK
<1>18. ASSUME SeqEndWrite(p) PROVE Apart(p, q)
  BY <1>18 DEF SeqEndWrite, Goto, Apart, TypeOK
<1>19. ASSUME CallSync(p) PROVE Apart(p, q)
  BY <1>19 DEF CallSync, IsOpen, Goto, Apart, TypeOK
<1>20. ASSUME CallClose(p) PROVE Apart(p, q)
  BY <1>20 DEF CallClose, IsOpen, Goto, Apart, TypeOK
<1>21. ASSUME FlushLoad(p) PROVE Apart(p, q)
  BY <1>21 DEF FlushLoad, Goto, Apart, TypeOK
<1>22. ASSUME FlushPut(p) PROVE Apart(p, q)
  BY <1>22 DEF FlushPut, Goto, Apart, TypeOK
<1>23. ASSUME Msync(p) PROVE Apart(p, q)
  BY <1>23 DEF Msync, Goto, Apart, TypeOK
<1>24. ASSUME MsyncFails(p) PROVE Apart(p, q)
  BY <1>24 DEF MsyncFails, Goto, Apart, TypeOK
<1>25. ASSUME Unmap(p) PROVE Apart(p, q)
  BY <1>25 DEF Unmap, Unmapped, Goto, Apart, TypeOK
<1>26. ASSUME ReleaseLock(p) PROVE Apart(p, q)
  BY <1>26 DEF ReleaseLock, Unlocked, Goto, Apart, TypeOK
<1>27. ASSUME Finalize(p) PROVE Apart(p, q)
  BY <1>27 DEF Finalize, Unmapped, Apart, TypeOK
<1>28. ASSUME Fault(p) PROVE Apart(p, q)
  BY <1>28 DEF Fault, Dies, Unmapped, Unlocked, Apart, TypeOK
<1>29. ASSUME Crash(p) PROVE Apart(p, q)
  BY <1>29 DEF Crash, Dies, Unmapped, Unlocked, Apart, TypeOK
<1>30. ASSUME AppendFails(p) PROVE Apart(p, q)
  BY <1>30 DEF AppendFails, MustGrow, MayAppend, Truncated, Outdating, Doubled, IsOpen, Apart, TypeOK
<1> QED
  BY <1>1, <1>2, <1>3, <1>4, <1>5, <1>6, <1>7, <1>8, <1>9, <1>10, <1>11, <1>12, <1>13, <1>14, <1>15, <1>16, <1>17, <1>18, <1>19, <1>20, <1>21, <1>22, <1>23, <1>24, <1>25, <1>26, <1>27, <1>28, <1>29, <1>30
     DEF ProcStep, OpenStep, UseStep, CloseStep

LEMMA StepIInv ==
  ASSUME IInv, NEW p \in Procs, ProcStep(p)
  PROVE  IInv'
<1> USE ProcsAssumption, OptionsAssumption, CapacityAssumption
        DEF IInv, file, call, held, Opening, Using
<1>a. ASSUME NEW q \in Procs \ {p} PROVE Owns(q)'
  BY StepApart DEF Owns, Apart, IsOpen
<1>b. TypeOK' /\ Owns(p)' /\ Complete' => IInv'
  BY <1>a
<1>1. ASSUME NEW o \in Options, CallCreate(p, o) PROVE IInv'
  <2>1. TypeOK'
    BY <1>1 DEF CallCreate, OpenFile, Goto, TypeOK, Owns
  <2>2. Owns(p)'
    BY <1>1 DEF CallCreate, OpenFile, Goto, TypeOK, Owns, IsOpen
  <2>3. Complete'
    BY <1>1 DEF CallCreate, OpenFile, Goto, TypeOK, Owns, Complete
  <2> QED BY <1>b, <2>1, <2>2, <2>3
<1>2. ASSUME NEW o \in Options, CallOpen(p, o) PROVE IInv'
  <2>1. TypeOK'
    BY <1>2 DEF CallOpen, OpenFile, Goto, TypeOK, Owns
  <2>2. Owns(p)'
    BY <1>2 DEF CallOpen, OpenFile, Goto, TypeOK, Owns, IsOpen
  <2>3. Complete'
    BY <1>2 DEF CallOpen, OpenFile, Goto, TypeOK, Owns, Complete
  <2> QED BY <1>b, <2>1, <2>2, <2>3
<1>3. ASSUME CreateMap(p) PROVE IInv'
  <2>1. TypeOK'
    BY <1>3 DEF CreateMap, Goto, TypeOK, Owns
  <2>2. Owns(p)'
    BY <1>3 DEF CreateMap, Goto, TypeOK, Owns, IsOpen
  <2>3. Complete'
    BY <1>3 DEF CreateMap, Goto, TypeOK, Owns, Complete
  <2> QED BY <1>b, <2>1, <2>2, <2>3
<1>4. ASSUME OpenMap(p) PROVE IInv'
  <2>1. TypeOK'
    BY <1>4 DEF OpenMap, Goto, TypeOK, Owns
  <2>2. Owns(p)'
    BY <1>4 DEF OpenMap, Goto, TypeOK, Owns, IsOpen
  <2>3. Complete'
    BY <1>4 DEF OpenMap, Goto, TypeOK, Owns, Complete
  <2> QED BY <1>b, <2>1, <2>2, <2>3
<1>5. ASSUME MapFails(p) PROVE IInv'
  <2>1. TypeOK'
    BY <1>5 DEF MapFails, Goto, TypeOK, Owns
  <2>2. Owns(p)'
    BY <1>5 DEF MapFails, Goto, TypeOK, Owns, IsOpen
  <2>3. Complete'
    BY <1>5 DEF MapFails, Goto, TypeOK, Owns, Complete
  <2> QED BY <1>b, <2>1, <2>2, <2>3
<1>6. ASSUME EncodeIdentity(p) PROVE IInv'
  <2>1. TypeOK'
    BY <1>6 DEF EncodeIdentity, Goto, TypeOK, Owns
  <2>2. Owns(p)'
    BY <1>6 DEF EncodeIdentity, Goto, TypeOK, Owns, IsOpen
  <2>3. Complete'
    BY <1>6 DEF EncodeIdentity, Goto, TypeOK, Owns, Complete
  <2> QED BY <1>b, <2>1, <2>2, <2>3
<1>7. ASSUME EncodeHeader(p) PROVE IInv'
  <2>1. TypeOK'
    <3>1. /\ pc' = [pc EXCEPT ![p] = "lock"] \/ pc' = [pc EXCEPT ![p] = "idle"]
          /\ handle' = handle \/ handle' = [handle EXCEPT ![p] = "region"]
      BY <1>7 DEF EncodeHeader, Proceed
    <3>2. 0 \in 0 .. MaxCount /\ InitialCapacity \in 0 .. MaxCapacity
      BY DEF TypeOK
    <3>3. [count |-> 0, capacity |-> InitialCapacity] \in
            [count : 0 .. MaxCount, capacity : 0 .. MaxCapacity]
      BY <3>2
    <3>4. header' \in [Procs -> [count : 0 .. MaxCount, capacity : 0 .. MaxCapacity]]
      BY <1>7, <3>3 DEF EncodeHeader, TypeOK
    <3>5. count' \in 0 .. MaxCount /\ capacity' \in 0 .. MaxCapacity
      BY <1>7, <3>2 DEF EncodeHeader
    <3> QED BY <1>7, <3>1, <3>4, <3>5 DEF EncodeHeader, TypeOK
  <2>2. Owns(p)'
    BY <1>7 DEF EncodeHeader, Proceed, OneWriter, TypeOK, Owns, IsOpen
  <2>3. Complete'
    BY <1>7 DEF EncodeHeader, Proceed, TypeOK, Owns, Complete
  <2> QED BY <1>b, <2>1, <2>2, <2>3
<1>8. ASSUME DecodeHeader(p) PROVE IInv'
  <2>1. TypeOK'
    BY <1>8 DEF DecodeHeader, Proceed, TypeOK, Owns
  <2>2. Owns(p)'
    BY <1>8 DEF DecodeHeader, Proceed, OneWriter, ReadOnly, TypeOK, Owns, IsOpen
  <2>3. Complete'
    BY <1>8 DEF DecodeHeader, Proceed, TypeOK, Owns, Complete
  <2> QED BY <1>b, <2>1, <2>2, <2>3
<1>9. ASSUME DecodeFails(p) PROVE IInv'
  <2>1. TypeOK'
    BY <1>9 DEF DecodeFails, Unmapped, Goto, TypeOK, Owns
  <2>2. Owns(p)'
    BY <1>9 DEF DecodeFails, Unmapped, Goto, TypeOK, Owns, IsOpen
  <2>3. Complete'
    BY <1>9 DEF DecodeFails, Unmapped, Goto, TypeOK, Owns, Complete
  <2> QED BY <1>b, <2>1, <2>2, <2>3
<1>10. ASSUME RecoverLoad(p) PROVE IInv'
  <2>1. TypeOK'
    <3>1. /\ pc' = [pc EXCEPT ![p] = "lock"] \/ pc' = [pc EXCEPT ![p] = "idle"] \/ pc' = [pc EXCEPT ![p] = "reset"]
          /\ handle' = handle \/ handle' = [handle EXCEPT ![p] = "region"]
      BY <1>10 DEF RecoverLoad, Proceed
    <3>2. UNCHANGED <<file, holder, opt, closing, fd, win, header, botched, outdated>>
      BY <1>10 DEF RecoverLoad
    <3>3. pc' \in [Procs -> {"idle", "createMap", "openMap", "identify", "encode", "decode",
                            "recover", "reset", "lock", "set", "flush", "put", "msync",
                            "unmap", "unlock"}]
      BY <3>1 DEF TypeOK
    <3>4. handle' \in [Procs -> {"none", "region", "nil"}]
      BY <3>1 DEF TypeOK
    <3> QED BY <3>2, <3>3, <3>4 DEF TypeOK
  <2>2. Owns(p)'
    BY <1>10 DEF RecoverLoad, Proceed, OneWriter, TypeOK, Owns, IsOpen
  <2>3. Complete'
    BY <1>10 DEF RecoverLoad, Proceed, TypeOK, Owns, Complete
  <2> QED BY <1>b, <2>1, <2>2, <2>3
<1>11. ASSUME RecoverStore(p) PROVE IInv'
  <2>1. TypeOK'
    <3>1. /\ pc' = [pc EXCEPT ![p] = "lock"] \/ pc' = [pc EXCEPT ![p] = "idle"]
          /\ handle' = handle \/ handle' = [handle EXCEPT ![p] = "region"]
      BY <1>11 DEF RecoverStore, Proceed
    <3> QED BY <1>11, <3>1 DEF RecoverStore, TypeOK
  <2>2. Owns(p)'
    <3>1. fd[p] /\ win[p] > 0 /\ handle[p] = "none" /\ holder # p
      BY <1>11 DEF RecoverStore, TypeOK, Owns, IsOpen
    <3>2. CASE OneWriter(p)
      BY <1>11, <3>1, <3>2 DEF RecoverStore, Proceed, OneWriter, TypeOK, Owns
    <3>3. CASE ~OneWriter(p)
      BY <1>11, <3>1, <3>3 DEF RecoverStore, Proceed, TypeOK, Owns
    <3> QED BY <3>2, <3>3
  <2>3. Complete'
    BY <1>11 DEF RecoverStore, Proceed, TypeOK, Owns, Complete
  <2> QED BY <1>b, <2>1, <2>2, <2>3
<1>12. ASSUME RejectOptions(p) PROVE IInv'
  <2>1. TypeOK'
    BY <1>12 DEF RejectOptions, Goto, TypeOK, Owns
  <2>2. Owns(p)'
    <3>1. opt[p] = Both /\ fd[p] /\ win[p] > 0 /\ handle[p] = "none" /\ holder # p
      BY <1>12 DEF RejectOptions, Goto, ReadOnly, Both, TypeOK, Owns, IsOpen
    <3> QED BY <1>12, <3>1 DEF RejectOptions, Goto, TypeOK, Owns
  <2>3. Complete'
    BY <1>12 DEF RejectOptions, Goto, TypeOK, Owns, Complete
  <2> QED BY <1>b, <2>1, <2>2, <2>3
<1>13. ASSUME AcquireLock(p) PROVE IInv'
  <2>1. TypeOK'
    BY <1>13 DEF AcquireLock, Goto, TypeOK, Owns
  <2>2. Owns(p)'
    BY <1>13 DEF AcquireLock, Goto, TypeOK, Owns, IsOpen
  <2>3. Complete'
    BY <1>13 DEF AcquireLock, Goto, TypeOK, Owns, Complete
  <2> QED BY <1>b, <2>1, <2>2, <2>3
<1>14. ASSUME AcquireLockFails(p) PROVE IInv'
  <2>1. TypeOK'
    BY <1>14 DEF AcquireLockFails, Unmapped, Goto, TypeOK, Owns
  <2>2. Owns(p)'
    BY <1>14 DEF AcquireLockFails, Unmapped, Goto, TypeOK, Owns, IsOpen
  <2>3. Complete'
    BY <1>14 DEF AcquireLockFails, Unmapped, Goto, TypeOK, Owns, Complete
  <2> QED BY <1>b, <2>1, <2>2, <2>3
<1>15. ASSUME Append(p) PROVE IInv'
  <2>1. TypeOK'
    BY <1>15 DEF Append, MayAppend, IsOpen, TypeOK, Owns
  <2>2. Owns(p)'
    BY <1>15 DEF Append, MayAppend, IsOpen, TypeOK, Owns, IsOpen
  <2>3. Complete'
    BY <1>15 DEF Append, MayAppend, IsOpen, TypeOK, Owns, Complete
  <2> QED BY <1>b, <2>1, <2>2, <2>3
<1>16. ASSUME AppendGrowing(p) PROVE IInv'
  <2>1. TypeOK'
    <3>1. Doubled(capacity) \in 0 .. MaxCapacity /\ count + 1 \in 0 .. MaxCount
      BY <1>16 DEF AppendGrowing, MustGrow, Doubled, TypeOK
    <3>2. /\ UNCHANGED <<path, odd, holder, call, fd, handle, header, botched>>
          /\ capacity' \in 0 .. MaxCapacity /\ count' \in 0 .. MaxCount
      BY <1>16, <3>1 DEF AppendGrowing
    <3>4. fileCap' \in 0 .. MaxCapacity /\ win' \in [Procs -> 0 .. MaxCapacity]
      BY <1>16, <3>1 DEF AppendGrowing, Remapped, Truncated, TypeOK
    <3>5. \A q \in Procs : win'[q] > 0 => fd'[q]
      <4>1. win[p] > 0 /\ UNCHANGED fd /\ \A q \in Procs : q # p => win'[q] = win[q]
        BY <1>16 DEF AppendGrowing, MustGrow, MayAppend, IsOpen, Remapped, TypeOK
      <4> QED BY <4>1 DEF TypeOK
    <3>3. shrunk' \in BOOLEAN /\ outdated' \in [Procs -> BOOLEAN]
      <4>1. Outdating(Doubled(capacity)) \in [Procs -> BOOLEAN]
        BY DEF Outdating, TypeOK
      <4> QED BY <1>16, <4>1 DEF AppendGrowing, Remapped, Truncated, TypeOK
    <3> QED BY <3>2, <3>3, <3>4, <3>5 DEF TypeOK
  <2>2. Owns(p)'
    BY <1>16 DEF AppendGrowing, MustGrow, MayAppend, Remapped, Truncated, Outdating, IsOpen, Doubled, TypeOK, Owns, IsOpen
  <2>3. Complete'
    BY <1>16 DEF AppendGrowing, MustGrow, MayAppend, Remapped, Truncated, Outdating, IsOpen, Doubled, TypeOK, Owns, Complete
  <2> QED BY <1>b, <2>1, <2>2, <2>3
<1>17. ASSUME SeqBeginWrite(p) PROVE IInv'
  <2>1. TypeOK'
    BY <1>17 DEF SeqBeginWrite, IsOpen, Goto, TypeOK, Owns
  <2>2. Owns(p)'
    BY <1>17 DEF SeqBeginWrite, IsOpen, Goto, TypeOK, Owns, IsOpen
  <2>3. Complete'
    BY <1>17 DEF SeqBeginWrite, IsOpen, Goto, TypeOK, Owns, Complete
  <2> QED BY <1>b, <2>1, <2>2, <2>3
<1>18. ASSUME SeqEndWrite(p) PROVE IInv'
  <2>1. TypeOK'
    BY <1>18 DEF SeqEndWrite, Goto, TypeOK, Owns
  <2>2. Owns(p)'
    BY <1>18 DEF SeqEndWrite, Goto, TypeOK, Owns, IsOpen
  <2>3. Complete'
    BY <1>18 DEF SeqEndWrite, Goto, TypeOK, Owns, Complete
  <2> QED BY <1>b, <2>1, <2>2, <2>3
<1>19. ASSUME CallSync(p) PROVE IInv'
  <2>1. TypeOK'
    BY <1>19 DEF CallSync, IsOpen, Goto, TypeOK, Owns
  <2>2. Owns(p)'
    BY <1>19 DEF CallSync, IsOpen, Goto, TypeOK, Owns, IsOpen
  <2>3. Complete'
    BY <1>19 DEF CallSync, IsOpen, Goto, TypeOK, Owns, Complete
  <2> QED BY <1>b, <2>1, <2>2, <2>3
<1>20. ASSUME CallClose(p) PROVE IInv'
  <2>1. TypeOK'
    BY <1>20 DEF CallClose, IsOpen, Goto, TypeOK, Owns
  <2>2. Owns(p)'
    BY <1>20 DEF CallClose, IsOpen, Goto, ReadOnly, TypeOK, Owns, IsOpen
  <2>3. Complete'
    BY <1>20 DEF CallClose, IsOpen, Goto, TypeOK, Owns, Complete
  <2> QED BY <1>b, <2>1, <2>2, <2>3
<1>21. ASSUME FlushLoad(p) PROVE IInv'
  <2>1. TypeOK'
    BY <1>21 DEF FlushLoad, Goto, TypeOK, Owns
  <2>2. Owns(p)'
    BY <1>21 DEF FlushLoad, Goto, TypeOK, Owns, IsOpen
  <2>3. Complete'
    BY <1>21 DEF FlushLoad, Goto, TypeOK, Owns, Complete
  <2> QED BY <1>b, <2>1, <2>2, <2>3
<1>22. ASSUME FlushPut(p) PROVE IInv'
  <2>1. TypeOK'
    BY <1>22 DEF FlushPut, Goto, TypeOK, Owns
  <2>2. Owns(p)'
    BY <1>22 DEF FlushPut, Goto, TypeOK, Owns, IsOpen
  <2>3. Complete'
    BY <1>22 DEF FlushPut, Goto, TypeOK, Owns, Complete
  <2> QED BY <1>b, <2>1, <2>2, <2>3
<1>23. ASSUME Msync(p) PROVE IInv'
  <2>1. TypeOK'
    BY <1>23 DEF Msync, Goto, TypeOK, Owns
  <2>2. Owns(p)'
    BY <1>23 DEF Msync, Goto, TypeOK, Owns, IsOpen
  <2>3. Complete'
    BY <1>23 DEF Msync, Goto, TypeOK, Owns, Complete
  <2> QED BY <1>b, <2>1, <2>2, <2>3
<1>24. ASSUME MsyncFails(p) PROVE IInv'
  <2>1. TypeOK'
    BY <1>24 DEF MsyncFails, Goto, TypeOK, Owns
  <2>2. Owns(p)'
    BY <1>24 DEF MsyncFails, Goto, TypeOK, Owns, IsOpen
  <2>3. Complete'
    BY <1>24 DEF MsyncFails, Goto, TypeOK, Owns, Complete
  <2> QED BY <1>b, <2>1, <2>2, <2>3
<1>25. ASSUME Unmap(p) PROVE IInv'
  <2>1. TypeOK'
    BY <1>25 DEF Unmap, Unmapped, Goto, TypeOK, Owns
  <2>2. Owns(p)'
    BY <1>25 DEF Unmap, Unmapped, Goto, TypeOK, Owns, IsOpen
  <2>3. Complete'
    BY <1>25 DEF Unmap, Unmapped, Goto, TypeOK, Owns, Complete
  <2> QED BY <1>b, <2>1, <2>2, <2>3
<1>26. ASSUME ReleaseLock(p) PROVE IInv'
  <2>1. TypeOK'
    BY <1>26 DEF ReleaseLock, Unlocked, Goto, TypeOK, Owns
  <2>2. Owns(p)'
    BY <1>26 DEF ReleaseLock, Unlocked, Goto, TypeOK, Owns, IsOpen
  <2>3. Complete'
    BY <1>26 DEF ReleaseLock, Unlocked, Goto, TypeOK, Owns, Complete
  <2> QED BY <1>b, <2>1, <2>2, <2>3
<1>27. ASSUME Finalize(p) PROVE IInv'
  <2>1. TypeOK'
    BY <1>27 DEF Finalize, Unmapped, TypeOK, Owns
  <2>2. Owns(p)'
    BY <1>27 DEF Finalize, Unmapped, TypeOK, Owns, IsOpen
  <2>3. Complete'
    BY <1>27 DEF Finalize, Unmapped, TypeOK, Owns, Complete
  <2> QED BY <1>b, <2>1, <2>2, <2>3
<1>28. ASSUME Fault(p) PROVE IInv'
  <2>1. TypeOK'
    <3>1. odd' \in BOOLEAN
      BY <1>28 DEF Fault, TypeOK
    <3> QED BY <1>28, <3>1 DEF Fault, Dies, Unmapped, Unlocked, TypeOK
  <2>2. Owns(p)'
    BY <1>28 DEF Fault, Dies, Unmapped, Unlocked, TypeOK, Owns, IsOpen
  <2>3. Complete'
    BY <1>28 DEF Fault, Dies, Unmapped, Unlocked, TypeOK, Owns, Complete
  <2> QED BY <1>b, <2>1, <2>2, <2>3
<1>29. ASSUME Crash(p) PROVE IInv'
  <2>1. TypeOK'
    BY <1>29 DEF Crash, Dies, Unmapped, Unlocked, TypeOK, Owns
  <2>2. Owns(p)'
    BY <1>29 DEF Crash, Dies, Unmapped, Unlocked, TypeOK, Owns, IsOpen
  <2>3. Complete'
    BY <1>29 DEF Crash, Dies, Unmapped, Unlocked, TypeOK, Owns, Complete
  <2> QED BY <1>b, <2>1, <2>2, <2>3
<1>30. ASSUME AppendFails(p) PROVE IInv'
  <2>1. TypeOK'
    BY <1>30 DEF AppendFails, MustGrow, MayAppend, Truncated, Outdating, Doubled, IsOpen, TypeOK, Owns
  <2>2. Owns(p)'
    BY <1>30 DEF AppendFails, MustGrow, MayAppend, Truncated, Outdating, Doubled, IsOpen, TypeOK, Owns
  <2>3. Complete'
    BY <1>30 DEF AppendFails, MustGrow, MayAppend, Truncated, Outdating, Doubled, IsOpen, TypeOK, Owns, Complete
  <2> QED BY <1>b, <2>1, <2>2, <2>3
<1> QED
  BY <1>1, <1>2, <1>3, <1>4, <1>5, <1>6, <1>7, <1>8, <1>9, <1>10, <1>11, <1>12, <1>13, <1>14, <1>15, <1>16, <1>17, <1>18, <1>19, <1>20, <1>21, <1>22, <1>23, <1>24, <1>25, <1>26, <1>27, <1>28, <1>29, <1>30
     DEF ProcStep, OpenStep, UseStep, CloseStep

LEMMA IInvInvariant == Spec => []IInv
<1>1. IInv /\ [Next]_vars => IInv'
  <2>1. IInv /\ UNCHANGED vars => IInv'
    BY DEF vars, file, call, held, IInv, TypeOK, Owns, IsOpen, Complete
  <2> QED BY <2>1, StepIInv DEF Next, ProcStep
<1> QED BY <1>1, InitIInv, PTL DEF Spec
-----------------------------------------------------------------------------

(* TypeOK, with the bounds on sizes: in particular, whoever has a mapping  *)
(* also has the file open.                                                 *)
THEOREM TypeCorrect == Spec => []TypeOK
<1>1. IInv => TypeOK
  BY DEF IInv
<1> QED BY <1>1, IInvInvariant, PTL

(* Every error path of CreateStore, OpenStore and Close gives back the     *)
(* descriptor, the mapping and the lock it took.                           *)
THEOREM FailuresGiveBack == Spec => []NothingLeftBehind
<1>1. IInv => NothingLeftBehind
  <2> SUFFICES ASSUME IInv, NEW p \in Procs, pc[p] = "idle", ~IsOpen(p)
               PROVE  /\ holder # p
                      /\ opt[p] # Both => win[p] = 0 /\ ~fd[p]
    BY DEF NothingLeftBehind, Both
  <2>1. Owns(p) /\ handle[p] \in {"none", "region", "nil"} /\ win[p] \in Nat
    BY DEF IInv, TypeOK
  <2>2. holder # p
    BY <2>1 DEF Owns, Using
  <2>3. handle[p] = "region" => win[p] = 0
    BY <2>1 DEF IsOpen
  <2> QED BY <2>1, <2>2, <2>3 DEF Owns
<1> QED BY <1>1, IInvInvariant, PTL

-----------------------------------------------------------------------------
(***************************************************************************)
(* The lengths: of the file, of the mappings, and those the header and its *)
(* copies speak of.                                                        *)
(***************************************************************************)
\* The file is created once, and is empty until Map has extended it.
CreatedOnce ==
  /\ path = "absent" => fileCap = 0 /\ \A p \in Procs : pc[p] # "createMap"
  /\ \A p, q \in Procs : pc[p] = "createMap" => fileCap = 0 /\ (pc[q] = "createMap" => q = p)

Fits(p) ==
  /\ win[p] = 0 => header[p].capacity = 0
  /\ fileCap = 0 => win[p] = 0
  /\ shrunk \/ (win[p] <= fileCap /\ header[p].capacity <= fileCap)
  /\ win[p] > 0 /\ ~outdated[p] => win[p] = fileCap

Sized == CreatedOnce /\ (\A p \in Procs : Fits(p)) /\ (shrunk \/ capacity <= fileCap)

\* p does not begin to create the file
NotCreating(p) == pc'[p] # "createMap" /\ (path' = "absent" => path = "absent")

\* a step of p leaves all lengths alone, or takes from p what it has mapped
Still(p) ==
  /\ NotCreating(p)
  /\ UNCHANGED <<fileCap, shrunk, capacity, win, outdated>>
  /\ header'[p].capacity = header[p].capacity
Released(p) ==
  /\ NotCreating(p)
  /\ UNCHANGED <<fileCap, shrunk, capacity>>
  /\ win'[p] = 0 /\ header'[p].capacity = 0
  /\ \A q \in Procs \ {p} : outdated'[q] = outdated[q]

LEMMA InitSized == Init => Sized
BY DEF Init, Sized, CreatedOnce, Fits

LEMMA StepSized ==
  ASSUME IInv, Sized, NEW p \in Procs, ProcStep(p)
  PROVE  Sized'
<1> USE CapacityAssumption DEF file, call, held
<1>a. \A q \in Procs \ {p} : pc'[q] = pc[q] /\ header'[q] = header[q] /\ win'[q] = win[q]
  BY StepApart DEF Apart, IInv
<1>b. /\ TypeOK /\ Owns(p) /\ Complete
      /\ CreatedOnce /\ (\A q \in Procs : Fits(q)) /\ (shrunk \/ capacity <= fileCap)
  BY DEF IInv, Sized
<1>t. /\ fileCap \in Nat /\ capacity \in Nat /\ shrunk \in BOOLEAN
      /\ \A q \in Procs : win[q] \in Nat /\ header[q].capacity \in Nat /\ outdated[q] \in BOOLEAN
  BY <1>b DEF TypeOK
<1>d. TypeOK
  BY <1>b
<1>c. ASSUME NotCreating(p), fileCap' = fileCap \/ pc[p] = "createMap" \/ win[p] > 0
      PROVE  CreatedOnce'
  <2>1. ASSUME NEW q \in Procs, pc'[q] = "createMap"
        PROVE  q # p /\ pc[q] = "createMap" /\ fileCap' = 0
    BY <1>a, <1>b, <1>c, <1>t, <2>1 DEF NotCreating, CreatedOnce, Fits
  <2>2. path' = "absent" => fileCap' = 0
    BY <1>b, <1>c, <1>t DEF NotCreating, CreatedOnce, Fits
  <2>3. path' = "absent" => \A q \in Procs : pc'[q] # "createMap"
    BY <1>b, <1>c, <2>1 DEF NotCreating, CreatedOnce
  <2> QED BY <1>b, <2>1, <2>2, <2>3 DEF CreatedOnce
<1>s. Still(p) => Sized'
  <2> SUFFICES ASSUME Still(p) PROVE Sized'
    OBVIOUS
  <2>1. ASSUME NEW q \in Procs PROVE Fits(q)'
    BY <1>a, <1>b DEF Still, Fits
  <2> QED BY <1>b, <1>c, <2>1 DEF Still, Sized
<1>r. Released(p) => Sized'
  <2> SUFFICES ASSUME Released(p) PROVE Sized'
    OBVIOUS
  <2>1. ASSUME NEW q \in Procs \ {p} PROVE Fits(q)'
    BY <1>a, <1>b DEF Released, Fits
  <2>2. Fits(p)'
    BY <1>t DEF Released, Fits
  <2> QED BY <1>b, <1>c, <2>1, <2>2 DEF Released, Sized
<1>1. ASSUME NEW o \in Options, CallOpen(p, o) PROVE Sized'
  BY <1>1, <1>d, <1>s DEF CallOpen, OpenFile, Goto, Still, NotCreating, TypeOK
<1>2. ASSUME EncodeIdentity(p) PROVE Sized'
  BY <1>2, <1>d, <1>s DEF EncodeIdentity, Goto, Still, NotCreating, TypeOK
<1>3. ASSUME RecoverLoad(p) PROVE Sized'
  BY <1>3, <1>d, <1>s DEF RecoverLoad, Proceed, Still, NotCreating, TypeOK
<1>4. ASSUME RecoverStore(p) PROVE Sized'
  BY <1>4, <1>d, <1>s DEF RecoverStore, Proceed, Still, NotCreating, TypeOK
<1>5. ASSUME RejectOptions(p) PROVE Sized'
  BY <1>5, <1>d, <1>s DEF RejectOptions, Goto, Still, NotCreating, TypeOK
<1>6. ASSUME AcquireLock(p) PROVE Sized'
  BY <1>6, <1>d, <1>s DEF AcquireLock, Goto, Still, NotCreating, TypeOK
<1>7. ASSUME Append(p) PROVE Sized'
  BY <1>7, <1>d, <1>s DEF Append, MayAppend, IsOpen, Still, NotCreating, TypeOK
<1>8. ASSUME SeqBeginWrite(p) PROVE Sized'
  BY <1>8, <1>d, <1>s DEF SeqBeginWrite, Goto, Still, NotCreating, TypeOK
<1>9. ASSUME SeqEndWrite(p) PROVE Sized'
  BY <1>9, <1>d, <1>s DEF SeqEndWrite, Goto, Still, NotCreating, TypeOK
<1>10. ASSUME CallSync(p) PROVE Sized'
  BY <1>10, <1>d, <1>s DEF CallSync, Goto, Still, NotCreating, TypeOK
<1>11. ASSUME CallClose(p) PROVE Sized'
  BY <1>11, <1>d, <1>s DEF CallClose, Goto, Still, NotCreating, TypeOK
<1>12. ASSUME FlushLoad(p) PROVE Sized'
  BY <1>12, <1>d, <1>s DEF FlushLoad, Goto, Still, NotCreating, TypeOK
<1>13. ASSUME Msync(p) PROVE Sized'
  BY <1>13, <1>d, <1>s DEF Msync, Goto, Still, NotCreating, TypeOK
<1>14. ASSUME MsyncFails(p) PROVE Sized'
  BY <1>14, <1>d, <1>s DEF MsyncFails, Goto, Still, NotCreating, TypeOK
<1>15. ASSUME ReleaseLock(p) PROVE Sized'
  BY <1>15, <1>d, <1>s DEF ReleaseLock, Goto, Still, NotCreating, TypeOK
<1>16. ASSUME DecodeFails(p) PROVE Sized'
  BY <1>16, <1>d, <1>r DEF DecodeFails, Unmapped, Goto, Released, NotCreating, TypeOK
<1>17. ASSUME AcquireLockFails(p) PROVE Sized'
  BY <1>17, <1>d, <1>r DEF AcquireLockFails, Unmapped, Goto, Released, NotCreating, TypeOK
<1>18. ASSUME Unmap(p) PROVE Sized'
  BY <1>18, <1>d, <1>r DEF Unmap, Unmapped, Goto, Released, NotCreating, TypeOK
<1>19. ASSUME Finalize(p) PROVE Sized'
  BY <1>19, <1>d, <1>r DEF Finalize, Unmapped, Released, NotCreating, TypeOK
<1>20. ASSUME Fault(p) PROVE Sized'
  BY <1>20, <1>d, <1>r DEF Fault, Dies, Unmapped, Released, NotCreating, TypeOK
<1>21. ASSUME Crash(p) PROVE Sized'
  BY <1>21, <1>d, <1>r DEF Crash, Dies, Unmapped, Released, NotCreating, TypeOK
<1>22. ASSUME NEW o \in Options, CallCreate(p, o) PROVE Sized'
  <2>1. /\ path = "absent" /\ path' = "blank" /\ pc'[p] = "createMap"
        /\ UNCHANGED <<fileCap, shrunk, capacity, win, header, outdated>>
    BY <1>22, <1>b DEF CallCreate, OpenFile, Goto, TypeOK
  <2>2. fileCap = 0 /\ \A q \in Procs : pc'[q] = "createMap" => q = p
    BY <1>a, <1>b, <2>1 DEF CreatedOnce
  <2>3. CreatedOnce'
    BY <2>1, <2>2 DEF CreatedOnce
  <2>4. \A q \in Procs : Fits(q)'
    BY <1>b, <2>1 DEF Fits
  <2> QED BY <1>b, <2>1, <2>3, <2>4 DEF Sized
<1>23. ASSUME CreateMap(p) PROVE Sized'
  <2>1. /\ pc[p] = "createMap" /\ NotCreating(p)
        /\ fileCap' = InitialCapacity /\ win'[p] = InitialCapacity
        /\ UNCHANGED <<shrunk, capacity, header, outdated>>
    BY <1>23, <1>b DEF CreateMap, Goto, NotCreating, TypeOK
  <2>2. fileCap = 0 /\ \A q \in Procs : win[q] = 0
    BY <1>b, <2>1 DEF CreatedOnce, Fits
  <2>3. \A q \in Procs : header[q].capacity = 0 /\ (q # p => win'[q] = 0)
    BY <1>a, <1>b, <2>2 DEF Fits
  <2>4. ASSUME NEW q \in Procs PROVE Fits(q)'
    BY <1>t, <2>1, <2>3 DEF Fits
  <2>5. shrunk \/ capacity <= fileCap'
    BY <1>b, <1>t, <2>2, <2>1
  <2> QED BY <1>c, <2>1, <2>4, <2>5 DEF Sized
<1>24. ASSUME OpenMap(p) PROVE Sized'
  <2>1. /\ NotCreating(p) /\ win'[p] = fileCap /\ win[p] = 0 /\ fileCap > 0
        /\ UNCHANGED <<fileCap, shrunk, capacity, header, outdated>>
    BY <1>24, <1>b DEF OpenMap, Goto, NotCreating, TypeOK, Owns
  <2>2. ASSUME NEW q \in Procs \ {p} PROVE Fits(q)'
    BY <1>a, <1>b, <2>1 DEF Fits
  <2>3. Fits(p)'
    BY <1>b, <1>t, <2>1 DEF Fits
  <2> QED BY <1>b, <1>c, <2>1, <2>2, <2>3 DEF Sized
<1>25. ASSUME MapFails(p) PROVE Sized'
  <2>1. /\ NotCreating(p)
        /\ fileCap' = fileCap \/ (pc[p] = "createMap" /\ fileCap' = InitialCapacity)
        /\ UNCHANGED <<shrunk, capacity, win, header, outdated>>
    BY <1>25, <1>b DEF MapFails, Goto, NotCreating, TypeOK
  <2>2. CASE fileCap' = fileCap
    BY <1>s, <2>1, <2>2 DEF Still
  <2>3. CASE pc[p] = "createMap" /\ fileCap' = InitialCapacity
    <3>1. fileCap = 0 /\ \A q \in Procs : win[q] = 0 /\ header[q].capacity = 0
      BY <1>b, <2>3 DEF CreatedOnce, Fits
    <3>2. ASSUME NEW q \in Procs PROVE Fits(q)'
      BY <1>t, <2>1, <2>3, <3>1 DEF Fits
    <3>3. shrunk \/ capacity <= fileCap'
      BY <1>b, <1>t, <2>3, <3>1
    <3> QED BY <1>c, <2>1, <2>3, <3>2, <3>3 DEF Sized
  <2> QED BY <2>1, <2>2, <2>3
<1>26. ASSUME EncodeHeader(p) PROVE Sized'
  <2>1. /\ NotCreating(p) /\ win[p] > 0
        /\ capacity' = InitialCapacity /\ header'[p].capacity = InitialCapacity
        /\ UNCHANGED <<fileCap, shrunk, win, outdated>>
    BY <1>26, <1>b DEF EncodeHeader, Proceed, NotCreating, TypeOK, Owns, Opening
  <2>2. InitialCapacity <= fileCap
    BY <1>b, <1>t, <2>1 DEF Complete, Fits
  <2>3. ASSUME NEW q \in Procs \ {p} PROVE Fits(q)'
    BY <1>a, <1>b, <2>1 DEF Fits
  <2>4. Fits(p)'
    BY <1>b, <1>t, <2>1, <2>2 DEF Fits
  <2> QED BY <1>c, <2>1, <2>2, <2>3, <2>4 DEF Sized
<1>27. ASSUME DecodeHeader(p) PROVE Sized'
  <2>1. /\ NotCreating(p) /\ win[p] > 0
        /\ header'[p].capacity = capacity
        /\ UNCHANGED <<fileCap, shrunk, capacity, win, outdated>>
    BY <1>27, <1>b DEF DecodeHeader, Proceed, NotCreating, TypeOK, Owns, Opening
  <2>2. ASSUME NEW q \in Procs \ {p} PROVE Fits(q)'
    BY <1>a, <1>b, <2>1 DEF Fits
  <2>3. Fits(p)'
    BY <1>b, <1>t, <2>1 DEF Fits
  <2> QED BY <1>b, <1>c, <2>1, <2>2, <2>3 DEF Sized
<1>28. ASSUME FlushPut(p) PROVE Sized'
  <2>1. /\ NotCreating(p) /\ capacity' = header[p].capacity
        /\ UNCHANGED <<fileCap, shrunk, win, header, outdated>>
    BY <1>28, <1>b DEF FlushPut, Goto, NotCreating, TypeOK
  <2>2. ASSUME NEW q \in Procs PROVE Fits(q)'
    BY <1>b, <2>1 DEF Fits
  <2> QED BY <1>b, <1>c, <2>1, <2>2 DEF Sized, Fits
<1>29. ASSUME AppendGrowing(p) PROVE Sized'
  <2> DEFINE newCap == Doubled(capacity)
  <2>1. /\ NotCreating(p) /\ win[p] > 0 /\ capacity' = newCap /\ UNCHANGED header
        /\ newCap \in Nat
        /\ \/ newCap > win[p] /\ Remapped(p, newCap)
           \/ ~(newCap > win[p]) /\ UNCHANGED <<fileCap, shrunk, win, outdated>>
    BY <1>29, <1>b, <1>t DEF AppendGrowing, MustGrow, MayAppend, IsOpen, Doubled, NotCreating, TypeOK
  <2> HIDE DEF newCap
  <2>2. CASE newCap > win[p] /\ Remapped(p, newCap)
    <3>1. /\ fileCap' = newCap /\ win'[p] = newCap /\ newCap > 0
          /\ shrunk' = (shrunk \/ newCap < fileCap)
      BY <1>d, <1>t, <2>1, <2>2 DEF Remapped, Truncated, TypeOK
    <3>4. newCap < fileCap \/ fileCap <= newCap
      BY <1>t, <2>1
    <3>5. shrunk' \/ (~shrunk /\ fileCap <= newCap)
      BY <3>1, <3>4
    <3>2. ASSUME NEW q \in Procs \ {p} PROVE Fits(q)'
      <4>1. ~outdated'[q] => ~outdated[q] /\ ~(win[q] > 0 /\ newCap # fileCap)
        BY <2>2, Zenon DEF Remapped, Outdating
      <4> QED BY <1>a, <1>b, <1>t, <2>1, <3>1, <3>5, <4>1 DEF Fits
    <3>3. Fits(p)'
      BY <1>b, <1>t, <2>1, <3>1, <3>5 DEF Fits
    <3> QED BY <1>c, <1>t, <2>1, <3>1, <3>2, <3>3 DEF Sized
  <2>3. CASE ~(newCap > win[p]) /\ UNCHANGED <<fileCap, shrunk, win, outdated>>
    <3>1. ASSUME NEW q \in Procs PROVE Fits(q)'
      BY <1>b, <2>1, <2>3 DEF Fits
    <3>2. shrunk \/ newCap <= fileCap
      BY <1>b, <1>t, <2>1, <2>3 DEF Fits
    <3> QED BY <1>c, <2>1, <2>3, <3>1, <3>2 DEF Sized
  <2> QED BY <2>1, <2>2, <2>3
<1>30. ASSUME AppendFails(p) PROVE Sized'
  <2> DEFINE newCap == Doubled(capacity)
  <2>1. /\ NotCreating(p) /\ win[p] > 0 /\ newCap > win[p] /\ newCap \in Nat
        /\ fileCap' = newCap /\ Truncated(newCap) /\ outdated' = Outdating(newCap)
        /\ UNCHANGED <<capacity, header, win>>
    BY <1>30, <1>b, <1>t DEF AppendFails, MustGrow, MayAppend, IsOpen, Doubled, Truncated, NotCreating, TypeOK
  <2> HIDE DEF newCap
  <2>2. shrunk' \/ (~shrunk /\ fileCap <= newCap)
    <3>1. shrunk' = (shrunk \/ newCap < fileCap)
      BY <2>1 DEF Truncated
    <3>2. newCap < fileCap \/ fileCap <= newCap
      BY <1>t, <2>1
    <3> QED BY <3>1, <3>2
  <2>3. ASSUME NEW q \in Procs PROVE Fits(q)'
    <3>1. ~outdated'[q] => ~outdated[q] /\ ~(win[q] > 0 /\ newCap # fileCap)
      BY <2>1, Zenon DEF Outdating
    <3> QED BY <1>b, <1>t, <2>1, <2>2, <3>1 DEF Fits
  <2> QED BY <1>b, <1>c, <1>t, <2>1, <2>2, <2>3 DEF Sized
<1> QED
  BY <1>1, <1>2, <1>3, <1>4, <1>5, <1>6, <1>7, <1>8, <1>9, <1>10, <1>11, <1>12, <1>13, <1>14, <1>15, <1>16, <1>17, <1>18, <1>19, <1>20, <1>21, <1>22, <1>23, <1>24, <1>25, <1>26, <1>27, <1>28, <1>29, <1>30
     DEF ProcStep, OpenStep, UseStep, CloseStep

(* Nothing else kills a process than what FaultsExplained names: whatever  *)
(* processes do, fail and die, an accessor and the recovery scan find      *)
(* every live record mapped and in the file, as long as the mapping is of  *)
(* the file's length, no growth has cut the file and the header holds no   *)
(* capacity below its count.                                               *)
THEOREM AccessesExplained == Spec => []FaultsExplained
<1>1. IInv /\ Sized => FaultsExplained
  <2> SUFFICES ASSUME IInv, Sized, NEW p \in Procs
               PROVE  /\ RegionGone(p) => botched[p]
                      /\ PastMapping(p) => outdated[p] \/ shrunk \/ count > capacity
    BY DEF FaultsExplained
  <2>1. TypeOK /\ Owns(p) /\ Fits(p) /\ (shrunk \/ capacity <= fileCap)
    BY DEF IInv, Sized
  <2>2. RegionGone(p) => botched[p]
    BY <2>1 DEF RegionGone, Owns, TypeOK
  <2>3. PastMapping(p) => win[p] > 0
    BY <2>1 DEF PastMapping, IsOpen, Owns, Opening
  <2>4. /\ fileCap \in Nat /\ capacity \in Nat /\ count \in Nat /\ win[p] \in Nat
        /\ PastMapping(p) => ~(count <= win[p] /\ count <= fileCap)
    BY <2>1, CapacityAssumption DEF TypeOK, PastMapping, RecordsMappedBy
  <2> QED BY <2>1, <2>2, <2>3, <2>4 DEF Fits
<1>2. IInv /\ Sized /\ [Next]_vars => Sized'
  <2>1. Sized /\ UNCHANGED vars => Sized'
    BY DEF vars, file, call, held, Sized, CreatedOnce, Fits
  <2> QED BY <2>1, StepSized DEF Next, ProcStep
<1> QED BY <1>1, <1>2, InitSized, IInvInvariant, PTL DEF Spec

(* Nobody gets a store on a file that does not have the magic number and   *)
(* the hash of the schema, nor without room for the first records.         *)
THEOREM OpensIdentified == Spec => []OpenedIdentified
<1>1. IInv => OpenedIdentified
  BY DEF IInv, TypeOK, Complete, OpenedIdentified
<1> QED BY <1>1, IInvInvariant, PTL
-----------------------------------------------------------------------------
(***************************************************************************)
(* With WithOneWriter everywhere.                                          *)
(***************************************************************************)
\* callers open for writing only with WithOneWriter
WritersLock == \A o \in Options : "one" \in o \/ "ro" \in o

\* Who is inside has the lock, and nothing but its own appends has moved the
\* count since its flush has loaded it.
Alone(p) ==
  /\ p \in Inside => holder = p
  /\ handle[p] = "region" \/ pc[p] # "idle" => "one" \in opt[p] \/ "ro" \in opt[p]
  /\ pc[p] = "put" /\ ~ReadOnly(p) => header[p].count = count
  /\ pc[p] \in Creating => count = 0

\* There are no records before the file is there.
CreatedAlone == path = "absent" => count = 0

OneInv == (\A p \in Procs : Alone(p)) /\ CreatedAlone

LEMMA InitOneInv == Init => OneInv
BY DEF Init, OneInv, Alone, CreatedAlone, Creating, Inside

\* where nobody is in CreateStore, which writes a count of 0
NobodyCreates == \A q \in Procs : pc[q] \notin Creating

(* Only an Append of the process inside changes the count, while nobody is *)
(* in CreateStore.                                                         *)
LEMMA CountMoves ==
  ASSUME CreatedFirst, IInv, OneInv, NEW p \in Procs, ProcStep(p)
  PROVE  count' = count \/ (p \in Inside /\ count' = count + 1 /\ NobodyCreates)
<1> USE DEF IInv, OneInv, file, call, held
<1>1. ASSUME NEW o \in Options, CallCreate(p, o) PROVE count' = count
  BY <1>1 DEF CallCreate, OpenFile, Goto
<1>2. ASSUME NEW o \in Options, CallOpen(p, o) PROVE count' = count
  BY <1>2 DEF CallOpen, OpenFile, Goto
<1>3. ASSUME CreateMap(p) PROVE count' = count
  BY <1>3 DEF CreateMap, Goto
<1>4. ASSUME OpenMap(p) PROVE count' = count
  BY <1>4 DEF OpenMap, Goto
<1>5. ASSUME MapFails(p) PROVE count' = count
  BY <1>5 DEF MapFails, Goto
<1>6. ASSUME EncodeIdentity(p) PROVE count' = count
  BY <1>6 DEF EncodeIdentity, Goto
<1>7. ASSUME EncodeHeader(p) PROVE count' = count
  BY <1>7 DEF EncodeHeader, Alone, Creating
<1>8. ASSUME DecodeHeader(p) PROVE count' = count
  BY <1>8 DEF DecodeHeader, Proceed
<1>9. ASSUME DecodeFails(p) PROVE count' = count
  BY <1>9 DEF DecodeFails, Unmapped, Goto
<1>10. ASSUME RecoverLoad(p) PROVE count' = count
  BY <1>10 DEF RecoverLoad, Proceed
<1>11. ASSUME RecoverStore(p) PROVE count' = count
  BY <1>11 DEF RecoverStore, Proceed
<1>12. ASSUME RejectOptions(p) PROVE count' = count
  BY <1>12 DEF RejectOptions, Goto
<1>13. ASSUME AcquireLock(p) PROVE count' = count
  BY <1>13 DEF AcquireLock, Goto
<1>14. ASSUME AcquireLockFails(p) PROVE count' = count
  BY <1>14 DEF AcquireLockFails, Unmapped, Goto
<1>15. ASSUME Append(p) PROVE p \in Inside /\ count' = count + 1 /\ NobodyCreates
  BY <1>15 DEF Append, MayAppend, IsOpen, ReadOnly, OneWriter, Inside, Alone, NobodyCreates
<1>16. ASSUME AppendGrowing(p) PROVE p \in Inside /\ count' = count + 1 /\ NobodyCreates
  BY <1>16 DEF AppendGrowing, MustGrow, MayAppend, Remapped, Truncated, Outdating, IsOpen, ReadOnly, OneWriter, Inside, Alone, NobodyCreates
<1>17. ASSUME SeqBeginWrite(p) PROVE count' = count
  BY <1>17 DEF SeqBeginWrite, IsOpen, Goto
<1>18. ASSUME SeqEndWrite(p) PROVE count' = count
  BY <1>18 DEF SeqEndWrite, Goto
<1>19. ASSUME CallSync(p) PROVE count' = count
  BY <1>19 DEF CallSync, IsOpen, Goto
<1>20. ASSUME CallClose(p) PROVE count' = count
  BY <1>20 DEF CallClose, IsOpen, Goto
<1>21. ASSUME FlushLoad(p) PROVE count' = count
  BY <1>21 DEF FlushLoad, Goto
<1>22. ASSUME FlushPut(p) PROVE count' = count
  BY <1>22 DEF FlushPut, Goto, Alone
<1>23. ASSUME Msync(p) PROVE count' = count
  BY <1>23 DEF Msync, Goto
<1>24. ASSUME MsyncFails(p) PROVE count' = count
  BY <1>24 DEF MsyncFails, Goto
<1>25. ASSUME Unmap(p) PROVE count' = count
  BY <1>25 DEF Unmap, Unmapped, Goto
<1>26. ASSUME ReleaseLock(p) PROVE count' = count
  BY <1>26 DEF ReleaseLock, Unlocked, Goto
<1>27. ASSUME Finalize(p) PROVE count' = count
  BY <1>27 DEF Finalize, Unmapped
<1>28. ASSUME Fault(p) PROVE count' = count
  BY <1>28 DEF Fault, Dies, Unmapped, Unlocked
<1>29. ASSUME Crash(p) PROVE count' = count
  BY <1>29 DEF Crash, Dies, Unmapped, Unlocked
<1>30. ASSUME AppendFails(p) PROVE count' = count
  BY <1>30 DEF AppendFails, MustGrow, MayAppend, Truncated, Outdating, Doubled, IsOpen
<1> QED
  BY <1>1, <1>2, <1>3, <1>4, <1>5, <1>6, <1>7, <1>8, <1>9, <1>10, <1>11, <1>12, <1>13, <1>14, <1>15, <1>16, <1>17, <1>18, <1>19, <1>20, <1>21, <1>22, <1>23, <1>24, <1>25, <1>26, <1>27, <1>28, <1>29, <1>30
     DEF ProcStep, OpenStep, UseStep, CloseStep

(* Only p comes in, taking the lock, or goes, by closing or dying.         *)
LEMMA InsideMoves ==
  ASSUME IInv, OneInv, NEW p \in Procs, ProcStep(p)
  PROVE  \/ Inside' = Inside
         \/ holder = None /\ Inside' = Inside \cup {p} /\ count' = count
         \/ p \in Inside /\ Inside' = Inside \ {p} /\ count' = count
<1> USE ProcsAssumption, OptionsAssumption DEF IInv, OneInv, file, call, held
<1>a. \A q \in Procs \ {p} : (q \in Inside)' <=> q \in Inside
  BY StepApart DEF Apart, Inside, OneWriter, ReadOnly
<1>b. Inside \subseteq Procs /\ Inside' \subseteq Procs
  BY DEF Inside
<1>c. /\ ((p \in Inside)' <=> p \in Inside) => Inside' = Inside
      /\ (p \in Inside)' => Inside' = Inside \cup {p}
      /\ ~(p \in Inside)' => Inside' = Inside \ {p}
  <2> HIDE DEF IInv, OneInv, Inside
  <2>1. ASSUME NEW q, q # p PROVE q \in Inside' <=> q \in Inside
    <3>1. CASE q \in Procs
      BY <1>a, <3>1, <2>1
    <3>2. CASE q \notin Procs
      BY <1>b, <3>2
    <3> QED BY <3>1, <3>2
  <2>2. ASSUME (p \in Inside)' <=> p \in Inside PROVE Inside' = Inside
    <3>1. Inside' \subseteq Inside /\ Inside \subseteq Inside'
      BY <2>1, <2>2
    <3> QED BY <3>1
  <2>3. ASSUME (p \in Inside)' PROVE Inside' = Inside \cup {p}
    BY <2>1, <2>3
  <2>4. ASSUME ~(p \in Inside)' PROVE Inside' = Inside \ {p}
    BY <2>1, <2>4
  <2> QED BY <2>2, <2>3, <2>4
<1>1. ASSUME NEW o \in Options, CallCreate(p, o) PROVE (p \in Inside)' <=> p \in Inside
  BY <1>1 DEF CallCreate, OpenFile, Goto, TypeOK, Owns, Opening, Alone, Inside, OneWriter, ReadOnly, IsOpen
<1>2. ASSUME NEW o \in Options, CallOpen(p, o) PROVE (p \in Inside)' <=> p \in Inside
  BY <1>2 DEF CallOpen, OpenFile, Goto, TypeOK, Owns, Opening, Alone, Inside, OneWriter, ReadOnly, IsOpen
<1>3. ASSUME CreateMap(p) PROVE (p \in Inside)' <=> p \in Inside
  BY <1>3 DEF CreateMap, Goto, TypeOK, Owns, Opening, Alone, Inside, OneWriter, ReadOnly, IsOpen
<1>4. ASSUME OpenMap(p) PROVE (p \in Inside)' <=> p \in Inside
  BY <1>4 DEF OpenMap, Goto, TypeOK, Owns, Opening, Alone, Inside, OneWriter, ReadOnly, IsOpen
<1>5. ASSUME MapFails(p) PROVE (p \in Inside)' <=> p \in Inside
  BY <1>5 DEF MapFails, Goto, Inside, OneWriter, ReadOnly
<1>6. ASSUME EncodeIdentity(p) PROVE (p \in Inside)' <=> p \in Inside
  BY <1>6 DEF EncodeIdentity, Goto, Inside, OneWriter, ReadOnly
<1>7. ASSUME EncodeHeader(p) PROVE (p \in Inside)' <=> p \in Inside
  BY <1>7 DEF EncodeHeader, Proceed, Goto, TypeOK, Owns, Opening, Alone, Inside, OneWriter, ReadOnly, IsOpen
<1>8. ASSUME DecodeHeader(p) PROVE (p \in Inside)' <=> p \in Inside
  BY <1>8 DEF DecodeHeader, Proceed, Goto, TypeOK, Owns, Opening, Alone, Inside, OneWriter, ReadOnly, IsOpen
<1>9. ASSUME DecodeFails(p) PROVE (p \in Inside)' <=> p \in Inside
  BY <1>9 DEF DecodeFails, Unmapped, Goto, TypeOK, Owns, Opening, Alone, Inside, OneWriter, ReadOnly, IsOpen
<1>10. ASSUME RecoverLoad(p) PROVE (p \in Inside)' <=> p \in Inside
  BY <1>10 DEF RecoverLoad, Proceed, Goto, TypeOK, Owns, Opening, Alone, Inside, OneWriter, ReadOnly, IsOpen
<1>11. ASSUME RecoverStore(p) PROVE (p \in Inside)' <=> p \in Inside
  BY <1>11 DEF RecoverStore, Proceed, Goto, TypeOK, Owns, Opening, Alone, Inside, OneWriter, ReadOnly, IsOpen
<1>12. ASSUME RejectOptions(p) PROVE (p \in Inside)' <=> p \in Inside
  BY <1>12 DEF RejectOptions, Goto, Inside, OneWriter, ReadOnly
<1>13. ASSUME AcquireLock(p) PROVE holder = None /\ (p \in Inside)' /\ count' = count
  BY <1>13 DEF AcquireLock, Goto, TypeOK, Owns, Opening, Alone, Inside, OneWriter, ReadOnly
<1>14. ASSUME AcquireLockFails(p) PROVE (p \in Inside)' <=> p \in Inside
  BY <1>14 DEF AcquireLockFails, Unmapped, Goto, TypeOK, Owns, Opening, Alone, Inside, OneWriter, ReadOnly, IsOpen
<1>15. ASSUME Append(p) PROVE (p \in Inside)' <=> p \in Inside
  BY <1>15 DEF Append, MayAppend, IsOpen, Goto, Inside, OneWriter, ReadOnly
<1>16. ASSUME AppendGrowing(p) PROVE (p \in Inside)' <=> p \in Inside
  <2>1. win[p] > 0 /\ (win'[p] = win[p] \/ win'[p] > win[p]) /\ win[p] \in Nat /\ win'[p] \in Nat
    BY <1>16, CapacityAssumption DEF AppendGrowing, MustGrow, MayAppend, Remapped, Truncated, Outdating, IsOpen, Doubled, TypeOK
  <2>2. UNCHANGED <<pc, opt, handle>>
    BY <1>16 DEF AppendGrowing
  <2> QED BY <2>1, <2>2 DEF Inside, OneWriter, ReadOnly, IsOpen
<1>17. ASSUME SeqBeginWrite(p) PROVE (p \in Inside)' <=> p \in Inside
  BY <1>17 DEF SeqBeginWrite, IsOpen, Goto, Inside, OneWriter, ReadOnly
<1>18. ASSUME SeqEndWrite(p) PROVE (p \in Inside)' <=> p \in Inside
  BY <1>18 DEF SeqEndWrite, Goto, Inside, OneWriter, ReadOnly
<1>19. ASSUME CallSync(p) PROVE (p \in Inside)' <=> p \in Inside
  BY <1>19 DEF CallSync, IsOpen, Goto, Inside, OneWriter, ReadOnly
<1>20. ASSUME CallClose(p) PROVE (p \in Inside)' <=> p \in Inside
  BY <1>20 DEF CallClose, IsOpen, Goto, Inside, OneWriter, ReadOnly
<1>21. ASSUME FlushLoad(p) PROVE (p \in Inside)' <=> p \in Inside
  BY <1>21 DEF FlushLoad, Goto, Inside, OneWriter, ReadOnly
<1>22. ASSUME FlushPut(p) PROVE (p \in Inside)' <=> p \in Inside
  BY <1>22 DEF FlushPut, Goto, Inside, OneWriter, ReadOnly
<1>23. ASSUME Msync(p) PROVE (p \in Inside)' <=> p \in Inside
  BY <1>23 DEF Msync, Goto, Inside, OneWriter, ReadOnly
<1>24. ASSUME MsyncFails(p) PROVE (p \in Inside)' <=> p \in Inside
  BY <1>24 DEF MsyncFails, Goto, Inside, OneWriter, ReadOnly
<1>25. ASSUME Unmap(p) PROVE ~(p \in Inside)' /\ count' = count
  BY <1>25 DEF Unmap, Unmapped, Goto, TypeOK, Inside, OneWriter, ReadOnly
<1>26. ASSUME ReleaseLock(p) PROVE (p \in Inside)' <=> p \in Inside
  BY <1>26 DEF ReleaseLock, Unlocked, Goto, Inside, OneWriter, ReadOnly
<1>27. ASSUME Finalize(p) PROVE (p \in Inside)' <=> p \in Inside
  BY <1>27 DEF Finalize, Unmapped, Goto, TypeOK, Owns, Opening, Alone, Inside, OneWriter, ReadOnly, IsOpen
<1>28. ASSUME Fault(p) PROVE ~(p \in Inside)' /\ count' = count
  BY <1>28 DEF Fault, Dies, Unmapped, Unlocked, TypeOK, Inside, OneWriter, ReadOnly
<1>29. ASSUME Crash(p) PROVE ~(p \in Inside)' /\ count' = count
  BY <1>29 DEF Crash, Dies, Unmapped, Unlocked, TypeOK, Inside, OneWriter, ReadOnly
<1>30. ASSUME AppendFails(p) PROVE (p \in Inside)' <=> p \in Inside
  BY <1>30 DEF AppendFails, Inside, OneWriter, ReadOnly, IsOpen
<1>d. \/ (p \in Inside)' <=> p \in Inside
      \/ holder = None /\ (p \in Inside)' /\ count' = count
      \/ ~(p \in Inside)' /\ count' = count
  <2> HIDE DEF IInv, OneInv, Inside
  <2> QED
    BY <1>1, <1>2, <1>3, <1>4, <1>5, <1>6, <1>7, <1>8, <1>9, <1>10, <1>11, <1>12, <1>13, <1>14, <1>15, <1>16, <1>17, <1>18, <1>19, <1>20, <1>21, <1>22, <1>23, <1>24, <1>25, <1>26, <1>27, <1>28, <1>29, <1>30
       DEF ProcStep, OpenStep, UseStep, CloseStep
<1> HIDE DEF IInv, OneInv, Inside
<1> QED BY <1>c, <1>d

(* A step of p keeps what Alone says of p itself.                          *)
LEMMA AloneMoves ==
  ASSUME WritersLock, IInv, OneInv, NEW p \in Procs, ProcStep(p)
  PROVE  Alone(p)'
<1> USE ProcsAssumption, OptionsAssumption DEF WritersLock, file, call, held
<1>a. TypeOK /\ Owns(p) /\ Alone(p) /\ CreatedAlone
  BY DEF IInv, OneInv
<1> USE <1>a DEF TypeOK, Owns
<1>1. ASSUME NEW o \in Options, CallCreate(p, o) PROVE Alone(p)'
  BY <1>1 DEF CallCreate, OpenFile, Goto, Alone, Inside, OneWriter, ReadOnly, Creating, IsOpen, Opening, Using, CreatedAlone, WritersLock
<1>2. ASSUME NEW o \in Options, CallOpen(p, o) PROVE Alone(p)'
  BY <1>2 DEF CallOpen, OpenFile, Goto, Alone, Inside, OneWriter, ReadOnly, Creating, IsOpen, Opening, Using, WritersLock
<1>3. ASSUME CreateMap(p) PROVE Alone(p)'
  BY <1>3 DEF CreateMap, Goto, Alone, Inside, OneWriter, ReadOnly, Creating, IsOpen, Opening, Using
<1>4. ASSUME OpenMap(p) PROVE Alone(p)'
  BY <1>4 DEF OpenMap, Goto, Alone, Inside, OneWriter, ReadOnly, Creating, IsOpen, Opening, Using
<1>5. ASSUME MapFails(p) PROVE Alone(p)'
  BY <1>5 DEF MapFails, Goto, Alone, Inside, OneWriter, ReadOnly, Creating, IsOpen, Opening, Using
<1>6. ASSUME EncodeIdentity(p) PROVE Alone(p)'
  BY <1>6 DEF EncodeIdentity, Goto, Alone, Inside, OneWriter, ReadOnly, Creating, IsOpen, Opening, Using
<1>7. ASSUME EncodeHeader(p) PROVE Alone(p)'
  BY <1>7 DEF EncodeHeader, Proceed, Alone, Inside, OneWriter, ReadOnly, Creating, IsOpen, Opening, Using
<1>8. ASSUME DecodeHeader(p) PROVE Alone(p)'
  BY <1>8 DEF DecodeHeader, Proceed, Alone, Inside, OneWriter, ReadOnly, Creating, IsOpen, Opening, Using
<1>9. ASSUME DecodeFails(p) PROVE Alone(p)'
  BY <1>9 DEF DecodeFails, Unmapped, Goto, Alone, Inside, OneWriter, ReadOnly, Creating, IsOpen, Opening, Using
<1>10. ASSUME RecoverLoad(p) PROVE Alone(p)'
  BY <1>10 DEF RecoverLoad, Proceed, Alone, Inside, OneWriter, ReadOnly, Creating, IsOpen, Opening, Using
<1>11. ASSUME RecoverStore(p) PROVE Alone(p)'
  BY <1>11 DEF RecoverStore, Proceed, Alone, Inside, OneWriter, ReadOnly, Creating, IsOpen, Opening, Using
<1>12. ASSUME RejectOptions(p) PROVE Alone(p)'
  BY <1>12 DEF RejectOptions, Goto, Alone, Inside, OneWriter, ReadOnly, Creating, IsOpen, Opening, Using
<1>13. ASSUME AcquireLock(p) PROVE Alone(p)'
  BY <1>13 DEF AcquireLock, Goto, Alone, Inside, OneWriter, ReadOnly, Creating, IsOpen, Opening, Using
<1>14. ASSUME AcquireLockFails(p) PROVE Alone(p)'
  BY <1>14 DEF AcquireLockFails, Unmapped, Goto, Alone, Inside, OneWriter, ReadOnly, Creating, IsOpen, Opening, Using
<1>15. ASSUME Append(p) PROVE Alone(p)'
  BY <1>15 DEF Append, MayAppend, IsOpen, Alone, Inside, OneWriter, ReadOnly, Creating, Opening, Using
<1>16. ASSUME AppendGrowing(p) PROVE Alone(p)'
  BY <1>16 DEF AppendGrowing, MustGrow, MayAppend, Remapped, Truncated, Outdating, IsOpen, Doubled, Alone, Inside, OneWriter, ReadOnly, Creating, Opening, Using
<1>17. ASSUME SeqBeginWrite(p) PROVE Alone(p)'
  BY <1>17 DEF SeqBeginWrite, IsOpen, Goto, Alone, Inside, OneWriter, ReadOnly, Creating, Opening, Using
<1>18. ASSUME SeqEndWrite(p) PROVE Alone(p)'
  BY <1>18 DEF SeqEndWrite, Goto, Alone, Inside, OneWriter, ReadOnly, Creating, IsOpen, Opening, Using
<1>19. ASSUME CallSync(p) PROVE Alone(p)'
  BY <1>19 DEF CallSync, IsOpen, Goto, Alone, Inside, OneWriter, ReadOnly, Creating, Opening, Using
<1>20. ASSUME CallClose(p) PROVE Alone(p)'
  BY <1>20 DEF CallClose, IsOpen, Goto, Alone, Inside, OneWriter, ReadOnly, Creating, Opening, Using
<1>21. ASSUME FlushLoad(p) PROVE Alone(p)'
  BY <1>21 DEF FlushLoad, Goto, Alone, Inside, OneWriter, ReadOnly, Creating, IsOpen, Opening, Using
<1>22. ASSUME FlushPut(p) PROVE Alone(p)'
  BY <1>22 DEF FlushPut, Goto, Alone, Inside, OneWriter, ReadOnly, Creating, IsOpen, Opening, Using
<1>23. ASSUME Msync(p) PROVE Alone(p)'
  BY <1>23 DEF Msync, Goto, Alone, Inside, OneWriter, ReadOnly, Creating, IsOpen, Opening, Using
<1>24. ASSUME MsyncFails(p) PROVE Alone(p)'
  BY <1>24 DEF MsyncFails, Goto, Alone, Inside, OneWriter, ReadOnly, Creating, IsOpen, Opening, Using
<1>25. ASSUME Unmap(p) PROVE Alone(p)'
  BY <1>25 DEF Unmap, Unmapped, Goto, Alone, Inside, OneWriter, ReadOnly, Creating, IsOpen, Opening, Using
<1>26. ASSUME ReleaseLock(p) PROVE Alone(p)'
  BY <1>26 DEF ReleaseLock, Unlocked, Goto, Alone, Inside, OneWriter, ReadOnly, Creating, IsOpen, Opening, Using
<1>27. ASSUME Finalize(p) PROVE Alone(p)'
  BY <1>27 DEF Finalize, Unmapped, Alone, Inside, OneWriter, ReadOnly, Creating, IsOpen, Opening, Using
<1>28. ASSUME Fault(p) PROVE Alone(p)'
  BY <1>28 DEF Fault, Dies, Unmapped, Unlocked, Alone, Inside, OneWriter, ReadOnly, Creating, IsOpen, Opening, Using
<1>29. ASSUME Crash(p) PROVE Alone(p)'
  BY <1>29 DEF Crash, Dies, Unmapped, Unlocked, Alone, Inside, OneWriter, ReadOnly, Creating, IsOpen, Opening, Using
<1>30. ASSUME AppendFails(p) PROVE Alone(p)'
  BY <1>30 DEF AppendFails, MustGrow, MayAppend, Truncated, Outdating, Doubled, IsOpen, Alone, Inside, OneWriter, ReadOnly, Creating, Opening, Using
<1> QED
  BY <1>1, <1>2, <1>3, <1>4, <1>5, <1>6, <1>7, <1>8, <1>9, <1>10, <1>11, <1>12, <1>13, <1>14, <1>15, <1>16, <1>17, <1>18, <1>19, <1>20, <1>21, <1>22, <1>23, <1>24, <1>25, <1>26, <1>27, <1>28, <1>29, <1>30
     DEF ProcStep, OpenStep, UseStep, CloseStep

(* The file, once created, stays.                                          *)
LEMMA PathStays ==
  ASSUME NEW p \in Procs, ProcStep(p)
  PROVE  path' = "absent" => path = "absent"
<1> USE DEF file, ProcStep
<1>1. CASE OpenStep(p)
  BY <1>1 DEF OpenStep, CallCreate, CallOpen, CreateMap, OpenMap, MapFails, EncodeIdentity,
              EncodeHeader, DecodeHeader, DecodeFails, RecoverLoad, RecoverStore,
              RejectOptions, AcquireLock, AcquireLockFails
<1>2. CASE UseStep(p)
  BY <1>2 DEF UseStep, Append, AppendGrowing, AppendFails, SeqBeginWrite, SeqEndWrite, CallSync
<1>3. CASE CloseStep(p)
  BY <1>3 DEF CloseStep, CallClose, FlushLoad, FlushPut, Msync, MsyncFails, Unmap, ReleaseLock
<1>4. CASE Finalize(p) \/ Fault(p) \/ Crash(p)
  BY <1>4 DEF Finalize, Fault, Crash, Dies
<1> QED BY <1>1, <1>2, <1>3, <1>4

(* Nobody else's Alone can be disturbed: what p changes of the file then   *)
(* needs the lock, or the file to itself.                                  *)
LEMMA StepOneInv ==
  ASSUME CreatedFirst, WritersLock, IInv, OneInv, NEW p \in Procs, ProcStep(p)
  PROVE  OneInv'
<1>1. ASSUME NEW q \in Procs PROVE Alone(q)'
  <2>1. CASE q = p
    BY <2>1, AloneMoves
  <2>2. CASE q # p
    <3>1. TypeOK /\ Owns(q) /\ Alone(q) /\ Alone(p) /\ CreatedAlone
      BY DEF IInv, OneInv
    <3>2. Apart(p, q)
      BY <2>2, <3>1, StepApart
    <3>3. (q \in Inside)' <=> q \in Inside
      BY <3>2 DEF Apart, Inside, OneWriter, ReadOnly
    <3>4. (p \in Inside) => ~(pc[q] = "put" /\ ~ReadOnly(q))
      BY <2>2, <3>1 DEF Owns, Using, Alone, Inside, OneWriter, ReadOnly
    <3> QED BY <3>1, <3>2, <3>3, <3>4, CountMoves DEF Apart, Alone, ReadOnly, NobodyCreates
  <2> QED BY <2>1, <2>2
<1>2. CreatedAlone'
  <2>1. path' = "absent" => path = "absent"
    BY PathStays
  <2>2. path = "absent" => Inside = {}
    BY DEF IInv, Complete, Inside
  <2> QED BY <2>1, <2>2, CountMoves DEF OneInv, CreatedAlone
<1> QED BY <1>1, <1>2 DEF OneInv

LEMMA OneInvInvariant ==
  ASSUME CreatedFirst, WritersLock
  PROVE  Spec => [](IInv /\ OneInv)
<1>1. Init => IInv /\ OneInv
  BY InitIInv, InitOneInv
<1>2. IInv /\ OneInv /\ [Next]_vars => (IInv /\ OneInv)'
  <2> SUFFICES ASSUME IInv, OneInv, [Next]_vars PROVE (IInv /\ OneInv)'
    OBVIOUS
  <2>1. CASE Next
    <3>1. PICK p \in Procs : ProcStep(p)
      BY <2>1 DEF Next, ProcStep
    <3> QED BY <3>1, StepIInv, StepOneInv
  <2>2. CASE UNCHANGED vars
    <3>1. IInv'
      BY <2>2 DEF vars, file, call, held, IInv, TypeOK, Owns, Complete, IsOpen
    <3>2. OneInv'
      BY <2>2 DEF vars, file, call, held, OneInv, Alone, CreatedAlone, Inside, OneWriter, ReadOnly
    <3> QED BY <3>1, <3>2
  <2> QED BY <2>1, <2>2
<1> QED BY <1>1, <1>2, PTL DEF Spec

(* When every writer asks for WithOneWriter and nobody appends while a     *)
(* process is in CreateStore, the processes implement OneWriterLog: one at *)
(* a time is inside, and the number of records changes only by an Append   *)
(* of the process inside, never by a flush of its header or another's.     *)
THEOREM OneWriterAtATime ==
  ASSUME CreatedFirst, WritersLock
  PROVE  Spec => ImplementsOneWriterLog
<1>1. Init => One!Init
  BY DEF Init, One!Init, Inside
<1>2. IInv /\ OneInv /\ [Next]_vars => [One!Next]_<<Inside, count>>
  <2> SUFFICES ASSUME IInv, OneInv, [Next]_vars PROVE [One!Next]_<<Inside, count>>
    OBVIOUS
  <2>1. CASE Next
    <3>1. PICK p \in Procs : ProcStep(p)
      BY <2>1 DEF Next, ProcStep
    <3>2. \A q \in Procs : q \in Inside => holder = q
      BY DEF OneInv, Alone
    <3>3. Inside \subseteq Procs
      BY DEF Inside
    <3>4. CASE Inside' = Inside
      BY <3>1, <3>4, CountMoves DEF One!Next, One!Append
    <3>5. CASE holder = None /\ Inside' = Inside \cup {p} /\ count' = count
      <4>1. Inside = {}
        BY <3>2, <3>3, <3>5, ProcsAssumption
      <4> QED BY <3>5, <4>1 DEF One!Next, One!Enter
    <3>6. CASE p \in Inside /\ Inside' = Inside \ {p} /\ count' = count
      <4>1. Inside = {p}
        BY <3>2, <3>3, <3>6
      <4> QED BY <3>6, <4>1 DEF One!Next, One!Leave
    <3> QED BY <3>1, <3>4, <3>5, <3>6, InsideMoves
  <2>2. CASE UNCHANGED vars
    BY <2>2 DEF vars, file, call, held, Inside, OneWriter, ReadOnly
  <2> QED BY <2>1, <2>2
<1> QED BY <1>1, <1>2, OneInvInvariant, PTL DEF Spec, ImplementsOneWriterLog, One!Spec
=============================================================================
