---------------------------- MODULE LayoutProofs ----------------------------
(***************************************************************************)
(* Proofs about Layout, for any fields and any width of the integers.      *)
(*                                                                         *)
(* The inductive invariant says what each loop has done so far: the fields *)
(* checked are those with a meta (Checked), the fields placed those with a *)
(* layout (Placed), and as long as no sum has wrapped they lie one behind  *)
(* the other with no more than padding between them (Packed).              *)
(***************************************************************************)
EXTENDS Layout, TLAPS, WellFoundedInduction

Aligns == {1, 2, 4, 8}
Meta == [size : 1 .. Word - 1, align : Aligns]
FieldLayout == [offset : 0 .. Word - 1, size : 1 .. Word - 1, align : Aligns]

LEMMA RoundUpFacts ==
  ASSUME NEW n \in Nat, NEW a \in Aligns
  PROVE  /\ RoundUp(n, a) \in Nat /\ RoundUp(n, a) >= n
         /\ RoundUp(n, a) - n < a /\ RoundUp(n, a) % a = 0
BY DEF RoundUp, Aligns

LEMMA Below ==
  ASSUME NEW n \in Nat
  PROVE  n % Word \in 0 .. Word - 1 /\ (n < Word => n % Word = n)
BY WordAssumption

LEMMA MetaType ==
  ASSUME NEW f, ~Invalid(f), f.maxSize \in 0 .. Word - 1
  PROVE  SizeOf(f) \in 1 .. Word - 1 /\ AlignOf(f) \in Aligns
<1>1. CASE f.type \in VarLen
  BY <1>1, WordAssumption DEF Invalid, SizeOf, AlignOf, Aligns
<1>2. CASE f.type \notin VarLen
  <2>1. FixedWidth[f.type] \in Aligns
    BY <1>2 DEF Invalid, FixedWidth, Aligns
  <2> QED BY <1>2, <2>1, WordAssumption DEF SizeOf, AlignOf, Aligns
<1> QED BY <1>1, <1>2

\* Seq, kept closed in the proofs below
List(s, S) == s \in Seq(S)

LEMMA ListFacts ==
  ASSUME NEW S, NEW s, List(s, S)
  PROVE  Len(s) \in Nat /\ DOMAIN s = 1 .. Len(s) /\ \A i \in 1 .. Len(s) : s[i] \in S
BY DEF List

LEMMA Appended ==
  ASSUME NEW S, NEW s, List(s, S), NEW e \in S
  PROVE  /\ List(Append(s, e), S) /\ Len(Append(s, e)) = Len(s) + 1
         /\ \A i \in 1 .. Len(s) : Append(s, e)[i] = s[i]
         /\ Append(s, e)[Len(s) + 1] = e
BY DEF List
-----------------------------------------------------------------------------

\* an argument list as ComputeLayout takes it
Fields(fs) ==
  /\ Len(fs) \in Nat /\ DOMAIN fs = 1 .. Len(fs) /\ (Len(fs) = 0 <=> fs = <<>>)
  /\ \A i \in DOMAIN fs : fs[i].maxSize \in 0 .. Word - 1

MetaOf(f) == [size |-> SizeOf(f), align |-> AlignOf(f)]

Loops ==
  /\ stage \in {"idle", "check", "place", "round", "done", "error"}
  /\ Fields(fields) /\ List(metas, Meta) /\ List(layouts, FieldLayout)
  /\ Len(layouts) <= Len(metas) /\ Len(metas) <= Len(fields)
  /\ offset \in 0 .. Word - 1 /\ recordSize \in 0 .. Word - 1
  /\ stage = "check" => Len(layouts) = 0 /\ Len(metas) < Len(fields)
  /\ stage = "place" => Len(metas) = Len(fields) /\ Len(layouts) < Len(metas)
  /\ stage \in {"round", "done"} => Len(fields) > 0 /\ Len(layouts) = Len(fields)

Checked ==
  /\ \A x \in seen : \E i \in 1 .. Len(metas) : fields[i].name = x
  /\ \A i \in 1 .. Len(metas) :
       fields[i].name \in seen /\ ~Invalid(fields[i]) /\ metas[i] = MetaOf(fields[i])
  /\ \A i, j \in 1 .. Len(metas) : i # j => fields[i].name # fields[j].name

Placed ==
  \A i \in 1 .. Len(layouts) :
    layouts[i].size = metas[i].size /\ layouts[i].align = metas[i].align

\* EndOf, of any layouts
EndIn(ls, i) == ls[i].offset + ls[i].size

Packed ==
  ~wrapped =>
    /\ offset = IF Len(layouts) = 0 THEN SeqFieldSize ELSE EndIn(layouts, Len(layouts))
    /\ \A i \in 1 .. Len(layouts) :
         /\ layouts[i].offset % layouts[i].align = 0
         /\ layouts[i].offset >= SeqFieldSize
         /\ EndIn(layouts, i) <= offset
         /\ layouts[i].offset - (IF i = 1 THEN SeqFieldSize ELSE EndIn(layouts, i - 1)) < layouts[i].align
    /\ \A i, j \in 1 .. Len(layouts) : i < j => EndIn(layouts, i) <= layouts[j].offset
    /\ stage = "done" => offset <= recordSize /\ recordSize % 8 = 0 /\ recordSize - offset < 8

Rejected == stage = "error" => ~Valid(fields)

LInv == Loops /\ Checked /\ Placed /\ Packed /\ Rejected /\ wrapped \in BOOLEAN

\* before the first field
Empty(s) == Len(s) = 0 /\ List(s, Meta) /\ List(s, FieldLayout) /\ Fields(s)

LEMMA NoneYet == ASSUME NEW s, s = <<>> PROVE Empty(s)
BY DEF Empty, List, Fields

LEMMA InitLInv == LayoutInit => LInv
<1> SUFFICES ASSUME LayoutInit PROVE LInv
  OBVIOUS
<1>1. /\ Empty(fields) /\ Empty(metas) /\ Empty(layouts) /\ seen = {}
      /\ stage = "idle" /\ offset = SeqFieldSize /\ recordSize = 0
  BY NoneYet DEF LayoutInit
<1>2. Loops
  BY <1>1, WordAssumption DEF Empty, Loops, SeqFieldSize
<1>3. Checked /\ Placed /\ Packed /\ Rejected
  BY <1>1 DEF Empty, Checked, Placed, Packed, Rejected
<1>4. wrapped \in BOOLEAN
  BY DEF LayoutInit
<1> QED BY <1>2, <1>3, <1>4 DEF LInv

LEMMA CallLInv ==
  ASSUME NEW fs, Fields(fs), ComputeLayout(fs)
  PROVE  LInv'
<1>1. /\ fields' = fs /\ Empty(metas') /\ Empty(layouts') /\ seen' = {}
      /\ stage' = (IF fs = <<>> THEN "error" ELSE "check")
      /\ offset' = SeqFieldSize /\ recordSize' = 0
  BY NoneYet DEF ComputeLayout
<1>2. Loops'
  <2>1. Len(fs) \in Nat /\ (fs # <<>> => Len(fs) > 0)
    BY DEF Fields
  <2> QED BY <1>1, <2>1, WordAssumption DEF Empty, Loops, SeqFieldSize
<1>3. Checked' /\ Placed' /\ Packed'
  BY <1>1 DEF Empty, Checked, Placed, Packed
<1>4. Rejected'
  BY <1>1 DEF Rejected, Valid
<1>5. wrapped' \in BOOLEAN
  BY DEF ComputeLayout
<1> QED BY <1>2, <1>3, <1>4, <1>5 DEF LInv

LEMMA Lengths ==
  ASSUME Loops
  PROVE  /\ Len(fields) \in Nat /\ DOMAIN fields = 1 .. Len(fields)
         /\ Len(metas) \in Nat /\ DOMAIN metas = 1 .. Len(metas)
         /\ Len(layouts) \in Nat /\ DOMAIN layouts = 1 .. Len(layouts)
         /\ \A i \in 1 .. Len(layouts) : layouts[i] \in FieldLayout
         /\ \A i \in 1 .. Len(metas) : metas[i] \in Meta
         /\ \A i \in 1 .. Len(fields) : fields[i].maxSize \in 0 .. Word - 1
BY ListFacts DEF Loops, Fields

LEMMA WrappedStays ==
  ASSUME LInv, CheckField \/ RejectField
  PROVE  (wrapped' <=> wrapped) /\ wrapped' \in BOOLEAN
BY DEF LInv, CheckField, RejectField

LEMMA CheckLInv ==
  ASSUME LInv, CheckField
  PROVE  LInv'
<1> DEFINE n == Len(metas) + 1
<1>1. /\ stage = "check" /\ fields[n].name \notin seen /\ ~Invalid(fields[n])
      /\ seen' = seen \cup {fields[n].name}
      /\ metas' = Append(metas, MetaOf(fields[n]))
      /\ stage' = (IF Len(metas') = Len(fields) THEN "place" ELSE "check")
      /\ UNCHANGED <<fields, layouts, offset, recordSize>>
  BY DEF CheckField, MetaOf
<1>2. Loops /\ Checked /\ Placed /\ Packed
  BY DEF LInv
<1>3. n \in 1 .. Len(fields) /\ Len(metas) \in Nat /\ Len(fields) \in Nat
  <2>1. Len(metas) < Len(fields)
    BY <1>1, <1>2 DEF Loops
  <2>2. Len(metas) \in Nat /\ Len(fields) \in Nat
    BY <1>2, Lengths
  <2> QED BY <2>1, <2>2
<1>4. MetaOf(fields[n]) \in Meta
  BY <1>1, <1>2, <1>3, Lengths, MetaType DEF Meta, MetaOf
<1>5. /\ List(metas', Meta) /\ Len(metas') = n /\ metas'[n] = MetaOf(fields[n])
      /\ \A i \in 1 .. Len(metas) : metas'[i] = metas[i]
  BY <1>1, <1>2, <1>4, Appended DEF Loops
<1>6. Loops'
  BY <1>1, <1>2, <1>3, <1>5 DEF Loops
<1>7. Checked'
  <2>1. \A i \in 1 .. n : i = n \/ i \in 1 .. Len(metas)
    BY <1>3
  <2>2. n \in 1 .. n /\ 1 .. Len(metas) \subseteq 1 .. n
    BY <1>3
  <2> HIDE DEF n
  <2> QED BY <1>1, <1>2, <1>5, <2>1, <2>2 DEF Checked
<1>8. Placed' /\ Packed' /\ Rejected'
  <2>1. Len(layouts) = 0
    BY <1>1, <1>2 DEF Loops
  <2> QED BY <1>1, <1>2, <2>1, WrappedStays DEF Placed, Packed, Rejected
<1> QED BY <1>6, <1>7, <1>8, WrappedStays DEF LInv

LEMMA RejectLInv ==
  ASSUME LInv, RejectField
  PROVE  LInv'
<1> DEFINE n == Len(metas) + 1
<1>1. /\ stage = "check" /\ (fields[n].name \in seen \/ Invalid(fields[n]))
      /\ stage' = "error"
      /\ UNCHANGED <<fields, seen, metas, layouts, offset, recordSize>>
  BY DEF RejectField
<1>2. Loops /\ Checked /\ Placed /\ Packed
  BY DEF LInv
<1>4. n \in DOMAIN fields /\ \A i \in 1 .. Len(metas) : i \in DOMAIN fields /\ i # n
  BY <1>1, <1>2, Lengths DEF Loops
<1>5. Invalid(fields[n]) \/ \E i \in 1 .. Len(metas) : fields[i].name = fields[n].name
  BY <1>1, <1>2 DEF Checked
<1>6. ~Valid(fields)
  <2> HIDE DEF n
  <2> QED BY <1>4, <1>5 DEF Valid
<1>7. Loops'
  BY <1>1, <1>2 DEF Loops
<1>8. Checked' /\ Placed' /\ Packed'
  BY <1>1, <1>2, WrappedStays DEF Checked, Placed, Packed, EndIn
<1> QED BY <1>1, <1>6, <1>7, <1>8, WrappedStays DEF LInv, Rejected

LEMMA PlaceSums ==
  ASSUME NEW off \in Nat, NEW a \in Aligns, NEW size \in 1 .. Word - 1,
         NEW start, start = RoundUp(off, a), NEW o, o = start % Word,
         NEW end, end = (start + size) % Word
  PROVE  /\ start \in Nat /\ start >= off /\ start - off < a /\ start % a = 0
         /\ o \in 0 .. Word - 1 /\ end \in 0 .. Word - 1
         /\ ~(start + size >= Word) => o = start /\ end = start + size
<1>1. start \in Nat /\ start >= off /\ start - off < a /\ start % a = 0
  BY RoundUpFacts
<1>2. o \in 0 .. Word - 1 /\ (start < Word => o = start)
  BY <1>1, Below
<1>3. start + size \in Nat
  BY <1>1, WordAssumption
<1>4. end \in 0 .. Word - 1 /\ (start + size < Word => end = start + size)
  BY <1>3, Below
<1>5. ~(start + size >= Word) => start < Word /\ start + size < Word
  BY <1>1, <1>3, WordAssumption
<1> QED BY <1>1, <1>2, <1>4, <1>5

LEMMA PlaceLInv ==
  ASSUME LInv, PlaceField
  PROVE  LInv'
<1> DEFINE n == Len(layouts) + 1
           m == metas[n]
           start == RoundUp(offset, m.align)
           o == start % Word
           e == [offset |-> o, size |-> m.size, align |-> m.align]
<1>1. /\ stage = "place"
      /\ layouts' = Append(layouts, e)
      /\ offset' = (start + m.size) % Word
      /\ stage' = (IF Len(layouts') = Len(metas) THEN "round" ELSE "place")
      /\ UNCHANGED <<fields, seen, metas, recordSize>>
  BY DEF PlaceField
<1>2. Loops /\ Checked /\ Placed /\ Packed
  BY DEF LInv
<1>3. wrapped' \in BOOLEAN /\ (~wrapped' => ~wrapped /\ ~(start + m.size >= Word))
  BY DEF PlaceField, LInv
<1>4. Len(layouts) \in Nat /\ Len(metas) \in Nat /\ n \in 1 .. Len(metas)
  <2>1. Len(layouts) < Len(metas)
    BY <1>1, <1>2 DEF Loops
  <2>2. Len(layouts) \in Nat /\ Len(metas) \in Nat
    BY <1>2, Lengths
  <2> QED BY <2>1, <2>2
<1>5. m.size \in 1 .. Word - 1 /\ m.align \in Aligns
  BY <1>2, <1>4, Lengths DEF Meta
<1>6. /\ start \in Nat /\ start >= offset /\ start - offset < m.align /\ start % m.align = 0
      /\ o \in 0 .. Word - 1 /\ offset' \in 0 .. Word - 1
      /\ ~(start + m.size >= Word) => o = start /\ offset' = start + m.size
  <2>1. offset \in Nat
    BY <1>2 DEF Loops
  <2> HIDE DEF m
  <2> QED BY <1>1, <1>5, <2>1, PlaceSums
<1>7. offset \in Nat
  BY <1>2 DEF Loops
<1>8. ~wrapped' => o = start /\ offset' = start + m.size
  <2> HIDE DEF o, start, m
  <2> QED BY <1>3, <1>6
<1>9. e \in FieldLayout
  <2> HIDE DEF o, m
  <2> QED BY <1>5, <1>6 DEF FieldLayout
<1>10. /\ List(layouts', FieldLayout) /\ Len(layouts') = n /\ layouts'[n] = e
       /\ \A i \in 1 .. Len(layouts) : layouts'[i] = layouts[i]
  BY <1>1, <1>2, <1>9, Appended DEF Loops
<1>11. layouts'[n].offset = o /\ layouts'[n].size = m.size /\ layouts'[n].align = m.align
  <2> HIDE DEF o, m, n
  <2> QED BY <1>10
<1>12. \A i \in 1 .. n : i = n \/ i \in 1 .. Len(layouts)
  BY <1>4
<1> HIDE DEF e, o, start, m
<1>13. Loops'
  <2>1. Len(metas) = Len(fields)
    BY <1>1, <1>2 DEF Loops
  <2> QED BY <1>1, <1>2, <1>4, <1>6, <1>10, <2>1 DEF Loops
<1>14. Checked' /\ Rejected'
  BY <1>1, <1>2 DEF Checked, Rejected
<1>15. Placed'
  <2> HIDE DEF n
  <2>1. metas' = metas /\ m = metas[n]
    BY <1>1 DEF m
  <2> QED BY <1>2, <1>10, <1>11, <1>12, <2>1 DEF Placed
<1>16. Packed'
  <2> SUFFICES ASSUME ~wrapped' PROVE Packed'
    BY DEF Packed
  <2>0. n - 1 = Len(layouts) /\ n \in Nat
    BY <1>4
  <2> HIDE DEF n
  <2>1. /\ offset = IF Len(layouts) = 0 THEN SeqFieldSize ELSE EndIn(layouts, Len(layouts))
        /\ \A i \in 1 .. Len(layouts) :
             /\ layouts[i].offset % layouts[i].align = 0
             /\ layouts[i].offset >= SeqFieldSize
             /\ EndIn(layouts, i) <= offset
             /\ layouts[i].offset - (IF i = 1 THEN SeqFieldSize ELSE EndIn(layouts, i - 1)) < layouts[i].align
        /\ \A i, j \in 1 .. Len(layouts) : i < j => EndIn(layouts, i) <= layouts[j].offset
    BY <1>2, <1>3 DEF Packed
  <2>2. layouts'[n].offset = start /\ offset' = start + m.size
    BY <1>8, <1>11
  <2>3. /\ \A i \in 1 .. Len(layouts) : EndIn(layouts', i) = EndIn(layouts, i)
        /\ EndIn(layouts', n) = offset'
    BY <1>10, <1>11, <2>2 DEF EndIn
  <2>4. \A i \in 1 .. Len(layouts) :
          layouts[i].offset \in Nat /\ layouts[i].size \in Nat /\ EndIn(layouts, i) \in Nat
    BY <1>2, Lengths DEF FieldLayout, EndIn
  <2>5. SeqFieldSize <= offset
    <3>1. CASE Len(layouts) = 0
      BY <2>1, <3>1 DEF SeqFieldSize
    <3>2. CASE Len(layouts) # 0
      BY <1>4, <2>1, <2>4, <3>2 DEF SeqFieldSize, EndIn
    <3> QED BY <3>1, <3>2
  <2>6. offset' = EndIn(layouts', n) /\ Len(layouts') # 0 /\ stage' # "done"
    BY <1>1, <1>4, <1>10, <2>3
  <2>7. \A i \in 1 .. n : EndIn(layouts', i) <= offset'
    BY <1>4, <1>5, <1>6, <1>7, <1>12, <2>1, <2>2, <2>3, <2>4
  <2>8. \A i \in 1 .. n : /\ layouts'[i].offset % layouts'[i].align = 0
                          /\ layouts'[i].offset >= SeqFieldSize
    BY <1>6, <1>7, <1>10, <1>11, <1>12, <2>1, <2>2, <2>5 DEF SeqFieldSize
  <2>9. \A i \in 1 .. n :
          layouts'[i].offset - (IF i = 1 THEN SeqFieldSize ELSE EndIn(layouts', i - 1)) < layouts'[i].align
    <3>1. layouts'[n].offset - (IF n = 1 THEN SeqFieldSize ELSE EndIn(layouts', n - 1)) < layouts'[n].align
      <4>1. CASE Len(layouts) = 0
        BY <1>6, <1>11, <2>0, <2>1, <2>2, <4>1
      <4>2. CASE Len(layouts) # 0
        <5>1. n # 1 /\ n - 1 = Len(layouts) /\ Len(layouts) \in 1 .. Len(layouts)
          BY <1>4, <2>0, <4>2
        <5> QED BY <1>6, <1>11, <2>1, <2>2, <2>3, <4>2, <5>1
      <4> QED BY <4>1, <4>2
    <3>2. ASSUME NEW i \in 1 .. Len(layouts)
          PROVE  layouts'[i].offset - (IF i = 1 THEN SeqFieldSize ELSE EndIn(layouts', i - 1)) < layouts'[i].align
      <4>1. layouts'[i] = layouts[i] /\ (i # 1 => i - 1 \in 1 .. Len(layouts))
        BY <1>4, <1>10
      <4>2. i # 1 => EndIn(layouts', i - 1) = EndIn(layouts, i - 1)
        BY <2>3, <4>1
      <4> QED BY <2>1, <4>1, <4>2
    <3> QED BY <1>12, <3>1, <3>2
  <2>10. ASSUME NEW i \in 1 .. n, NEW j \in 1 .. n, i < j
         PROVE  EndIn(layouts', i) <= layouts'[j].offset
    <3>1. i \in 1 .. Len(layouts) /\ EndIn(layouts', i) = EndIn(layouts, i)
      BY <1>4, <2>0, <2>3, <2>10
    <3>2. CASE j = n
      BY <1>6, <1>7, <2>1, <2>2, <2>4, <3>1, <3>2
    <3>3. CASE j \in 1 .. Len(layouts)
      BY <1>10, <2>1, <2>10, <3>1, <3>3
    <3> QED BY <1>12, <3>2, <3>3
  <2>11. Len(layouts') = n
    BY <1>10
  <2> QED BY <2>6, <2>7, <2>8, <2>9, <2>10, <2>11 DEF Packed
<1> QED BY <1>3, <1>13, <1>14, <1>15, <1>16 DEF LInv

LEMMA RoundLInv ==
  ASSUME LInv, RoundRecord
  PROVE  LInv'
<1> DEFINE end == RoundUp(offset, 8)
<1>1. /\ stage = "round" /\ stage' = "done" /\ recordSize' = end % Word
      /\ UNCHANGED <<fields, seen, metas, layouts, offset>>
  BY DEF RoundRecord
<1>2. Loops /\ Checked /\ Placed /\ Packed
  BY DEF LInv
<1>3. wrapped' \in BOOLEAN /\ (~wrapped' => ~wrapped /\ ~(end >= Word))
  BY DEF RoundRecord, LInv
<1>4. offset \in Nat /\ end \in Nat /\ end >= offset /\ end - offset < 8 /\ end % 8 = 0
  <2>1. offset \in Nat /\ 8 \in Aligns
    BY <1>2 DEF Loops, Aligns
  <2> QED BY <2>1, RoundUpFacts
<1>5. recordSize' \in 0 .. Word - 1 /\ (~wrapped' => recordSize' = end)
  BY <1>1, <1>3, <1>4, Below, WordAssumption
<1> HIDE DEF end
<1>6. Loops'
  BY <1>1, <1>2, <1>5 DEF Loops
<1>7. Checked' /\ Placed' /\ Rejected'
  BY <1>1, <1>2 DEF Checked, Placed, Rejected
<1>8. Packed'
  BY <1>1, <1>2, <1>3, <1>4, <1>5 DEF Packed, EndIn
<1> QED BY <1>3, <1>6, <1>7, <1>8 DEF LInv

LEMMA StepLInv ==
  ASSUME LInv, LayoutStep
  PROVE  LInv'
BY CheckLInv, RejectLInv, PlaceLInv, RoundLInv DEF LayoutStep

LEMMA RestLInv ==
  ASSUME LInv, LayoutReturn \/ UNCHANGED layoutVars
  PROVE  LInv'
<1>1. UNCHANGED <<fields, seen, metas, layouts, offset, recordSize, wrapped>>
  BY DEF LayoutReturn, layoutVars
<1>2. stage' = "idle" \/ stage' = stage
  BY DEF LayoutReturn, layoutVars
<1>3. Loops /\ Checked /\ Placed /\ Packed /\ Rejected
  BY DEF LInv
<1>4. Loops'
  BY <1>1, <1>2, <1>3 DEF Loops
<1>5. Checked' /\ Placed' /\ Rejected'
  BY <1>1, <1>2, <1>3 DEF Checked, Placed, Rejected
<1>6. Packed' /\ wrapped' \in BOOLEAN
  BY <1>1, <1>2, <1>3 DEF Packed, EndIn, LInv
<1> QED BY <1>4, <1>5, <1>6 DEF LInv

LEMMA LInvInvariant == LayoutSpec => []LInv
<1>1. LInv /\ [LayoutNext]_layoutVars => LInv'
  <2>1. ASSUME NEW fs \in Calls PROVE Fields(fs)
    <3>1. List(fs, {fs[i] : i \in DOMAIN fs}) /\ \A i \in DOMAIN fs : fs[i].maxSize \in 0 .. Word - 1
      BY CallsAssumption DEF List
    <3>2. Len(fs) = 0 <=> fs = <<>>
      BY <3>1 DEF List
    <3> QED BY <3>1, <3>2, ListFacts DEF Fields
  <2> QED BY <2>1, CallLInv, StepLInv, RestLInv DEF LayoutNext
<1> QED BY <1>1, InitLInv, PTL DEF LayoutSpec
-----------------------------------------------------------------------------

LEMMA LInvImplies == LInv => LayoutTypeOK /\ FieldsApart /\ Compact /\ RejectsInvalid
<1> SUFFICES ASSUME LInv PROVE LayoutTypeOK /\ FieldsApart /\ Compact /\ RejectsInvalid
  OBVIOUS
<1>1. Loops /\ Checked /\ Placed /\ Packed /\ Rejected /\ wrapped \in BOOLEAN
  BY DEF LInv
<1>2. /\ Len(fields) \in Nat /\ DOMAIN fields = 1 .. Len(fields)
      /\ Len(metas) \in Nat /\ DOMAIN metas = 1 .. Len(metas)
      /\ Len(layouts) \in Nat /\ DOMAIN layouts = 1 .. Len(layouts)
      /\ Len(layouts) <= Len(metas) /\ Len(metas) <= Len(fields)
  BY <1>1, Lengths DEF Loops
<1>3. LayoutTypeOK
  <2>1. stage \in {"idle", "check", "place", "round", "done", "error"}
        /\ offset \in 0 .. Word - 1 /\ recordSize \in 0 .. Word - 1
    BY <1>1 DEF Loops
  <2>2. DOMAIN metas \subseteq DOMAIN fields /\ DOMAIN layouts \subseteq DOMAIN metas
    BY <1>2
  <2>3. \A i \in DOMAIN metas : metas[i].size \in 1 .. Word - 1 /\ metas[i].align \in {1, 2, 4, 8}
    BY <1>1, <1>2, Lengths DEF Meta, Aligns
  <2>4. \A i \in DOMAIN layouts : layouts[i].offset \in 0 .. Word - 1
    BY <1>1, <1>2, Lengths DEF FieldLayout
  <2> QED BY <1>1, <2>1, <2>2, <2>3, <2>4 DEF LayoutTypeOK
<1>4. FieldsApart /\ Compact
  <2>1. \A i : EndOf(i) = EndIn(layouts, i)
    BY DEF EndOf, EndIn
  <2> QED BY <1>1, <1>2, <2>1 DEF Packed, FieldsApart, Compact
<1>5. RejectsInvalid
  <2>1. stage = "error" => ~Valid(fields)
    BY <1>1 DEF Rejected
  <2>2. ASSUME stage = "done" PROVE Valid(fields)
    <3>1. Len(fields) > 0 /\ Len(metas) = Len(fields)
      <4>1. Len(fields) > 0 /\ Len(layouts) = Len(fields)
        BY <1>1, <2>2 DEF Loops
      <4>2. /\ Len(metas) \in Nat /\ Len(fields) \in Nat
            /\ Len(layouts) <= Len(metas) /\ Len(metas) <= Len(fields)
        BY <1>2
      <4> QED BY <4>1, <4>2
    <3>2. fields # <<>>
      <4>1. Fields(fields)
        BY <1>1 DEF Loops
      <4>2. Len(fields) # 0
        BY <3>1
      <4> QED BY <4>1, <4>2 DEF Fields
    <3> QED BY <1>1, <1>2, <3>1, <3>2 DEF Checked, Valid
  <2> QED BY <2>1, <2>2 DEF RejectsInvalid
<1> QED BY <1>3, <1>4, <1>5

(* Offsets, sizes and the size of the record stay within the integers'     *)
(* width, whatever the fields.                                             *)
THEOREM LayoutsTyped == LayoutSpec => []LayoutTypeOK
BY LInvInvariant, LInvImplies, PTL

(* Unless a sum wraps, fields are aligned, lie behind the counter and one  *)
(* behind the other, and records can follow one another.                   *)
THEOREM FieldsLieApart == LayoutSpec => []FieldsApart
BY LInvInvariant, LInvImplies, PTL

(* Nor is there any room between them that alignment does not need.        *)
THEOREM LayoutsCompact == LayoutSpec => []Compact
BY LInvInvariant, LInvImplies, PTL

(* ComputeLayout returns an error for exactly the invalid argument lists.  *)
THEOREM InvalidRejected == LayoutSpec => []RejectsInvalid
BY LInvInvariant, LInvImplies, PTL
-----------------------------------------------------------------------------
(***************************************************************************)
(* Sizes and alignments determine the layout: each field begins where the  *)
(* one before it ends, rounded up, and both are cut to the integers' width *)
(* (Chain).  Two chains of the same sizes and alignments are equal, as the *)
(* first field at which they differ would begin at the same place.         *)
(***************************************************************************)

EndMod(ls, n) == IF n = 0 THEN SeqFieldSize ELSE EndIn(ls, n) % Word
Chain(ls) ==
  \A i \in 1 .. Len(ls) : ls[i].offset = RoundUp(EndMod(ls, i - 1), ls[i].align) % Word
Chained ==
  /\ Chain(layouts) /\ offset = EndMod(layouts, Len(layouts))
  /\ stage = "done" => recordSize = RoundUp(offset, 8) % Word

LEMMA Least ==
  ASSUME NEW T \in SUBSET Nat, T # {}
  PROVE  \E x \in T : \A y \in T : x <= y
<1> DEFINE Less == {ss \in Nat \X Nat : ss[1] < ss[2]}
<1>1. OpToRel(<, Nat) = Less
  BY Zenon DEF OpToRel
<1>2. ASSUME NEW x \in Nat, NEW y \in Nat, ~(<<y, x>> \in Less)
      PROVE  x <= y
  BY <1>2
<1>3. IsWellFoundedOn(Less, Nat)
  BY <1>1, NatLessThanWellFounded
<1> HIDE DEF Less
<1>4. PICK x \in T : \A y \in T : ~(<<y, x>> \in Less)
  BY <1>3, WFMin
<1>5. \A y \in T : x <= y
  BY <1>2, <1>4
<1> QED BY <1>5

LEMMA ModCases ==
  ASSUME NEW n \in Nat, n < 3 * Word
  PROVE  \/ n < Word /\ n % Word = n
         \/ n >= Word /\ n < 2 * Word /\ n % Word = n - Word
         \/ n >= 2 * Word /\ n % Word = n - 2 * Word
BY WordAssumption

LEMMA ModSum ==
  ASSUME NEW n \in Nat, n < 2 * Word, NEW s \in 0 .. Word - 1, NEW r, r = n % Word
  PROVE  (r + s) % Word = (n + s) % Word
<1>1. r \in Nat /\ ((n < Word /\ r = n) \/ (n >= Word /\ r = n - Word))
  <2>1. n < 3 * Word
    BY WordAssumption
  <2> QED BY <2>1, ModCases, WordAssumption
<1>2. r + s \in Nat /\ n + s \in Nat /\ r + s < 2 * Word /\ n + s < 3 * Word
  BY <1>1, WordAssumption
<1>3. ASSUME NEW k \in Nat, k = r + s
      PROVE  \/ k < Word /\ k % Word = k
             \/ k >= Word /\ k < 2 * Word /\ k % Word = k - Word
  <2>1. k < 2 * Word
    BY <1>2, <1>3
  <2> QED BY <2>1, ModCases, WordAssumption
<1>4. ASSUME NEW k \in Nat, k = n + s
      PROVE  \/ k < Word /\ k % Word = k
             \/ k >= Word /\ k < 2 * Word /\ k % Word = k - Word
             \/ k >= 2 * Word /\ k % Word = k - 2 * Word
  <2>1. k < 3 * Word
    BY <1>2, <1>4
  <2> QED BY <2>1, ModCases
<1>5. PICK k \in Nat, l \in Nat : k = r + s /\ l = n + s
  BY <1>2
<1>6. k % Word = l % Word
  BY <1>1, <1>3, <1>4, <1>5, WordAssumption
<1> QED BY <1>1, <1>5, <1>6

LEMMA PlaceMod ==
  ASSUME NEW off \in 0 .. Word - 1, NEW a \in Aligns, NEW size \in 1 .. Word - 1,
         NEW start, start = RoundUp(off, a), NEW o, o = start % Word
  PROVE  o \in 0 .. Word - 1 /\ (start + size) % Word = (o + size) % Word
<1>1. start \in Nat /\ start - off < a
  BY RoundUpFacts, WordAssumption
<1>2. start < 2 * Word
  BY <1>1, WordAssumption DEF Aligns
<1>3. size \in 0 .. Word - 1
  BY WordAssumption
<1> QED BY <1>1, <1>2, <1>3, Below, ModSum

LEMMA ChainsEqual ==
  ASSUME NEW ls, NEW ms, List(ls, FieldLayout), List(ms, FieldLayout),
         Chain(ls), Chain(ms), Len(ls) = Len(ms),
         \A i \in 1 .. Len(ls) : ls[i].size = ms[i].size /\ ls[i].align = ms[i].align
  PROVE  ls = ms
<1> DEFINE T == {i \in 1 .. Len(ls) : ls[i].offset # ms[i].offset}
<1>1. /\ Len(ls) \in Nat /\ DOMAIN ls = 1 .. Len(ls) /\ DOMAIN ms = 1 .. Len(ls)
      /\ \A i \in 1 .. Len(ls) : ls[i] \in FieldLayout /\ ms[i] \in FieldLayout
  BY ListFacts
<1>2. T = {}
  <2> SUFFICES ASSUME T # {} PROVE FALSE
    OBVIOUS
  <2>1. T \in SUBSET Nat
    BY <1>1
  <2>2. PICK i \in T : \A j \in T : i <= j
    BY <2>1, Least
  <2>3. i \in 1 .. Len(ls) /\ ls[i].offset # ms[i].offset
    OBVIOUS
  <2>4. i - 1 # 0 => i - 1 \in 1 .. Len(ls) /\ i - 1 \notin T
    BY <1>1, <2>2, <2>3
  <2>5. i - 1 # 0 => EndIn(ls, i - 1) = EndIn(ms, i - 1)
    BY <2>4 DEF EndIn
  <2>6. EndMod(ls, i - 1) = EndMod(ms, i - 1)
    BY <2>5 DEF EndMod
  <2> HIDE DEF T
  <2> QED BY <2>3, <2>6 DEF Chain
<1>3. \A i \in 1 .. Len(ls) : ls[i] = ms[i]
  BY <1>1, <1>2 DEF FieldLayout
<1> QED BY <1>1, <1>3 DEF List

LEMMA CallChained ==
  ASSUME LayoutInit' \/ \E fs : ComputeLayout(fs)
  PROVE  Chained'
<1>1. layouts' = <<>> /\ offset' = SeqFieldSize /\ stage' # "done"
  BY DEF LayoutInit, ComputeLayout
<1>2. Empty(layouts')
  BY <1>1, NoneYet
<1> QED BY <1>1, <1>2 DEF Empty, Chained, Chain, EndMod

LEMMA StepChained ==
  ASSUME LInv, Chained, LayoutStep
  PROVE  Chained'
<1>1. CASE CheckField \/ RejectField
  <2>1. UNCHANGED <<layouts, offset>> /\ stage' # "done"
    BY <1>1 DEF CheckField, RejectField
  <2> QED BY <2>1 DEF Chained, Chain, EndMod, EndIn
<1>2. CASE PlaceField
  <2> DEFINE n == Len(layouts) + 1
             m == metas[n]
             start == RoundUp(offset, m.align)
             o == start % Word
             e == [offset |-> o, size |-> m.size, align |-> m.align]
  <2>1. /\ stage = "place" /\ stage' # "done" /\ layouts' = Append(layouts, e)
        /\ offset' = (start + m.size) % Word
    BY <1>2 DEF PlaceField
  <2>2. Loops
    BY DEF LInv
  <2>3. Len(layouts) \in Nat /\ n \in 1 .. Len(metas)
    <3>1. Len(layouts) < Len(metas)
      BY <2>1, <2>2 DEF Loops
    <3> QED BY <2>2, <3>1, Lengths
  <2>4. m.size \in 1 .. Word - 1 /\ m.align \in Aligns
    BY <2>2, <2>3, Lengths DEF Meta
  <2>5. offset \in 0 .. Word - 1
    BY <2>2 DEF Loops
  <2>6. o \in 0 .. Word - 1 /\ (start + m.size) % Word = (o + m.size) % Word
    <3> HIDE DEF m
    <3> QED BY <2>4, <2>5, PlaceMod
  <2>7. offset' = (o + m.size) % Word
    <3> HIDE DEF start, m, o
    <3> QED BY <2>1, <2>6
  <2>8. e \in FieldLayout
    <3> HIDE DEF o, m
    <3> QED BY <2>4, <2>6 DEF FieldLayout
  <2>9. /\ Len(layouts') = n /\ layouts'[n] = e
        /\ \A i \in 1 .. Len(layouts) : layouts'[i] = layouts[i]
    BY <2>1, <2>2, <2>8, Appended DEF Loops
  <2>10. layouts'[n].offset = o /\ layouts'[n].size = m.size /\ layouts'[n].align = m.align
    <3> HIDE DEF o, m, n
    <3> QED BY <2>9
  <2> HIDE DEF e, m
  <2>11. /\ \A i \in 1 .. n : i = n \/ i \in 1 .. Len(layouts)
         /\ n - 1 = Len(layouts) /\ n # 0
         /\ \A i \in 1 .. Len(layouts) : i - 1 = 0 \/ i - 1 \in 1 .. Len(layouts)
         /\ Len(layouts) = 0 \/ Len(layouts) \in 1 .. Len(layouts)
    BY <2>3
  <2>12. \A i \in 1 .. n : EndMod(layouts', i - 1) = EndMod(layouts, i - 1)
    BY <2>9, <2>11 DEF EndMod, EndIn
  <2>13. o = RoundUp(EndMod(layouts, n - 1), layouts'[n].align) % Word
    BY <2>10, <2>11 DEF Chained
  <2>14. Chain(layouts')
    <3> HIDE DEF o, n
    <3> QED BY <2>9, <2>10, <2>11, <2>12, <2>13 DEF Chained, Chain
  <2>15. offset' = EndMod(layouts', n)
    <3> HIDE DEF o, n
    <3> QED BY <2>7, <2>10, <2>11 DEF EndMod, EndIn
  <2> HIDE DEF n
  <2> QED BY <2>1, <2>9, <2>14, <2>15 DEF Chained
<1>3. CASE RoundRecord
  <2>1. UNCHANGED <<layouts, offset>> /\ recordSize' = RoundUp(offset, 8) % Word
    BY <1>3 DEF RoundRecord
  <2> QED BY <2>1 DEF Chained, Chain, EndMod, EndIn
<1> QED BY <1>1, <1>2, <1>3 DEF LayoutStep

LEMMA RestChained ==
  ASSUME Chained, LayoutReturn \/ UNCHANGED layoutVars
  PROVE  Chained'
<1>1. UNCHANGED <<layouts, offset, recordSize>> /\ (stage' = "done" => stage = "done")
  BY DEF LayoutReturn, layoutVars
<1> QED BY <1>1 DEF Chained, Chain, EndMod, EndIn
=============================================================================
