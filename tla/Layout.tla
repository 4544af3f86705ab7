------------------------------- MODULE Layout -------------------------------
(***************************************************************************)
(* ComputeLayout of layout.go, loop by loop: it checks every field and     *)
(* takes its size and alignment, then places the fields in declaration     *)
(* order after the record's counter, then rounds the record up.  Offsets   *)
(* and sizes are uint32: every sum is modulo Word (2^32), and nothing in   *)
(* the code checks for that.                                               *)
(*                                                                         *)
(* Calls are the argument lists it is called with; there is no bound.      *)
(***************************************************************************)
EXTENDS Naturals, Sequences

CONSTANTS
  Word,    \* 2^32
  Calls    \* argument lists: sequences of [name, type, maxSize]

ASSUME WordAssumption == Word \in Nat /\ Word > 16
ASSUME CallsAssumption ==
  \A fs \in Calls : /\ fs \in Seq({fs[i] : i \in DOMAIN fs})
                    /\ \A i \in DOMAIN fs : fs[i].maxSize \in 0 .. Word - 1

VARIABLES
  stage,       \* "idle", "check", "place", "round", "done" or "error"
  fields,      \* the argument
  seen,        \* the names checked so far
  metas,       \* [size, align] of the fields checked so far
  layouts,     \* [offset, size, align] of the fields placed so far
  offset,      \* the end of the last field placed
  recordSize,
  wrapped      \* history: a sum was Word or more

layoutVars == <<stage, fields, seen, metas, layouts, offset, recordSize, wrapped>>

SeqFieldSize == 8

FixedWidth ==
  [bool |-> 1, int8 |-> 1, uint8 |-> 1, int16 |-> 2, uint16 |-> 2, int32 |-> 4,
   uint32 |-> 4, float32 |-> 4, int64 |-> 8, uint64 |-> 8, float64 |-> 8]
VarLen == {"string", "bytes"}

\* fieldSizeAlign
SizeOf(f) == IF f.type \in VarLen THEN 4 + f.maxSize ELSE FixedWidth[f.type]
AlignOf(f) == IF f.type \in VarLen THEN 4 ELSE FixedWidth[f.type]
Invalid(f) ==
  IF f.type \in VarLen THEN f.maxSize = 0 \/ f.maxSize > (Word - 1) - 4
  ELSE f.type \notin DOMAIN FixedWidth

\* n rounded up to a multiple of a, before it wraps
RoundUpNot(n, a) == n
RoundUpAlways(n, a) == n + (a - (n % a))
RoundUp(n, a) == IF n % a = 0 THEN n ELSE n + (a - (n % a))
-----------------------------------------------------------------------------

LayoutInit ==
  /\ stage = "idle"
  /\ fields = <<>> /\ seen = {} /\ metas = <<>>
  /\ layouts = <<>> /\ offset = SeqFieldSize /\ recordSize = 0
  /\ wrapped = FALSE

ComputeLayout(fs) ==
  /\ stage = "idle"
  /\ stage' = IF fs = <<>> THEN "error" ELSE "check"
  /\ fields' = fs /\ seen' = {} /\ metas' = <<>>
  /\ layouts' = <<>> /\ offset' = SeqFieldSize /\ recordSize' = 0
  /\ wrapped' = FALSE

(* The first loop: one field.                                              *)
CheckFieldForgetting ==
  LET f == fields[Len(metas) + 1] IN
  /\ stage = "check"
  /\ f.name \notin seen /\ ~Invalid(f)
  /\ seen' = {f.name}
  /\ metas' = Append(metas, [size |-> SizeOf(f), align |-> AlignOf(f)])
  /\ stage' = IF Len(metas') = Len(fields) THEN "place" ELSE "check"
  /\ UNCHANGED <<fields, layouts, offset, recordSize, wrapped>>
CheckField ==
  LET f == fields[Len(metas) + 1] IN
  /\ stage = "check"
  /\ f.name \notin seen /\ ~Invalid(f)
  /\ seen' = seen \cup {f.name}
  /\ metas' = Append(metas, [size |-> SizeOf(f), align |-> AlignOf(f)])
  /\ stage' = IF Len(metas') = Len(fields) THEN "place" ELSE "check"
  /\ UNCHANGED <<fields, layouts, offset, recordSize, wrapped>>

RejectField ==
  LET f == fields[Len(metas) + 1] IN
  /\ stage = "check"
  /\ f.name \in seen \/ Invalid(f)
  /\ stage' = "error"
  /\ UNCHANGED <<fields, seen, metas, layouts, offset, recordSize, wrapped>>

(* The second loop: one field.                                             *)
PlaceField ==
  LET m == metas[Len(layouts) + 1]
      start == RoundUp(offset, m.align) IN
  /\ stage = "place"
  /\ layouts' = Append(layouts, [offset |-> start % Word, size |-> m.size, align |-> m.align])
  /\ offset' = (start + m.size) % Word
  /\ wrapped' = (wrapped \/ start + m.size >= Word)
  /\ stage' = IF Len(layouts') = Len(metas) THEN "round" ELSE "place"
  /\ UNCHANGED <<fields, seen, metas, recordSize>>

RoundRecord ==
  /\ stage = "round" /\ stage' = "done"
  /\ recordSize' = RoundUp(offset, 8) % Word
  /\ wrapped' = (wrapped \/ RoundUp(offset, 8) >= Word)
  /\ UNCHANGED <<fields, seen, metas, layouts, offset>>

LayoutStep == CheckField \/ RejectField \/ PlaceField \/ RoundRecord

LayoutReturn ==
  /\ stage \in {"done", "error"} /\ stage' = "idle"
  /\ UNCHANGED <<fields, seen, metas, layouts, offset, recordSize, wrapped>>

LayoutNext == (\E fs \in Calls : ComputeLayout(fs)) \/ LayoutStep \/ LayoutReturn

LayoutSpec == LayoutInit /\ [][LayoutNext]_layoutVars
-----------------------------------------------------------------------------

LayoutTypeOK ==
  /\ stage \in {"idle", "check", "place", "round", "done", "error"}
  /\ DOMAIN metas \subseteq DOMAIN fields /\ DOMAIN layouts \subseteq DOMAIN metas
  /\ \A i \in DOMAIN metas :
       metas[i].size \in 1 .. Word - 1 /\ metas[i].align \in {1, 2, 4, 8}
  /\ \A i \in DOMAIN layouts : layouts[i].offset \in 0 .. Word - 1
  /\ offset \in 0 .. Word - 1 /\ recordSize \in 0 .. Word - 1
  /\ wrapped \in BOOLEAN

EndOf(i) == layouts[i].offset + layouts[i].size

(* As long as no sum has wrapped, every placed field is aligned, lies      *)
(* behind the counter, behind every field placed before it and within what *)
(* has been used of the record, and the size of a finished record keeps    *)
(* the counter and the fields of the next one aligned.                     *)
FieldsApart ==
  ~wrapped =>
    /\ \A i \in DOMAIN layouts :
         /\ layouts[i].offset % layouts[i].align = 0
         /\ layouts[i].offset >= SeqFieldSize
         /\ EndOf(i) <= offset
    /\ \A i, j \in DOMAIN layouts : i < j => EndOf(i) <= layouts[j].offset
    /\ stage = "done" => offset <= recordSize /\ recordSize % 8 = 0

(* No layout of the fields in this order is shorter: no field leaves room  *)
(* before it that its alignment does not need, and neither does the end of *)
(* the record.                                                             *)
Compact ==
  ~wrapped =>
    /\ \A i \in DOMAIN layouts :
         layouts[i].offset - (IF i = 1 THEN SeqFieldSize ELSE EndOf(i - 1)) < layouts[i].align
    /\ stage = "done" => recordSize - offset < 8

(* ComputeLayout rejects exactly the argument lists that are empty, name a *)
(* field twice or have a field of no usable type or size.                  *)
Valid(fs) ==
  /\ fs # <<>>
  /\ \A i \in DOMAIN fs : ~Invalid(fs[i])
  /\ \A i, j \in DOMAIN fs : i # j => fs[i].name # fs[j].name
RejectsInvalid ==
  /\ stage = "error" => ~Valid(fields)
  /\ stage = "done" => Valid(fields)
=============================================================================
