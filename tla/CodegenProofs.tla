---------------------------- MODULE CodegenProofs ---------------------------
(***************************************************************************)
(* Proofs about Codegen, for any source files, however many their structs  *)
(* and fields, and any width of the integers.                              *)
(*                                                                         *)
(* The inductive invariant CInv adds to that of the layout engine where    *)
(* the generator is in its work (Order), that schemas hold what the parser *)
(* has read (Mirrored) of every struct it has passed (Covered), that nodes *)
(* hold what ComputeLayout has returned for their schemas (LaidOut), and   *)
(* which files are there (Stored).                                         *)
(***************************************************************************)
EXTENDS Codegen, LayoutProofs

\* a sequence of anything
Sequence(s) == List(s, {s[i] : i \in DOMAIN s})
Sized(fs) == Sequence(fs) /\ \A i \in 1 .. Len(fs) : fs[i].maxSize \in 0 .. Word - 1

Typed ==
  /\ source \in Sources
  /\ phase \in {"parse", "graph", "gen", "ok", "failed"}
  /\ at \in Nat /\ at >= 1 /\ decl \in Nat /\ decl >= 1
  /\ Sized(parsed) /\ Sequence(schemas) /\ Sequence(nodes)
  /\ \A k \in 1 .. Len(schemas) : Sized(schemas[k].fields)

Order ==
  /\ Len(nodes) <= Len(schemas) /\ Len(schemas) <= Len(source)
  /\ phase = "parse" =>
       /\ at <= Len(source) + 1 /\ Len(schemas) < at /\ Len(nodes) = 0
       /\ Len(parsed) < decl
       /\ decl > 1 => at <= Len(source) /\ Annotated(source[at])
       /\ at <= Len(source) => decl <= Len(source[at].fields) + 1
  /\ phase = "graph" => at = Len(nodes) + 1
  /\ phase = "gen" => at <= 2 * Len(nodes) + 1
  /\ phase = "ok" => at > 2 * Len(nodes)
  /\ phase \in {"gen", "ok"} => Len(nodes) = Len(schemas)
  /\ stage # "idle" => phase = "graph" /\ at <= Len(schemas) /\ fields = schemas[at].fields
  /\ phase \in {"parse", "graph"} => DOMAIN files = {}
  /\ DOMAIN files # {} => Len(nodes) = Len(schemas)

\* fs is what parseFields makes of the first n of the declarations ds
Mirror(fs, ds, n) ==
  /\ \A i \in 1 .. n : Named(ds[i]) => ~Unparsable(ds[i])
  /\ (\A i \in 1 .. n : Len(ds[i].names) = 1) =>
       /\ Len(fs) = n
       /\ \A i \in 1 .. n : fs[i].goName = ds[i].names[1] /\ GoTypeOf(fs[i].type) = ds[i].type

Mirrored ==
  /\ \A k \in 1 .. Len(schemas) :
       /\ schemas[k].decl \in 1 .. Len(source)
       /\ Mirror(schemas[k].fields, source[schemas[k].decl].fields,
                 Len(source[schemas[k].decl].fields))
  /\ phase = "parse" /\ at <= Len(source) => Mirror(parsed, source[at].fields, decl - 1)

\* the parser is done with the d-th struct
Passed(d) ==
  \/ phase = "parse" /\ d < at
  \/ phase \in {"graph", "gen", "ok"}
  \/ DOMAIN files # {}
Covered ==
  \A d \in 1 .. Len(source) : Annotated(source[d]) /\ Passed(d) =>
    \E k \in 1 .. Len(schemas) : schemas[k].decl = d

\* n is a node with the layout of the fields fs
Laid(n, fs) ==
  /\ List(n.layouts, FieldLayout) /\ Len(n.layouts) = Len(fs)
  /\ Valid(fs) /\ n.recordSize \in 0 .. Word - 1
  /\ \A i \in 1 .. Len(fs) : n.layouts[i].size = SizeOf(fs[i]) /\ n.layouts[i].align = AlignOf(fs[i])
  /\ Chain(n.layouts)
  /\ n.recordSize = RoundUp(EndMod(n.layouts, Len(fs)), 8) % Word
  /\ ~n.wrapped =>
       /\ \A i \in 1 .. Len(fs) : n.layouts[i].offset >= SeqFieldSize
                                  /\ EndIn(n.layouts, i) <= n.recordSize
       /\ \A i, j \in 1 .. Len(fs) : i < j => EndIn(n.layouts, i) <= n.layouts[j].offset

LaidOut ==
  \A k \in 1 .. Len(nodes) : nodes[k].schema = k /\ Laid(nodes[k], schemas[k].fields)

\* no other schema's file has the name of the k-th one's
OwnName(k) ==
  \A j \in 1 .. Len(nodes) : j # k => LowerCase[schemas[j].name] # LowerCase[schemas[k].name]
Entry(e, n) == e.node \in 1 .. n /\ e.whole \in BOOLEAN
Stored ==
  /\ \A f \in DOMAIN files : Entry(files[f], Len(nodes))
  /\ phase \in {"gen", "ok"} =>
       \A k \in 1 .. Len(nodes), t \in {1, 2} : 2 * (k - 1) + t < at /\ OwnName(k) =>
         /\ FileOf(k, Templates[t]) \in DOMAIN files
         /\ files[FileOf(k, Templates[t])] = [node |-> k, whole |-> TRUE]

CInv == LInv /\ Chained /\ Typed /\ Order /\ Mirrored /\ Covered /\ LaidOut /\ Stored
-----------------------------------------------------------------------------

LEMMA ListIsSequence ==
  ASSUME NEW S, NEW s, List(s, S)
  PROVE  Sequence(s)
BY DEF List, Sequence

LEMMA SequenceFacts ==
  ASSUME NEW s, Sequence(s)
  PROVE  Len(s) \in Nat /\ DOMAIN s = 1 .. Len(s) /\ (Len(s) = 0 => s = <<>>)
BY DEF List, Sequence

LEMMA Grown ==
  ASSUME NEW s, Sequence(s), NEW e
  PROVE  /\ Sequence(Append(s, e)) /\ Len(Append(s, e)) = Len(s) + 1
         /\ \A i \in 1 .. Len(s) : Append(s, e)[i] = s[i]
         /\ Append(s, e)[Len(s) + 1] = e
<1> DEFINE S == {s[i] : i \in DOMAIN s} \cup {e}
<1>1. List(s, S)
  BY DEF Sequence, List
<1>2. e \in S
  OBVIOUS
<1> HIDE DEF S
<1> QED BY <1>1, <1>2, Appended, ListIsSequence

LEMMA None ==
  ASSUME NEW s, s = <<>>
  PROVE  Sequence(s) /\ Len(s) = 0 /\ DOMAIN s = {}
BY DEF Sequence, List

LEMMA Unnamed ==
  ASSUME NEW d, ~Named(d)
  PROVE  Len(d.names) # 1
<1>1. PICK s : s = d.names
  OBVIOUS
<1>2. s = <<>>
  BY <1>1 DEF Named
<1> QED BY <1>1, <1>2, None

LEMMA SizedAreFields ==
  ASSUME NEW fs, Sized(fs)
  PROVE  Fields(fs)
<1>1. Sequence(fs) /\ \A i \in 1 .. Len(fs) : fs[i].maxSize \in 0 .. Word - 1
  BY DEF Sized
<1>2. Len(fs) = 0 <=> fs = <<>>
  BY <1>1, SequenceFacts, None
<1> QED BY <1>1, <1>2, SequenceFacts DEF Fields

LEMMA SourceFacts ==
  ASSUME NEW src \in Sources
  PROVE  /\ Len(src) \in Nat /\ DOMAIN src = 1 .. Len(src)
         /\ \A d \in 1 .. Len(src) :
              /\ Len(src[d].fields) \in Nat /\ DOMAIN src[d].fields = 1 .. Len(src[d].fields)
              /\ \A i \in 1 .. Len(src[d].fields) :
                   src[d].fields[i].tagSize \in (0 .. Word - 1) \cup {BadSize}
<1>1. List(src, {src[d] : d \in DOMAIN src})
  BY SourcesAssumption DEF List
<1>2. ASSUME NEW d \in DOMAIN src
      PROVE  /\ Len(src[d].fields) \in Nat /\ DOMAIN src[d].fields = 1 .. Len(src[d].fields)
             /\ \A i \in DOMAIN src[d].fields :
                  src[d].fields[i].tagSize \in (0 .. Word - 1) \cup {BadSize}
  <2>1. List(src[d].fields, {src[d].fields[i] : i \in DOMAIN src[d].fields})
    BY SourcesAssumption DEF List
  <2> QED BY <2>1, ListFacts, SourcesAssumption
<1>3. Len(src) \in Nat /\ DOMAIN src = 1 .. Len(src)
  BY <1>1, ListFacts
<1> QED BY <1>2, <1>3

LEMMA ParsedFits ==
  ASSUME NEW d, ~Unparsable(d), d.tagSize \in (0 .. Word - 1) \cup {BadSize},
         NEW f, f = ParsedField(d)
  PROVE  f.maxSize \in 0 .. Word - 1 /\ f.goName = d.names[1] /\ GoTypeOf(f.type) = d.type
<1>1. f.maxSize = d.tagSize /\ f.goName = d.names[1] /\ f.type = FieldTypeOf(d.type)
  BY DEF ParsedField
<1>2. d.type \in GoTypes /\ d.tagSize # BadSize
  BY DEF Unparsable
<1>3. GoTypeOf(FieldTypeOf(d.type)) = d.type
  <2>1. "bytes" \notin GoTypes
    BY DEF GoTypes, FixedWidth
  <2> QED BY <1>2, <2>1 DEF GoTypeOf, FieldTypeOf
<1> QED BY <1>1, <1>2, <1>3
-----------------------------------------------------------------------------

LEMMA Counts ==
  ASSUME Typed
  PROVE  /\ Len(source) \in Nat /\ DOMAIN source = 1 .. Len(source)
         /\ Len(schemas) \in Nat /\ DOMAIN schemas = 1 .. Len(schemas)
         /\ Len(nodes) \in Nat /\ DOMAIN nodes = 1 .. Len(nodes)
         /\ Len(parsed) \in Nat /\ DOMAIN parsed = 1 .. Len(parsed)
BY SourceFacts, SequenceFacts DEF Typed, Sized

LEMMA InitCInv == Init => CInv
<1> SUFFICES ASSUME Init PROVE CInv
  OBVIOUS
<1>1. /\ source \in Sources /\ phase = "parse" /\ at = 1 /\ decl = 1 /\ stage = "idle"
      /\ parsed = <<>> /\ schemas = <<>> /\ nodes = <<>> /\ files = <<>>
  BY DEF Init, LayoutInit
<1>2. /\ Sequence(parsed) /\ Sequence(schemas) /\ Sequence(nodes)
      /\ Len(parsed) = 0 /\ Len(schemas) = 0 /\ Len(nodes) = 0 /\ DOMAIN files = {}
  BY <1>1, None
<1>3. LInv
  BY InitLInv DEF Init
<1>4. Chained
  <2>1. layouts = <<>> /\ offset = SeqFieldSize
    BY DEF Init, LayoutInit
  <2>2. Len(layouts) = 0
    BY <2>1, None
  <2> QED BY <1>1, <2>1, <2>2 DEF Chained, Chain, EndMod
<1>5. Typed
  BY <1>1, <1>2 DEF Typed, Sized
<1>6. Order
  BY <1>1, <1>2, SourceFacts DEF Order
<1>7. Mirrored /\ Covered
  BY <1>1, <1>2 DEF Mirrored, Mirror, Covered, Passed
<1>8. LaidOut /\ Stored
  BY <1>1, <1>2 DEF LaidOut, Stored
<1> QED BY <1>3, <1>4, <1>5, <1>6, <1>7, <1>8 DEF CInv

\* while the parser runs there are no nodes and no files
LEMMA ParseRest ==
  ASSUME CInv, phase = "parse", UNCHANGED <<layoutVars, source, nodes, files>>,
         phase' \in {"parse", "graph", "failed"}
  PROVE  LInv' /\ Chained' /\ LaidOut' /\ Stored'
<1>1. LInv /\ Chained /\ Len(nodes) = 0 /\ DOMAIN files = {}
  BY DEF CInv, Order
<1>2. LInv' /\ Chained'
  BY <1>1, RestLInv, RestChained
<1> QED BY <1>1, <1>2 DEF LaidOut, Stored

LEMMA SkipStructCInv ==
  ASSUME CInv, SkipStruct
  PROVE  CInv'
<1>1. /\ phase = "parse" /\ at \in DOMAIN source /\ ~Annotated(source[at]) /\ at' = at + 1
      /\ UNCHANGED <<layoutVars, source, phase, decl, parsed, schemas, nodes, files>>
  BY DEF SkipStruct, parseVars
<1>2. Typed /\ Order /\ Mirrored /\ Covered
  BY DEF CInv
<1>3. at \in 1 .. Len(source) /\ Len(source) \in Nat
  BY <1>1, <1>2, Counts
<1>4. decl = 1 /\ Len(parsed) = 0
  BY <1>1, <1>2, Counts DEF Order, Typed
<1>5. Typed'
  BY <1>1, <1>2 DEF Typed
<1>6. Order'
  <2>1. stage' = stage
    BY <1>1 DEF layoutVars
  <2>2. \A d \in 1 .. Len(source) : Len(source[d].fields) \in Nat
    BY <1>2, SourceFacts DEF Typed
  <2>3. stage = "idle"
    BY <1>1, <1>2 DEF Order
  <2>4. at' <= Len(source) + 1 /\ Len(schemas) < at'
    BY <1>1, <1>2, <1>3, Counts DEF Order
  <2>5. at' <= Len(source) => decl <= Len(source[at'].fields) + 1
    BY <1>1, <1>3, <1>4, <2>2
  <2> QED BY <1>1, <1>2, <1>4, <2>1, <2>3, <2>4, <2>5 DEF Order
<1>7. Mirrored'
  BY <1>1, <1>2, <1>4 DEF Mirrored, Mirror
<1>8. Covered'
  <2>1. \A d \in 1 .. Len(source) : d < at' => d < at \/ d = at
    BY <1>1, <1>3
  <2> QED BY <1>1, <1>2, <2>1 DEF Covered, Passed
<1> QED BY <1>1, <1>5, <1>6, <1>7, <1>8, ParseRest DEF CInv

LEMMA InFieldFacts ==
  ASSUME CInv, InField
  PROVE  /\ phase = "parse" /\ at \in 1 .. Len(source) /\ Annotated(source[at])
         /\ decl \in 1 .. Len(source[at].fields) /\ Len(source[at].fields) \in Nat
         /\ source[at].fields[decl].tagSize \in (0 .. Word - 1) \cup {BadSize}
         /\ Mirror(parsed, source[at].fields, decl - 1) /\ Len(parsed) < decl
         /\ stage = "idle" /\ Len(parsed) \in Nat
<1>1. Typed /\ Order /\ Mirrored
  BY DEF CInv
<1>2. /\ phase = "parse" /\ at \in DOMAIN source /\ Annotated(source[at])
      /\ decl \in DOMAIN source[at].fields
  BY DEF InField, InStruct
<1>3. at \in 1 .. Len(source) /\ Len(source) \in Nat /\ Len(parsed) \in Nat
  BY <1>1, <1>2, Counts
<1>4. /\ decl \in 1 .. Len(source[at].fields) /\ Len(source[at].fields) \in Nat
      /\ source[at].fields[decl].tagSize \in (0 .. Word - 1) \cup {BadSize}
  BY <1>1, <1>2, <1>3, SourceFacts DEF Typed
<1>5. Mirror(parsed, source[at].fields, decl - 1)
  BY <1>1, <1>2, <1>3 DEF Mirrored
<1>6. Len(parsed) < decl /\ stage = "idle"
  BY <1>1, <1>2 DEF Order
<1> QED BY <1>2, <1>3, <1>4, <1>5, <1>6

\* one more declaration is read
LEMMA FieldCInv ==
  ASSUME CInv, InField, decl' = decl + 1,
         UNCHANGED <<layoutVars, source, phase, at, schemas, nodes, files>>,
         Sized(parsed'), Len(parsed') \in Nat, Len(parsed') <= Len(parsed) + 1,
         Mirror(parsed', source[at].fields, decl)
  PROVE  CInv'
<1>1. Typed /\ Order /\ Mirrored /\ Covered
  BY DEF CInv
<1>2. Typed'
  BY <1>1 DEF Typed
<1>3. Order'
  <2>1. stage' = "idle"
    BY InFieldFacts DEF layoutVars
  <2>2. Len(parsed') < decl' /\ decl' <= Len(source[at].fields) + 1 /\ at <= Len(source)
    BY <1>1, InFieldFacts, Counts
  <2> QED BY <1>1, <2>1, <2>2, InFieldFacts DEF Order
<1>4. Mirrored'
  <2>1. decl' - 1 = decl
    BY InFieldFacts
  <2> QED BY <1>1, <2>1 DEF Mirrored
<1>5. Covered'
  BY <1>1 DEF Covered, Passed
<1>6. phase = "parse" /\ phase' = "parse"
  BY InFieldFacts
<1> QED BY <1>2, <1>3, <1>4, <1>5, <1>6, ParseRest DEF CInv

LEMMA SkipFieldCInv ==
  ASSUME CInv, SkipField
  PROVE  CInv'
<1> DEFINE ds == source[at].fields
<1>1. /\ InField /\ ~Named(ds[decl]) /\ decl' = decl + 1
      /\ UNCHANGED <<layoutVars, source, phase, at, parsed, schemas, nodes, files>>
  BY DEF SkipField
<1>2. Sized(parsed) /\ Len(parsed) \in Nat
  BY Counts DEF CInv, Typed
<1>3. Len(ds[decl].names) # 1
  BY <1>1, Unnamed
<1>4. Mirror(parsed', ds, decl)
  <2>1. Mirror(parsed, ds, decl - 1) /\ decl \in Nat /\ decl >= 1
    BY <1>1, InFieldFacts
  <2>2. decl \in 1 .. decl /\ \A i \in 1 .. decl : i = decl \/ i \in 1 .. decl - 1
    BY <2>1
  <2> HIDE DEF ds
  <2> QED BY <1>1, <1>3, <2>1, <2>2 DEF Mirror
<1> QED BY <1>1, <1>2, <1>4, FieldCInv

LEMMA ParseFieldCInv ==
  ASSUME CInv, ParseField
  PROVE  CInv'
<1> DEFINE ds == source[at].fields
           f == ParsedField(ds[decl])
<1>1. /\ InField /\ Named(ds[decl]) /\ ~Unparsable(ds[decl])
      /\ parsed' = Append(parsed, f) /\ decl' = decl + 1
      /\ UNCHANGED <<layoutVars, source, phase, at, schemas, nodes, files>>
  BY DEF ParseField
<1>2. Sized(parsed) /\ Sequence(parsed) /\ Len(parsed) \in Nat
  BY Counts DEF CInv, Typed, Sized
<1>3. /\ f.maxSize \in 0 .. Word - 1 /\ f.goName = ds[decl].names[1]
      /\ GoTypeOf(f.type) = ds[decl].type
  BY <1>1, InFieldFacts, ParsedFits
<1> HIDE DEF f
<1>4. /\ Sequence(parsed') /\ Len(parsed') = Len(parsed) + 1
      /\ \A i \in 1 .. Len(parsed) : parsed'[i] = parsed[i]
      /\ parsed'[Len(parsed) + 1] = f
  BY <1>1, <1>2, Grown
<1>5. Sized(parsed')
  <2>1. \A i \in 1 .. Len(parsed) + 1 : i = Len(parsed) + 1 \/ i \in 1 .. Len(parsed)
    BY <1>2
  <2> QED BY <1>2, <1>3, <1>4, <2>1 DEF Sized
<1>6. Mirror(parsed', ds, decl)
  <2>1. Mirror(parsed, ds, decl - 1) /\ decl \in Nat /\ decl >= 1
    BY <1>1, InFieldFacts
  <2>2. decl \in 1 .. decl /\ \A i \in 1 .. decl : i = decl \/ i \in 1 .. decl - 1
    BY <2>1
  <2>3. 1 .. decl - 1 \subseteq 1 .. decl
    BY <2>1
  <2>4. Len(parsed) = decl - 1 => Len(parsed) + 1 = decl
    BY <2>1
  <2> HIDE DEF ds
  <2>5. \A i \in 1 .. decl : Named(ds[i]) => ~Unparsable(ds[i])
    BY <1>1, <2>1, <2>2 DEF Mirror
  <2>6. ASSUME \A i \in 1 .. decl : Len(ds[i].names) = 1
        PROVE  /\ Len(parsed') = decl
               /\ \A i \in 1 .. decl :
                    parsed'[i].goName = ds[i].names[1] /\ GoTypeOf(parsed'[i].type) = ds[i].type
    <3>1. /\ Len(parsed) = decl - 1
          /\ \A i \in 1 .. decl - 1 :
               parsed[i].goName = ds[i].names[1] /\ GoTypeOf(parsed[i].type) = ds[i].type
      BY <2>1, <2>3, <2>6 DEF Mirror
    <3>2. Len(parsed') = decl /\ parsed'[decl] = f
      BY <1>4, <2>4, <3>1
    <3>3. \A i \in 1 .. decl - 1 : parsed'[i] = parsed[i]
      BY <1>4, <3>1
    <3> QED BY <1>3, <2>2, <3>1, <3>2, <3>3
  <2> QED BY <2>5, <2>6 DEF Mirror
<1> QED BY <1>1, <1>2, <1>4, <1>5, <1>6, FieldCInv

LEMMA FailedCInv ==
  ASSUME CInv, Failed, UNCHANGED files, stage' = "idle"
  PROVE  Typed' /\ Order' /\ Mirrored' /\ Covered' /\ LaidOut'
<1>1. Typed /\ Order /\ Mirrored /\ Covered /\ LaidOut
  BY DEF CInv
<1>2. phase' = "failed" /\ UNCHANGED <<source, at, decl, parsed, schemas, nodes, files>>
  BY DEF Failed, parseVars
<1>3. Typed'
  BY <1>1, <1>2 DEF Typed
<1>4. Order'
  BY <1>1, <1>2 DEF Order
<1>5. Mirrored'
  BY <1>1, <1>2 DEF Mirrored, Mirror
<1>6. Covered'
  BY <1>1, <1>2 DEF Covered, Passed
<1>7. LaidOut'
  BY <1>1, <1>2 DEF LaidOut
<1> QED BY <1>3, <1>4, <1>5, <1>6, <1>7

LEMMA ParseFailsCInv ==
  ASSUME CInv, ParseFails
  PROVE  CInv'
<1>1. phase = "parse" /\ Failed /\ UNCHANGED <<layoutVars, files>> /\ stage = "idle"
  BY InFieldFacts DEF ParseFails
<1>2. phase' = "failed" /\ UNCHANGED <<source, nodes>> /\ stage' = "idle"
  BY <1>1 DEF Failed, layoutVars
<1>3. LInv' /\ Chained' /\ Stored'
  BY <1>1, <1>2, ParseRest
<1> QED BY <1>1, <1>2, <1>3, FailedCInv DEF CInv

LEMMA EndStructCInv ==
  ASSUME CInv, EndStruct
  PROVE  CInv'
<1> DEFINE e == [name |-> source[at].name, decl |-> at, fields |-> parsed]
           n == Len(schemas) + 1
<1>1. /\ phase = "parse" /\ at \in DOMAIN source /\ Annotated(source[at])
      /\ decl \notin DOMAIN source[at].fields
      /\ schemas' = Append(schemas, e) /\ at' = at + 1 /\ decl' = 1 /\ parsed' = <<>>
      /\ UNCHANGED <<layoutVars, source, phase, nodes, files>>
  BY DEF EndStruct, InStruct
<1>2. Typed /\ Order /\ Mirrored /\ Covered
  BY DEF CInv
<1>3. /\ at \in 1 .. Len(source) /\ Len(source) \in Nat /\ Len(schemas) \in Nat
      /\ Len(nodes) \in Nat /\ Len(parsed) \in Nat
  BY <1>1, <1>2, Counts
<1>4. e.decl = at /\ e.fields = parsed
  OBVIOUS
<1> HIDE DEF e
<1>5. /\ Sequence(schemas') /\ Len(schemas') = n /\ schemas'[n] = e
      /\ \A k \in 1 .. Len(schemas) : schemas'[k] = schemas[k]
  BY <1>1, <1>2, Grown DEF Typed
<1>6. \A k \in 1 .. n : k = n \/ k \in 1 .. Len(schemas)
  BY <1>3
<1>7. Sequence(parsed') /\ Len(parsed') = 0
  BY <1>1, None
<1>8. decl = Len(source[at].fields) + 1
  <2>1. /\ decl <= Len(source[at].fields) + 1 /\ decl \in Nat /\ decl >= 1
        /\ Len(source[at].fields) \in Nat /\ DOMAIN source[at].fields = 1 .. Len(source[at].fields)
    BY <1>1, <1>2, <1>3, SourceFacts DEF Order, Typed
  <2> QED BY <1>1, <2>1
<1>9. Typed'
  <2>1. Sized(parsed')
    BY <1>7 DEF Sized
  <2>2. \A k \in 1 .. n : Sized(schemas'[k].fields)
    BY <1>2, <1>4, <1>5, <1>6 DEF Typed
  <2> HIDE DEF n
  <2>3. at' \in Nat /\ at' >= 1
    BY <1>1, <1>3
  <2> QED BY <1>1, <1>2, <1>5, <2>1, <2>2, <2>3 DEF Typed
<1>10. Order'
  <2>1. stage' = stage
    BY <1>1 DEF layoutVars
  <2>2. \A d \in 1 .. Len(source) : Len(source[d].fields) \in Nat
    BY <1>2, SourceFacts DEF Typed
  <2>3. stage = "idle" /\ Len(nodes) = 0 /\ Len(schemas) < at
    BY <1>1, <1>2 DEF Order
  <2>4. at' <= Len(source) + 1 /\ Len(schemas') < at' /\ Len(schemas') <= Len(source)
        /\ Len(nodes) <= Len(schemas')
    BY <1>1, <1>3, <1>5, <2>3
  <2>5. at' <= Len(source) => decl' <= Len(source[at'].fields) + 1
    BY <1>1, <1>3, <2>2
  <2> QED BY <1>1, <1>2, <1>7, <2>1, <2>3, <2>4, <2>5 DEF Order
<1>11. Mirrored'
  <2>1. Mirror(parsed, source[at].fields, Len(source[at].fields))
    <3>1. decl - 1 = Len(source[at].fields)
      BY <1>2, <1>3, <1>8, SourceFacts DEF Typed
    <3> QED BY <1>1, <1>2, <1>3, <3>1 DEF Mirrored
  <2>2. \A k \in 1 .. n :
          /\ schemas'[k].decl \in 1 .. Len(source)
          /\ Mirror(schemas'[k].fields, source[schemas'[k].decl].fields,
                    Len(source[schemas'[k].decl].fields))
    BY <1>2, <1>3, <1>4, <1>5, <1>6, <2>1 DEF Mirrored
  <2>3. Mirror(parsed', source[at'].fields, decl' - 1)
    BY <1>1, <1>7 DEF Mirror
  <2> HIDE DEF n
  <2> QED BY <1>1, <1>5, <2>2, <2>3 DEF Mirrored
<1>12. Covered'
  <2>1. \A d \in 1 .. Len(source) : d < at' => d < at \/ d = at
    BY <1>1, <1>3
  <2>2. n \in 1 .. n /\ 1 .. Len(schemas) \subseteq 1 .. n
    BY <1>3
  <2>3. DOMAIN files = {}
    BY <1>1, <1>2 DEF Order
  <2> HIDE DEF n
  <2>4. ASSUME NEW d \in 1 .. Len(source), Annotated(source[d]), d < at'
        PROVE  \E k \in 1 .. n : schemas'[k].decl = d
    <3>1. CASE d = at
      BY <1>4, <1>5, <2>2, <3>1
    <3>2. CASE d < at
      <4>1. PICK k \in 1 .. Len(schemas) : schemas[k].decl = d
        BY <1>1, <1>2, <2>4, <3>2 DEF Covered, Passed
      <4> QED BY <1>5, <2>2, <4>1
    <3> QED BY <2>1, <2>4, <3>1, <3>2
  <2> QED BY <1>1, <1>5, <2>3, <2>4 DEF Covered, Passed
<1> QED BY <1>1, <1>9, <1>10, <1>11, <1>12, ParseRest DEF CInv

LEMMA EndParseCInv ==
  ASSUME CInv, EndParse
  PROVE  CInv'
<1>1. /\ phase = "parse" /\ at \notin DOMAIN source /\ at' = 1
      /\ phase' = (IF schemas = <<>> THEN "failed" ELSE "graph")
      /\ UNCHANGED <<layoutVars, source, decl, parsed, schemas, nodes, files>>
  BY DEF EndParse, parseVars
<1>2. Typed /\ Order /\ Mirrored /\ Covered
  BY DEF CInv
<1>3. Typed'
  BY <1>1, <1>2 DEF Typed
<1>4. Order'
  <2>1. stage' = stage
    BY <1>1 DEF layoutVars
  <2> QED BY <1>1, <1>2, <2>1 DEF Order
<1>5. Mirrored'
  BY <1>1, <1>2 DEF Mirrored, Mirror
<1>6. Covered'
  <2>1. \A d \in 1 .. Len(source) : d < at
    BY <1>1, <1>2, Counts DEF Typed
  <2> QED BY <1>1, <1>2, <2>1 DEF Covered, Passed
<1> QED BY <1>1, <1>3, <1>4, <1>5, <1>6, ParseRest DEF CInv
-----------------------------------------------------------------------------

\* while a layout is computed
LEMMA LayoutRest ==
  ASSUME CInv, UNCHANGED <<source, phase, at, parseVars, schemas, nodes, files>>
  PROVE  Typed' /\ Mirrored' /\ Covered' /\ LaidOut' /\ Stored'
<1>1. Typed /\ Mirrored /\ Covered /\ LaidOut /\ Stored
  BY DEF CInv
<1>2. UNCHANGED <<source, phase, at, decl, parsed, schemas, nodes, files>>
  BY DEF parseVars
<1>3. Typed' /\ Mirrored'
  BY <1>1, <1>2 DEF Typed, Mirrored, Mirror
<1>4. Covered' /\ LaidOut'
  BY <1>1, <1>2 DEF Covered, Passed, LaidOut
<1>5. Stored'
  BY <1>1, <1>2 DEF Stored, OwnName, FileOf
<1> QED BY <1>3, <1>4, <1>5

LEMMA CallLayoutCInv ==
  ASSUME CInv, CallComputeLayout
  PROVE  CInv'
<1> DEFINE fs == schemas[at].fields
<1>1. /\ phase = "graph" /\ at \in DOMAIN schemas /\ ComputeLayout(fs)
      /\ UNCHANGED <<source, phase, at, parseVars, schemas, nodes, files>>
  BY DEF CallComputeLayout
<1>2. Typed /\ Order
  BY DEF CInv
<1>3. at \in 1 .. Len(schemas) /\ Len(schemas) \in Nat
  BY <1>1, <1>2, Counts
<1>4. Fields(fs)
  BY <1>2, <1>3, SizedAreFields DEF Typed
<1>5. fields' = fs
  BY <1>1 DEF ComputeLayout
<1> HIDE DEF fs
<1>6. LInv' /\ Chained'
  BY <1>1, <1>4, CallLInv, CallChained
<1>7. Order'
  BY <1>1, <1>2, <1>3, <1>5 DEF Order, fs, parseVars
<1> QED BY <1>1, <1>6, <1>7, LayoutRest DEF CInv

LEMMA ComputingCInv ==
  ASSUME CInv, ComputingLayout
  PROVE  CInv'
<1>1. LayoutStep /\ UNCHANGED <<source, phase, at, parseVars, schemas, nodes, files>>
  BY DEF ComputingLayout
<1>2. LInv' /\ Chained'
  BY <1>1, StepLInv, StepChained DEF CInv
<1>3. stage # "idle" /\ UNCHANGED fields
  BY <1>1 DEF LayoutStep, CheckField, RejectField, PlaceField, RoundRecord
<1>4. Order'
  BY <1>1, <1>3 DEF CInv, Order, parseVars
<1> QED BY <1>1, <1>2, <1>4, LayoutRest DEF CInv

\* what ComputeLayout returns is a layout of its argument
LEMMA LaidNode ==
  ASSUME LInv, Chained, stage = "done",
         NEW n, n.layouts = layouts, n.recordSize = recordSize, n.wrapped = wrapped
  PROVE  Laid(n, fields)
<1>1. Loops /\ Checked /\ Placed /\ Packed /\ RejectsInvalid
  BY LInvImplies DEF LInv
<1>2. /\ Len(fields) \in Nat /\ Len(fields) > 0
      /\ Len(layouts) = Len(fields) /\ Len(metas) = Len(fields)
  <2>1. Len(fields) > 0 /\ Len(layouts) = Len(fields) /\ Len(layouts) <= Len(metas)
        /\ Len(metas) <= Len(fields)
    BY <1>1 DEF Loops
  <2>2. Len(fields) \in Nat /\ Len(metas) \in Nat
    BY <1>1, Lengths
  <2> QED BY <2>1, <2>2
<1>3. List(n.layouts, FieldLayout) /\ Valid(fields) /\ n.recordSize \in 0 .. Word - 1
  BY <1>1 DEF Loops, RejectsInvalid
<1>4. \A i \in 1 .. Len(fields) :
        n.layouts[i].size = SizeOf(fields[i]) /\ n.layouts[i].align = AlignOf(fields[i])
  <2>1. \A i \in 1 .. Len(fields) :
          /\ layouts[i].size = metas[i].size /\ layouts[i].align = metas[i].align
          /\ metas[i] = MetaOf(fields[i])
    BY <1>1, <1>2 DEF Checked, Placed
  <2>2. \A f : MetaOf(f).size = SizeOf(f) /\ MetaOf(f).align = AlignOf(f)
    BY DEF MetaOf
  <2> QED BY <2>1, <2>2
<1>5. Chain(n.layouts) /\ n.recordSize = RoundUp(EndMod(n.layouts, Len(fields)), 8) % Word
  BY <1>2 DEF Chained
<1>6. ASSUME ~n.wrapped
      PROVE  /\ \A i \in 1 .. Len(fields) : n.layouts[i].offset >= SeqFieldSize
                                            /\ EndIn(n.layouts, i) <= n.recordSize
             /\ \A i, j \in 1 .. Len(fields) : i < j => EndIn(n.layouts, i) <= n.layouts[j].offset
  <2>1. ~wrapped
    BY <1>6
  <2>2. /\ \A i \in 1 .. Len(layouts) :
             layouts[i].offset >= SeqFieldSize /\ EndIn(layouts, i) <= offset
        /\ \A i, j \in 1 .. Len(layouts) : i < j => EndIn(layouts, i) <= layouts[j].offset
        /\ offset <= recordSize
    BY <1>1, <2>1 DEF Packed
  <2>3. \A i \in 1 .. Len(layouts) : EndIn(layouts, i) \in Nat
    BY <1>1, Lengths DEF FieldLayout, EndIn
  <2>4. offset \in Nat /\ recordSize \in Nat
    BY <1>1 DEF Loops
  <2> QED BY <1>2, <2>2, <2>3, <2>4
<1> QED BY <1>2, <1>3, <1>4, <1>5, <1>6 DEF Laid

LEMMA AddNodeCInv ==
  ASSUME CInv, AddNode
  PROVE  CInv'
<1> DEFINE e == [schema |-> at, layouts |-> layouts,
                 recordSize |-> recordSize, wrapped |-> wrapped]
           n == Len(nodes) + 1
<1>1. /\ phase = "graph" /\ stage = "done" /\ LayoutReturn
      /\ nodes' = Append(nodes, e) /\ at' = at + 1
      /\ UNCHANGED <<source, phase, decl, parsed, schemas, files>>
  BY DEF AddNode, parseVars
<1>2. Typed /\ Order /\ Mirrored /\ Covered /\ LaidOut /\ Stored /\ LInv /\ Chained
  BY DEF CInv
<1>3. at = n /\ at <= Len(schemas) /\ fields = schemas[at].fields /\ DOMAIN files = {}
  BY <1>1, <1>2 DEF Order
<1>4. /\ Len(source) \in Nat /\ Len(schemas) \in Nat /\ Len(nodes) \in Nat
  BY <1>2, Counts
<1>5. e.schema = at /\ Laid(e, fields)
  <2>1. e.layouts = layouts /\ e.recordSize = recordSize /\ e.wrapped = wrapped
    OBVIOUS
  <2> HIDE DEF e
  <2> QED BY <1>1, <1>2, <2>1, LaidNode DEF e
<1> HIDE DEF e
<1>6. /\ Sequence(nodes') /\ Len(nodes') = n /\ nodes'[n] = e
      /\ \A k \in 1 .. Len(nodes) : nodes'[k] = nodes[k]
  BY <1>1, <1>2, Grown DEF Typed
<1>7. LInv' /\ Chained' /\ stage' = "idle"
  BY <1>1, <1>2, RestLInv, RestChained DEF LayoutReturn
<1>8. Typed'
  <2>1. at' \in Nat /\ at' >= 1
    BY <1>1, <1>3, <1>4
  <2> QED BY <1>1, <1>2, <1>6, <2>1 DEF Typed
<1>9. Order'
  <2>1. at' = Len(nodes') + 1 /\ Len(nodes') <= Len(schemas)
    BY <1>1, <1>3, <1>4, <1>6
  <2> QED BY <1>1, <1>2, <1>3, <1>7, <2>1 DEF Order
<1>10. Mirrored' /\ Covered'
  BY <1>1, <1>2 DEF Mirrored, Mirror, Covered, Passed
<1>11. LaidOut'
  <2>1. \A k \in 1 .. n : k = n \/ k \in 1 .. Len(nodes)
    BY <1>4
  <2> HIDE DEF n
  <2> QED BY <1>1, <1>2, <1>3, <1>5, <1>6, <2>1 DEF LaidOut
<1>12. Stored'
  BY <1>1, <1>3 DEF Stored
<1> QED BY <1>7, <1>8, <1>9, <1>10, <1>11, <1>12 DEF CInv

LEMMA GraphFailsCInv ==
  ASSUME CInv, LayoutFails \/ MkdirFails
  PROVE  CInv'
<1>1. Failed /\ UNCHANGED files /\ stage' = "idle" /\ (LayoutReturn \/ UNCHANGED layoutVars)
  BY DEF LayoutFails, MkdirFails, LayoutReturn, layoutVars
<1>2. LInv' /\ Chained'
  BY <1>1, RestLInv, RestChained DEF CInv
<1>3. Stored'
  BY <1>1 DEF CInv, Stored, Failed
<1> QED BY <1>1, <1>2, <1>3, FailedCInv DEF CInv
-----------------------------------------------------------------------------

LEMMA StartGenerateCInv ==
  ASSUME CInv, StartGenerate
  PROVE  CInv'
<1>1. /\ phase = "graph" /\ stage = "idle" /\ at \notin DOMAIN schemas
      /\ phase' = "gen" /\ at' = 1
      /\ UNCHANGED <<layoutVars, source, decl, parsed, schemas, nodes, files>>
  BY DEF StartGenerate, parseVars
<1>2. Typed /\ Order /\ Mirrored /\ Covered /\ LaidOut /\ Stored /\ LInv /\ Chained
  BY DEF CInv
<1>3. LInv' /\ Chained' /\ stage' = "idle"
  BY <1>1, <1>2, RestLInv, RestChained DEF layoutVars
<1>4. /\ at = Len(nodes) + 1 /\ Len(nodes) <= Len(schemas) /\ at \notin 1 .. Len(schemas)
      /\ Len(nodes) \in Nat /\ Len(schemas) \in Nat
  BY <1>1, <1>2, Counts DEF Order
<1>5. Len(nodes) = Len(schemas)
  BY <1>4
<1>6. Typed'
  BY <1>1, <1>2 DEF Typed
<1>7. Order'
  BY <1>1, <1>2, <1>3, <1>4, <1>5 DEF Order
<1>8. Mirrored' /\ Covered' /\ LaidOut'
  BY <1>1, <1>2 DEF Mirrored, Mirror, Covered, Passed, LaidOut
<1>9. Stored'
  BY <1>1, <1>2, <1>4 DEF Stored
<1> QED BY <1>3, <1>6, <1>7, <1>8, <1>9 DEF CInv

\* what changes when a file is written or the last one was
LEMMA GenerateRest ==
  ASSUME CInv, phase = "gen", phase' \in {"gen", "ok", "failed"},
         UNCHANGED <<layoutVars, source, parseVars, schemas, nodes>>
  PROVE  LInv' /\ Chained' /\ Mirrored' /\ Covered' /\ LaidOut' /\ stage' = "idle"
<1>1. Order /\ Mirrored /\ Covered /\ LaidOut /\ LInv /\ Chained
  BY DEF CInv
<1>2. LInv' /\ Chained'
  BY <1>1, RestLInv, RestChained
<1>3. Mirrored' /\ Covered' /\ LaidOut'
  BY <1>1 DEF Mirrored, Mirror, Covered, Passed, LaidOut
<1>4. stage' = "idle"
  BY <1>1 DEF Order, layoutVars
<1> QED BY <1>2, <1>3, <1>4

\* at counts two files for each node
LEMMA FileAt ==
  ASSUME NEW a \in Nat, a >= 1, NEW k, k = (a + 1) \div 2, NEW t, t = 2 - (a % 2)
  PROVE  k \in Nat /\ k >= 1 /\ t \in {1, 2} /\ 2 * (k - 1) + t = a
OBVIOUS

LEMMA FileCounts ==
  ASSUME NEW k \in Nat, NEW l \in Nat, NEW t \in {1, 2}, NEW u \in {1, 2},
         2 * (k - 1) + t = 2 * (l - 1) + u
  PROVE  k = l /\ t = u
OBVIOUS

LEMMA EntryMade ==
  ASSUME NEW n, NEW k \in 1 .. n, NEW w \in BOOLEAN
  PROVE  Entry([node |-> k, whole |-> w], n)
BY DEF Entry

LEMMA WriteCInv ==
  ASSUME CInv, WriteFormatted
  PROVE  CInv'
<1> DEFINE f == FileOf(NodeAt, TemplateAt)
<1>1. /\ phase = "gen" /\ NodeAt \in DOMAIN nodes /\ at' = at + 1
      /\ files' = [g \in DOMAIN files \cup {f} |->
                     IF g = f THEN [node |-> NodeAt, whole |-> TRUE] ELSE files[g]]
      /\ UNCHANGED <<layoutVars, source, phase, parseVars, schemas, nodes>>
  BY DEF WriteFormatted, Put, Write
<1>2. Typed /\ Order /\ Stored
  BY DEF CInv
<1>3. /\ at \in Nat /\ at >= 1 /\ Len(nodes) \in Nat /\ NodeAt \in 1 .. Len(nodes)
  BY <1>1, <1>2, Counts DEF Typed
<1>4. PICK u \in {1, 2} : TemplateAt = Templates[u] /\ 2 * (NodeAt - 1) + u = at
  <2>1. PICK k, u : k = (at + 1) \div 2 /\ u = 2 - (at % 2)
    OBVIOUS
  <2>2. u \in {1, 2} /\ 2 * (k - 1) + u = at
    BY <1>3, <2>1, FileAt
  <2> QED BY <2>1, <2>2 DEF NodeAt, TemplateAt
<1>5. /\ DOMAIN files' = DOMAIN files \cup {f} /\ files'[f] = [node |-> NodeAt, whole |-> TRUE]
      /\ \A g \in DOMAIN files : g # f => files'[g] = files[g]
  BY <1>1
<1>6. Typed'
  <2>1. at' \in Nat /\ at' >= 1
    BY <1>1, <1>3
  <2> QED BY <1>1, <1>2, <2>1 DEF Typed, parseVars
<1>7. Order'
  <2>1. at' <= 2 * Len(nodes) + 1
    BY <1>1, <1>3, <1>4
  <2>2. stage' = "idle"
    BY <1>1, GenerateRest
  <2> QED BY <1>1, <1>2, <2>1, <2>2 DEF Order
<1>8. Stored'
  <2>1. \A g \in DOMAIN files' : Entry(files'[g], Len(nodes))
    <3>1. Entry([node |-> NodeAt, whole |-> TRUE], Len(nodes))
      BY <1>3, EntryMade
    <3> HIDE DEF f
    <3> QED BY <1>2, <1>5, <3>1 DEF Stored
  <2>2. ASSUME NEW k \in 1 .. Len(nodes), NEW t \in {1, 2},
               2 * (k - 1) + t < at', OwnName(k)
        PROVE  /\ FileOf(k, Templates[t]) \in DOMAIN files'
               /\ files'[FileOf(k, Templates[t])] = [node |-> k, whole |-> TRUE]
    <3>1. CASE FileOf(k, Templates[t]) = f
      <4>1. LowerCase[schemas[k].name] = LowerCase[schemas[NodeAt].name]
        BY <3>1 DEF FileOf
      <4>2. k = NodeAt
        BY <1>3, <2>2, <4>1 DEF OwnName
      <4> QED BY <1>5, <3>1, <4>2
    <3>2. CASE FileOf(k, Templates[t]) # f
      <4>1. 2 * (k - 1) + t # at
        <5> SUFFICES ASSUME 2 * (k - 1) + t = at PROVE FALSE
          OBVIOUS
        <5>1. k \in Nat /\ NodeAt \in Nat
          BY <1>3
        <5>2. k = NodeAt /\ t = u
          BY <1>4, <5>1, FileCounts
        <5> QED BY <1>4, <3>2, <5>2
      <4>2. 2 * (k - 1) + t < at
        BY <1>1, <1>3, <2>2, <4>1
      <4> QED BY <1>1, <1>2, <1>5, <2>2, <3>2, <4>2 DEF Stored
    <3> QED BY <3>1, <3>2
  <2> HIDE DEF f
  <2>3. UNCHANGED <<nodes, schemas>>
    BY <1>1
  <2>4. \A k : OwnName(k)' => OwnName(k)
    BY <2>3 DEF OwnName
  <2>5. \A k, t : FileOf(k, Templates[t])' = FileOf(k, Templates[t])
    BY <2>3 DEF FileOf
  <2>6. \A g \in DOMAIN files' : Entry(files'[g], Len(nodes'))
    BY <2>1, <2>3
  <2>7. \A k \in 1 .. Len(nodes'), t \in {1, 2} : 2 * (k - 1) + t < at' /\ OwnName(k)' =>
          /\ FileOf(k, Templates[t])' \in DOMAIN files'
          /\ files'[FileOf(k, Templates[t])'] = [node |-> k, whole |-> TRUE]
    BY <2>2, <2>3, <2>4, <2>5
  <2> QED BY <2>6, <2>7 DEF Stored
<1> QED BY <1>1, <1>6, <1>7, <1>8, GenerateRest DEF CInv

LEMMA WriteFailsCInv ==
  ASSUME CInv, WriteFormattedFails
  PROVE  CInv'
<1> DEFINE f == FileOf(NodeAt, TemplateAt)
<1>1. /\ phase = "gen" /\ NodeAt \in DOMAIN nodes /\ phase' = "failed"
      /\ files' = [g \in DOMAIN files \cup {f} |->
                     IF g = f THEN [node |-> NodeAt, whole |-> FALSE] ELSE files[g]]
      /\ UNCHANGED <<layoutVars, source, at, parseVars, schemas, nodes>>
  BY DEF WriteFormattedFails, Put, Write, Failed
<1>2. Typed /\ Order /\ Stored
  BY DEF CInv
<1>3. NodeAt \in 1 .. Len(nodes)
  BY <1>1, <1>2, Counts
<1>4. Typed'
  BY <1>1, <1>2 DEF Typed, parseVars
<1>5. Order'
  <2>1. stage' = "idle"
    BY <1>1, GenerateRest
  <2> QED BY <1>1, <1>2, <2>1 DEF Order
<1>6. Stored'
  <2>1. \A g \in DOMAIN files' : Entry(files'[g], Len(nodes))
    <3>1. Entry([node |-> NodeAt, whole |-> FALSE], Len(nodes))
      BY <1>3, EntryMade
    <3> HIDE DEF f
    <3> QED BY <1>1, <1>2, <3>1 DEF Stored
  <2> QED BY <1>1, <2>1 DEF Stored
<1> QED BY <1>1, <1>4, <1>5, <1>6, GenerateRest DEF CInv

LEMMA EndGenerateCInv ==
  ASSUME CInv, EndGenerate
  PROVE  CInv'
<1>1. /\ phase = "gen" /\ NodeAt \notin DOMAIN nodes /\ phase' = "ok"
      /\ UNCHANGED <<layoutVars, source, at, parseVars, schemas, nodes, files>>
  BY DEF EndGenerate
<1>2. Typed /\ Order /\ Stored
  BY DEF CInv
<1>3. Typed'
  BY <1>1, <1>2 DEF Typed, parseVars
<1>4. Order'
  <2>1. at \in Nat /\ at >= 1 /\ Len(nodes) \in Nat /\ NodeAt \notin 1 .. Len(nodes)
    BY <1>1, <1>2, Counts DEF Typed
  <2>2. NodeAt \in Nat /\ NodeAt >= 1 /\ \E u \in {1, 2} : 2 * (NodeAt - 1) + u = at
    BY <2>1, FileAt DEF NodeAt
  <2>3. at > 2 * Len(nodes)
    BY <2>1, <2>2
  <2>4. stage' = "idle"
    BY <1>1, GenerateRest
  <2> QED BY <1>1, <1>2, <2>3, <2>4 DEF Order
<1>5. Stored'
  BY <1>1, <1>2 DEF Stored, OwnName, FileOf
<1> QED BY <1>1, <1>3, <1>4, <1>5, GenerateRest DEF CInv

LEMMA CInvInvariant == Spec => []CInv
<1>1. CInv /\ [Next]_vars => CInv'
  <2> SUFFICES ASSUME CInv, [Next]_vars PROVE CInv'
    OBVIOUS
  <2>1. CASE UNCHANGED vars
    <3>1. /\ UNCHANGED layoutVars
          /\ UNCHANGED <<source, phase, at, parseVars, schemas, nodes, files>>
      BY <2>1 DEF vars, parseVars
    <3>2. LInv' /\ Chained'
      BY <3>1, RestLInv, RestChained DEF CInv
    <3>3. Order'
      BY <3>1 DEF CInv, Order, layoutVars, parseVars
    <3> QED BY <3>1, <3>2, <3>3, LayoutRest DEF CInv
  <2>2. CASE Next
    BY <2>2, SkipStructCInv, SkipFieldCInv, ParseFieldCInv, ParseFailsCInv, EndStructCInv,
       EndParseCInv, CallLayoutCInv, ComputingCInv, AddNodeCInv, GraphFailsCInv,
       StartGenerateCInv, WriteCInv, WriteFailsCInv, EndGenerateCInv DEF Next
  <2> QED BY <2>1, <2>2
<1> QED BY <1>1, InitCInv, PTL DEF Spec
-----------------------------------------------------------------------------

LEMMA TypeImplied == CInv => TypeOK
<1> SUFFICES ASSUME CInv PROVE TypeOK
  OBVIOUS
<1>1. LInv /\ Typed /\ Order /\ LaidOut /\ Stored
  BY DEF CInv
<1>2. LayoutTypeOK
  BY <1>1, LInvImplies
<1>3. phase \in {"parse", "graph", "gen", "ok", "failed"} /\ at \in Nat /\ at >= 1
  BY <1>1 DEF Typed
<1>4. phase = "parse" => at \in 1 .. Len(source) + 1 /\ Len(parsed) < decl
  BY <1>1, <1>3, Counts DEF Order
<1>5. phase = "graph" => at = Len(nodes) + 1
  BY <1>1 DEF Order
<1>6. phase = "gen" => at \in 1 .. 2 * Len(nodes) + 1
  BY <1>1, <1>3, Counts DEF Order
<1>7. Len(nodes) <= Len(schemas) /\ Len(schemas) <= Len(source)
  BY <1>1 DEF Order
<1>8. \A i \in DOMAIN nodes : nodes[i].schema = i /\ nodes[i].recordSize \in 0 .. Word - 1
  BY <1>1, Counts DEF LaidOut, Laid
<1>9. \A f \in DOMAIN files : files[f].node \in DOMAIN nodes /\ files[f].whole \in BOOLEAN
  <2>1. \A f \in DOMAIN files : Entry(files[f], Len(nodes))
    BY <1>1 DEF Stored
  <2>2. DOMAIN nodes = 1 .. Len(nodes)
    BY <1>1, Counts
  <2> QED BY <2>1, <2>2, Zenon DEF Entry
<1> QED BY <1>2, <1>3, <1>4, <1>5, <1>6, <1>7, <1>8, <1>9 DEF TypeOK

LEMMA RejectedImplied == CInv => RejectedWritesNothing
<1> SUFFICES ASSUME CInv, DOMAIN files # {}
             PROVE  /\ Len(nodes) = Len(schemas)
                    /\ \A k \in DOMAIN schemas : Valid(schemas[k].fields)
                    /\ \A d \in DOMAIN source : Annotated(source[d]) =>
                         /\ \A i \in DOMAIN source[d].fields :
                              Named(source[d].fields[i]) => ~Unparsable(source[d].fields[i])
                         /\ \E k \in DOMAIN schemas : schemas[k].decl = d
  BY DEF RejectedWritesNothing
<1>1. Typed /\ Order /\ Mirrored /\ Covered /\ LaidOut
  BY DEF CInv
<1>2. Len(nodes) = Len(schemas)
  BY <1>1 DEF Order
<1>3. DOMAIN source = 1 .. Len(source) /\ DOMAIN schemas = 1 .. Len(schemas)
  BY <1>1, Counts
<1>4. \A k \in DOMAIN schemas : Valid(schemas[k].fields)
  BY <1>1, <1>2, <1>3 DEF LaidOut, Laid
<1>5. ASSUME NEW d \in DOMAIN source, Annotated(source[d])
      PROVE  /\ \A i \in DOMAIN source[d].fields :
                  Named(source[d].fields[i]) => ~Unparsable(source[d].fields[i])
             /\ \E k \in DOMAIN schemas : schemas[k].decl = d
  <2>1. PICK k \in 1 .. Len(schemas) : schemas[k].decl = d
    BY <1>1, <1>3, <1>5 DEF Covered, Passed
  <2>2. DOMAIN source[d].fields = 1 .. Len(source[d].fields)
    BY <1>1, <1>3, SourceFacts DEF Typed
  <2>3. Mirror(schemas[k].fields, source[d].fields, Len(source[d].fields))
    BY <1>1, <2>1 DEF Mirrored
  <2> QED BY <1>3, <2>1, <2>2, <2>3 DEF Mirror
<1> QED BY <1>2, <1>4, <1>5

LEMMA WrittenImplied == CInv => EverySchemaWritten
<1> SUFFICES ASSUME CInv, phase = "ok", NEW k \in DOMAIN schemas, SoleName(k),
                    NEW tm \in Range(Templates)
             PROVE  Written(k, tm)
  BY DEF EverySchemaWritten
<1>1. Typed /\ Order /\ Stored
  BY DEF CInv
<1>2. /\ DOMAIN schemas = 1 .. Len(nodes) /\ Len(nodes) \in Nat
      /\ k \in 1 .. Len(nodes)
  BY <1>1, Counts DEF Order
<1>3. PICK u \in {1, 2} : tm = Templates[u]
  BY DEF Range, Templates
<1>4. 2 * (k - 1) + u < at
  <2>1. at > 2 * Len(nodes) /\ at \in Nat
    BY <1>1 DEF Order, Typed
  <2> QED BY <1>2, <2>1
<1>5. OwnName(k)
  BY <1>2 DEF OwnName, SoleName
<1> QED BY <1>1, <1>2, <1>3, <1>4, <1>5 DEF Stored, Written

LEMMA AccessibleImplied == CInv => EveryFieldAccessible
<1> SUFFICES ASSUME CInv, phase = "ok", NEW d \in DOMAIN source,
                    Plain(source[d]), HasDirective(source[d])
             PROVE  \E k \in DOMAIN schemas :
                      /\ schemas[k].decl = d
                      /\ [i \in DOMAIN schemas[k].fields |->
                            <<schemas[k].fields[i].goName, GoTypeOf(schemas[k].fields[i].type)>>]
                         = [i \in DOMAIN source[d].fields |->
                            <<source[d].fields[i].names[1], source[d].fields[i].type>>]
                      /\ SoleName(k) => Written(k, "store")
  BY DEF EveryFieldAccessible
<1>1. Typed /\ Mirrored /\ Covered
  BY DEF CInv
<1>2. /\ DOMAIN source = 1 .. Len(source) /\ DOMAIN schemas = 1 .. Len(schemas)
      /\ DOMAIN source[d].fields = 1 .. Len(source[d].fields)
  BY <1>1, Counts, SourceFacts DEF Typed
<1>3. PICK k \in 1 .. Len(schemas) : schemas[k].decl = d
  <2>1. Annotated(source[d])
    BY DEF HasDirective, Annotated
  <2> QED BY <1>1, <1>2, <2>1 DEF Covered, Passed
<1>4. Mirror(schemas[k].fields, source[d].fields, Len(source[d].fields))
  BY <1>1, <1>3 DEF Mirrored
<1>5. \A i \in 1 .. Len(source[d].fields) : Len(source[d].fields[i].names) = 1
  BY <1>2 DEF Plain
<1>6. DOMAIN schemas[k].fields = 1 .. Len(schemas[k].fields)
  BY <1>1, SequenceFacts DEF Typed, Sized
<1>7. /\ Len(schemas[k].fields) = Len(source[d].fields)
      /\ \A i \in 1 .. Len(source[d].fields) :
           /\ schemas[k].fields[i].goName = source[d].fields[i].names[1]
           /\ GoTypeOf(schemas[k].fields[i].type) = source[d].fields[i].type
  BY <1>4, <1>5 DEF Mirror
<1>8. SoleName(k) => Written(k, "store")
  <2>1. Templates \in Seq({"store", "store_test"}) /\ Templates[1] = "store" /\ 1 \in DOMAIN Templates
    BY DEF Templates
  <2>2. "store" \in Range(Templates)
    BY <2>1 DEF Range
  <2> QED BY <1>2, <2>2, WrittenImplied DEF EverySchemaWritten
<1> QED BY <1>2, <1>3, <1>6, <1>7, <1>8
-----------------------------------------------------------------------------

\* the slice that the methods of a field's type take is the field's
LEMMA SliceOfField ==
  ASSUME NEW f, ~Invalid(f), NEW rc, NEW wc,
         rc.fn = ReadMethod[f.type], rc.fieldSize = SizeOf(f),
         wc.fn = WriteMethod[f.type], wc.fieldSize = SizeOf(f), wc.maxSize = f.maxSize
  PROVE  SliceLen(rc) = SizeOf(f) /\ SliceLen(wc) = SizeOf(f) /\ ValueLen(wc) = SizeOf(f)
<1>1. CASE f.type \in VarLen
  <2>1. /\ rc.fn \in {"ReadString", "ReadBytes"} /\ wc.fn \in {"WriteString", "WriteBytes"}
        /\ SizeOf(f) = 4 + f.maxSize
    BY <1>1 DEF ReadMethod, WriteMethod, VarLen, SizeOf
  <2>2. SliceLen(rc) = SizeOf(f)
    BY <2>1 DEF SliceLen
  <2>3. SliceLen(wc) = SizeOf(f)
    BY <2>1 DEF SliceLen
  <2> QED BY <2>1, <2>2, <2>3 DEF ValueLen
<1>2. CASE f.type \notin VarLen
  <2>1. f.type \in DOMAIN FixedWidth /\ SizeOf(f) = FixedWidth[f.type]
    BY <1>2 DEF Invalid, SizeOf
  <2>2. SliceLen(rc) = SizeOf(f)
    <3>1. CASE f.type \in {"bool", "int8", "uint8"}
      <4>1. rc.fn \in {"ReadBool", "ReadInt8", "ReadUint8"} /\ SizeOf(f) = 1
        BY <2>1, <3>1 DEF ReadMethod, FixedWidth
      <4> QED BY <4>1 DEF SliceLen
    <3>2. CASE f.type \in {"int16", "uint16"}
      <4>1. rc.fn \in {"ReadInt16", "ReadUint16"} /\ SizeOf(f) = 2
        BY <2>1, <3>2 DEF ReadMethod, FixedWidth
      <4> QED BY <4>1 DEF SliceLen
    <3>3. CASE f.type \in {"int32", "uint32", "float32"}
      <4>1. rc.fn \in {"ReadInt32", "ReadUint32", "ReadFloat32"} /\ SizeOf(f) = 4
        BY <2>1, <3>3 DEF ReadMethod, FixedWidth
      <4> QED BY <4>1 DEF SliceLen
    <3>4. CASE f.type \in {"int64", "uint64", "float64"}
      <4>1. rc.fn \in {"ReadInt64", "ReadUint64", "ReadFloat64"} /\ SizeOf(f) = 8
        BY <2>1, <3>4 DEF ReadMethod, FixedWidth
      <4> QED BY <4>1 DEF SliceLen
    <3> QED BY <2>1, <3>1, <3>2, <3>3, <3>4 DEF FixedWidth
  <2>3. SliceLen(wc) = SizeOf(f) /\ wc.fn \notin {"WriteString", "WriteBytes"}
    <3>1. CASE f.type \in {"bool", "int8", "uint8"}
      <4>1. wc.fn \in {"WriteBool", "WriteInt8", "WriteUint8"} /\ SizeOf(f) = 1
        BY <2>1, <3>1 DEF WriteMethod, FixedWidth
      <4> QED BY <4>1 DEF SliceLen
    <3>2. CASE f.type \in {"int16", "uint16"}
      <4>1. wc.fn \in {"WriteInt16", "WriteUint16"} /\ SizeOf(f) = 2
        BY <2>1, <3>2 DEF WriteMethod, FixedWidth
      <4> QED BY <4>1 DEF SliceLen
    <3>3. CASE f.type \in {"int32", "uint32", "float32"}
      <4>1. wc.fn \in {"WriteInt32", "WriteUint32", "WriteFloat32"} /\ SizeOf(f) = 4
        BY <2>1, <3>3 DEF WriteMethod, FixedWidth
      <4> QED BY <4>1 DEF SliceLen
    <3>4. CASE f.type \in {"int64", "uint64", "float64"}
      <4>1. wc.fn \in {"WriteInt64", "WriteUint64", "WriteFloat64"} /\ SizeOf(f) = 8
        BY <2>1, <3>4 DEF WriteMethod, FixedWidth
      <4> QED BY <4>1 DEF SliceLen
    <3> QED BY <2>1, <3>1, <3>2, <3>3, <3>4 DEF FixedWidth
  <2>4. ValueLen(wc) = SizeOf(f)
    BY <2>3 DEF ValueLen
  <2> QED BY <2>2, <2>3, <2>4
<1> QED BY <1>1, <1>2

LEMMA NodeAccess ==
  ASSUME CInv, NEW k \in DOMAIN nodes, NEW n, n = nodes[k]
  PROVE  /\ Laid(n, schemas[k].fields) /\ n.schema = k
         /\ k \in 1 .. Len(schemas) /\ Sized(schemas[k].fields)
         /\ Len(schemas[k].fields) \in Nat
         /\ DOMAIN schemas[k].fields = 1 .. Len(schemas[k].fields)
         /\ DOMAIN n.layouts = 1 .. Len(schemas[k].fields)
         /\ \A i \in DOMAIN n.layouts :
              /\ n.layouts[i] \in FieldLayout
              /\ Touched(n, i) = Bytes(n.layouts[i].offset, n.layouts[i].size)
              /\ TouchedBy(ReadCall(n, i)) = TouchedBy(WriteCall(n, i))
              /\ ValueLen(WriteCall(n, i)) <= SliceLen(WriteCall(n, i))
<1>1. Typed /\ Order /\ LaidOut
  BY DEF CInv
<1>2. /\ k \in 1 .. Len(nodes) /\ Len(nodes) \in Nat /\ Len(schemas) \in Nat
      /\ Len(nodes) <= Len(schemas)
  BY <1>1, Counts DEF Order
<1>3. Laid(n, schemas[k].fields) /\ n.schema = k
  BY <1>1, <1>2 DEF LaidOut
<1>4. k \in 1 .. Len(schemas) /\ Sized(schemas[k].fields)
  BY <1>1, <1>2 DEF Typed
<1>5. /\ Len(schemas[k].fields) \in Nat
      /\ DOMAIN schemas[k].fields = 1 .. Len(schemas[k].fields)
  BY <1>4, SequenceFacts DEF Sized
<1>6. /\ DOMAIN n.layouts = 1 .. Len(schemas[k].fields)
      /\ \A i \in DOMAIN n.layouts : n.layouts[i] \in FieldLayout
  BY <1>3, ListFacts DEF Laid
<1>7. ASSUME NEW i \in DOMAIN n.layouts
      PROVE  /\ Touched(n, i) = Bytes(n.layouts[i].offset, n.layouts[i].size)
             /\ TouchedBy(ReadCall(n, i)) = TouchedBy(WriteCall(n, i))
             /\ ValueLen(WriteCall(n, i)) <= SliceLen(WriteCall(n, i))
  <2> DEFINE f == schemas[k].fields[i]
             rc == ReadCall(n, i)
             wc == WriteCall(n, i)
  <2>1. ~Invalid(f) /\ n.layouts[i].size = SizeOf(f) /\ i \in 1 .. Len(schemas[k].fields)
    BY <1>3, <1>5, <1>6 DEF Laid, Valid
  <2>2. /\ rc.fn = ReadMethod[f.type] /\ rc.offset = n.layouts[i].offset
        /\ rc.fieldSize = n.layouts[i].size
    BY <1>3 DEF ReadCall, Call
  <2>3. /\ wc.fn = WriteMethod[f.type] /\ wc.offset = n.layouts[i].offset
        /\ wc.fieldSize = n.layouts[i].size /\ wc.maxSize = f.maxSize
    BY <1>3 DEF WriteCall, Call
  <2> HIDE DEF rc, wc, f
  <2>4. /\ SliceLen(rc) = n.layouts[i].size /\ SliceLen(wc) = n.layouts[i].size
        /\ ValueLen(wc) = n.layouts[i].size
    BY <2>1, <2>2, <2>3, SliceOfField
  <2>5. n.layouts[i].size \in Nat
    BY <1>6 DEF FieldLayout
  <2>6. /\ TouchedBy(rc) = Bytes(n.layouts[i].offset, n.layouts[i].size)
        /\ TouchedBy(wc) = Bytes(n.layouts[i].offset, n.layouts[i].size)
    BY <2>2, <2>3, <2>4 DEF TouchedBy
  <2> QED BY <2>4, <2>5, <2>6 DEF Touched, rc, wc
<1> QED BY <1>3, <1>4, <1>5, <1>6, <1>7

LEMMA AccessorsImplied == CInv => AccessorsApart
<1> SUFFICES ASSUME CInv, NEW k \in DOMAIN nodes, NEW n, n = nodes[k], ~n.wrapped,
                    NEW i \in DOMAIN n.layouts
             PROVE  /\ Touched(n, i) \cap Bytes(0, SeqFieldSize) = {}
                    /\ Touched(n, i) \subseteq Bytes(0, n.recordSize)
                    /\ \A j \in DOMAIN n.layouts \ {i} : Touched(n, i) \cap Touched(n, j) = {}
                    /\ TouchedBy(ReadCall(n, i)) = TouchedBy(WriteCall(n, i))
                    /\ ValueLen(WriteCall(n, i)) <= SliceLen(WriteCall(n, i))
  BY DEF AccessorsApart
<1>1. /\ Laid(n, schemas[k].fields) /\ DOMAIN n.layouts = 1 .. Len(schemas[k].fields)
      /\ Len(schemas[k].fields) \in Nat
      /\ \A j \in DOMAIN n.layouts :
           /\ n.layouts[j] \in FieldLayout
           /\ Touched(n, j) = Bytes(n.layouts[j].offset, n.layouts[j].size)
      /\ TouchedBy(ReadCall(n, i)) = TouchedBy(WriteCall(n, i))
      /\ ValueLen(WriteCall(n, i)) <= SliceLen(WriteCall(n, i))
  BY NodeAccess
<1>2. /\ \A j \in DOMAIN n.layouts : n.layouts[j].offset >= SeqFieldSize
                                     /\ EndIn(n.layouts, j) <= n.recordSize
      /\ \A j, l \in DOMAIN n.layouts : j < l => EndIn(n.layouts, j) <= n.layouts[l].offset
      /\ n.recordSize \in Nat
  BY <1>1 DEF Laid
<1>3. \A j \in DOMAIN n.layouts : n.layouts[j].offset \in Nat /\ n.layouts[j].size \in Nat
  BY <1>1 DEF FieldLayout
<1>4. Touched(n, i) \cap Bytes(0, SeqFieldSize) = {}
  <2>1. /\ Touched(n, i) = Bytes(n.layouts[i].offset, n.layouts[i].size)
        /\ n.layouts[i].offset >= 8
        /\ n.layouts[i].offset \in Nat /\ n.layouts[i].size \in Nat
    BY <1>1, <1>2, <1>3 DEF SeqFieldSize
  <2>2. Bytes(0, SeqFieldSize) = 0 .. 7
    BY DEF Bytes, SeqFieldSize
  <2> QED BY <2>1, <2>2 DEF Bytes
<1>5. Touched(n, i) \subseteq Bytes(0, n.recordSize)
  BY <1>1, <1>2, <1>3 DEF Bytes, EndIn
<1>6. ASSUME NEW j \in DOMAIN n.layouts \ {i}
      PROVE  Touched(n, i) \cap Touched(n, j) = {}
  <2>1. i < j \/ j < i
    BY <1>1
  <2>2. /\ i < j => EndIn(n.layouts, i) <= n.layouts[j].offset
        /\ j < i => EndIn(n.layouts, j) <= n.layouts[i].offset
    BY <1>2
  <2>3. /\ Touched(n, i) = Bytes(n.layouts[i].offset, n.layouts[i].size)
        /\ Touched(n, j) = Bytes(n.layouts[j].offset, n.layouts[j].size)
    BY <1>1
  <2>4. /\ n.layouts[i].offset \in Nat /\ n.layouts[i].size \in Nat
        /\ n.layouts[j].offset \in Nat /\ n.layouts[j].size \in Nat
    BY <1>3
  <2> QED BY <2>1, <2>2, <2>3, <2>4 DEF Bytes, EndIn
<1> QED BY <1>1, <1>4, <1>5, <1>6

LEMMA HashImplied == CInv => HashGuardsLayout
<1> SUFFICES ASSUME CInv, NEW k \in DOMAIN nodes, NEW l \in DOMAIN nodes,
                    NEW m, m = nodes[k], NEW n, n = nodes[l],
                    OpensFileOf(m, n), SameOrder(m, n)
             PROVE  /\ m.layouts = n.layouts /\ m.recordSize = n.recordSize
                    /\ \A i \in DOMAIN m.layouts :
                         schemas[m.schema].fields[i].type = schemas[n.schema].fields[i].type
  BY DEF HashGuardsLayout
<1> DEFINE fs == schemas[k].fields
           gs == schemas[l].fields
<1>1. /\ Laid(m, fs) /\ m.schema = k /\ DOMAIN m.layouts = 1 .. Len(fs)
      /\ Laid(n, gs) /\ n.schema = l /\ DOMAIN n.layouts = 1 .. Len(gs)
      /\ DOMAIN gs = 1 .. Len(gs)
  BY NodeAccess
<1>2. /\ Len(gs) = Len(fs)
      /\ \A i \in 1 .. Len(fs) : fs[i].name = gs[i].name
  BY <1>1 DEF SameOrder, Laid
<1>3. SchemaHash(m) = {<<fs[i].name, fs[i].type, m.layouts[i].size>> : i \in 1 .. Len(fs)}
  BY <1>1 DEF SchemaHash
<1>4. SchemaHash(n) = {<<gs[i].name, gs[i].type, n.layouts[i].size>> : i \in 1 .. Len(gs)}
  BY <1>1 DEF SchemaHash
<1>5. SchemaHash(m) = SchemaHash(n)
  BY DEF OpensFileOf
<1> HIDE DEF fs, gs
<1>6. ASSUME NEW i \in 1 .. Len(fs)
      PROVE  fs[i].type = gs[i].type /\ m.layouts[i].size = n.layouts[i].size
  <2>1. <<fs[i].name, fs[i].type, m.layouts[i].size>> \in SchemaHash(n)
    BY <1>3, <1>5
  <2>2. PICK j \in 1 .. Len(gs) :
          <<fs[i].name, fs[i].type, m.layouts[i].size>> = <<gs[j].name, gs[j].type, n.layouts[j].size>>
    BY <1>4, <2>1
  <2>3. gs[j].name = gs[i].name
    BY <1>2, <2>2
  <2>4. i = j
    BY <1>1, <1>2, <2>3 DEF Laid, Valid
  <2> QED BY <2>2, <2>4
<1>7. \A i \in 1 .. Len(fs) : m.layouts[i].align = n.layouts[i].align
  BY <1>1, <1>2, <1>6 DEF Laid, AlignOf
<1>8. m.layouts = n.layouts
  <2>1. /\ List(m.layouts, FieldLayout) /\ List(n.layouts, FieldLayout)
        /\ Chain(m.layouts) /\ Chain(n.layouts)
        /\ Len(m.layouts) = Len(fs) /\ Len(n.layouts) = Len(fs)
    BY <1>1, <1>2 DEF Laid
  <2>2. \A i \in 1 .. Len(m.layouts) :
          m.layouts[i].size = n.layouts[i].size /\ m.layouts[i].align = n.layouts[i].align
    BY <1>6, <1>7, <2>1
  <2> QED BY <2>1, <2>2, ChainsEqual
<1>9. m.recordSize = n.recordSize
  BY <1>1, <1>2, <1>8 DEF Laid
<1> QED BY <1>1, <1>6, <1>8, <1>9 DEF fs, gs
-----------------------------------------------------------------------------

(* The phases, cursors and sizes of the generator stay in range.           *)
THEOREM GeneratorTyped == Spec => []TypeOK
BY CInvInvariant, TypeImplied, PTL

(* In every layout the generator asks for, fields lie apart and without    *)
(* needless room, and ComputeLayout rejects what is invalid only.          *)
THEOREM GeneratedLayouts == Spec => [](FieldsApart /\ Compact /\ RejectsInvalid)
<1>1. CInv => FieldsApart /\ Compact /\ RejectsInvalid
  BY LInvImplies DEF CInv
<1> QED BY <1>1, CInvInvariant, PTL

(* A generated accessor touches the bytes of its own field, whatever the   *)
(* source.                                                                 *)
THEOREM AccessorsTouchOwnField == Spec => []AccessorsApart
BY CInvInvariant, AccessorsImplied, PTL

(* Success means that the structs with a directive have all accessors, in  *)
(* whole files unless a name that differs only in case takes them.         *)
THEOREM FieldsAccessible == Spec => []EveryFieldAccessible
BY CInvInvariant, AccessibleImplied, PTL

(* Success means that every schema has its files.                          *)
THEOREM SchemasWritten == Spec => []EverySchemaWritten
BY CInvInvariant, WrittenImplied, PTL

(* A source with an error in it leaves no file.                            *)
THEOREM RejectedUnwritten == Spec => []RejectedWritesNothing
BY CInvInvariant, RejectedImplied, PTL

(* Equal hashes, in the same order of fields, mean equal layouts.          *)
THEOREM HashTellsLayouts == Spec => []HashGuardsLayout
BY CInvInvariant, HashImplied, PTL
=============================================================================
