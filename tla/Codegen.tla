------------------------------ MODULE Codegen -------------------------------
(***************************************************************************)
(* The code generator, from the structs of a source file to the typed      *)
(* stores it writes: ParseFile of parser.go, NewGraph and generate of      *)
(* graph.go over ComputeLayout, the accessor calls of type.go and the      *)
(* templates, driven by run of main.go; with the bytes those calls touch   *)
(* (store_read.go, store_write.go) and the hash that OpenStore compares.   *)
(*                                                                         *)
(* A source is the sequence of its struct types, each with the comments    *)
(* that findDirective looks at.  A directive is "none", "bad" (its version *)
(* does not parse) or "version".  Text, names of packages and hooks are    *)
(* left out; templates are those of the repository, and the SHA-256 of two *)
(* different strings differs.                                              *)
(***************************************************************************)
EXTENDS Layout, Functions

CONSTANTS
  Sources,   \* the source files: sequences of
             \* [name, above, beside, fields]
  LowerCase, \* strings.ToLower, on the names that occur
  BadSize    \* a max_size that is not a number

\* a max_size is parsed to 32 bits
ASSUME SourcesAssumption ==
  \A src \in Sources :
    /\ src \in Seq({src[d] : d \in DOMAIN src})
    /\ \A d \in DOMAIN src :
         /\ src[d].fields \in Seq({src[d].fields[i] : i \in DOMAIN src[d].fields})
         /\ \A i \in DOMAIN src[d].fields :
              src[d].fields[i].tagSize \in (0 .. Word - 1) \cup {BadSize}

VARIABLES
  source,    \* the input
  phase,     \* "parse", "graph", "gen", "ok" or "failed"
  at,        \* the struct, schema or file under way
  decl,      \* the field declaration of that struct under way
  parsed,    \* the fields parsed of it: [name, goName, type, maxSize]
  schemas,   \* [name, decl (index in source), fields]
  nodes,     \* Graph.Nodes: [schema, layouts, recordSize, wrapped]
  files      \* the output directory: file -> [node, whole], whole if it was
             \* written to the end, and formatted

vars == <<layoutVars, source, phase, at, decl, parsed, schemas, nodes, files>>
parseVars == <<decl, parsed>>

\* TypeTemplates, and the files they are written to
Templates == <<"store", "store_test">>
FileOf(i, tmpl) == <<LowerCase[schemas[i].name], tmpl>>
-----------------------------------------------------------------------------
(***************************************************************************)
(* parser.go                                                               *)
(***************************************************************************)

\* goTypeToFieldType, and GoType, which the templates print
GoTypes == (DOMAIN FixedWidth \cup {"string"}) \cup {"[]byte"}
FieldTypeOf(goType) == IF goType = "[]byte" THEN "bytes" ELSE goType
GoTypeOf(type) == IF type = "bytes" THEN "[]byte" ELSE type

\* findDirective: the comments above and beside the declaration, which for
\* structs in a group of types is the group's and not each one's own
AnnotatedAboveOnly(s) == s.above = "version"
Annotated(s) == s.above = "version" \/ s.beside = "version"

\* parseFields: [names, type, tagName, tagSize] to [name, goName, type, maxSize];
\* without a name of its own in the tag, a field is stored under its Go name
Named(d) == d.names # <<>>
Unparsable(d) ==
  \/ d.type \notin GoTypes
  \/ d.tagSize = BadSize
  \/ d.type \in {"string", "[]byte"} /\ d.tagSize = 0
ParsedField(d) ==
  [name |-> IF d.tagName = "" THEN LowerCase[d.names[1]] ELSE d.tagName,
   goName |-> d.names[1],
   type |-> FieldTypeOf(d.type),
   maxSize |-> d.tagSize]

(***************************************************************************)
(* type.go, and what the calls it prints do in store_read.go and           *)
(* store_write.go.                                                         *)
(***************************************************************************)

\* the switches of ReadCall and of writeCallWith
ReadMethod ==
  [bool |-> "ReadBool", int8 |-> "ReadInt8", uint8 |-> "ReadUint8",
   int16 |-> "ReadInt16", uint16 |-> "ReadUint16", int32 |-> "ReadInt32",
   uint32 |-> "ReadUint32", int64 |-> "ReadInt64", uint64 |-> "ReadUint64",
   float32 |-> "ReadFloat32", float64 |-> "ReadFloat64",
   string |-> "ReadString", bytes |-> "ReadBytes"]
WriteMethod ==
  [bool |-> "WriteBool", int8 |-> "WriteInt8", uint8 |-> "WriteUint8",
   int16 |-> "WriteInt16", uint16 |-> "WriteUint16", int32 |-> "WriteInt32",
   uint32 |-> "WriteUint32", int64 |-> "WriteInt64", uint64 |-> "WriteUint64",
   float32 |-> "WriteFloat32", float64 |-> "WriteFloat64",
   string |-> "WriteString", bytes |-> "WriteBytes"]

\* the calls printed for the i-th field of a node
Call(method, n, i) ==
  [fn |-> method, offset |-> n.layouts[i].offset, fieldSize |-> n.layouts[i].size,
   maxSize |-> schemas[n.schema].fields[i].maxSize]
ReadCall(n, i) == Call(ReadMethod[schemas[n.schema].fields[i].type], n, i)
WriteCallMixedUp(n, i) ==
  LET type == schemas[n.schema].fields[i].type IN
  Call(WriteMethod[IF type = "int16" THEN "int32" ELSE type], n, i)
WriteCall(n, i) == Call(WriteMethod[schemas[n.schema].fields[i].type], n, i)

\* the length that the method asks of fieldSlice
SliceLen(call) ==
  CASE call.fn \in {"ReadBool", "ReadInt8", "ReadUint8"} -> 1
    [] call.fn \in {"ReadInt16", "ReadUint16"} -> 2
    [] call.fn \in {"ReadInt32", "ReadUint32", "ReadFloat32"} -> 4
    [] call.fn \in {"ReadInt64", "ReadUint64", "ReadFloat64"} -> 8
    [] call.fn \in {"WriteBool", "WriteInt8", "WriteUint8"} -> 1
    [] call.fn \in {"WriteInt16", "WriteUint16"} -> 2
    [] call.fn \in {"WriteInt32", "WriteUint32", "WriteFloat32"} -> 4
    [] call.fn \in {"WriteInt64", "WriteUint64", "WriteFloat64"} -> 8
    [] OTHER -> call.fieldSize

\* the most bytes of it the value can take, its length prefix included
ValueLen(call) ==
  IF call.fn \in {"WriteString", "WriteBytes"} THEN 4 + call.maxSize ELSE SliceLen(call)

Bytes(offset0, length) == offset0 .. offset0 + length - 1
TouchedBy(call) == Bytes(call.offset, SliceLen(call))
Touched(n, i) == TouchedBy(ReadCall(n, i)) \cup TouchedBy(WriteCall(n, i))

(***************************************************************************)
(* Descriptors and SchemaHash of layout.go, and the check of OpenStore.    *)
(***************************************************************************)
SchemaHashUnsized(n) ==
  {<<schemas[n.schema].fields[i].name, schemas[n.schema].fields[i].type>> :
     i \in DOMAIN n.layouts}
SchemaHash(n) ==
  {<<schemas[n.schema].fields[i].name, schemas[n.schema].fields[i].type, n.layouts[i].size>> :
     i \in DOMAIN n.layouts}

\* the store of node m opens a file that the store of node n has created
OpensFileOf(m, n) == SchemaHash(m) = SchemaHash(n)
-----------------------------------------------------------------------------

Init ==
  /\ LayoutInit
  /\ source \in Sources
  /\ phase = "parse" /\ at = 1 /\ decl = 1
  /\ parsed = <<>> /\ schemas = <<>> /\ nodes = <<>>
  /\ files = <<>>

Failed == phase' = "failed" /\ UNCHANGED <<source, at, parseVars, schemas, nodes>>

(***************************************************************************)
(* ParseFile: structs, and in parseFields their fields, one by one.        *)
(***************************************************************************)
InStruct == phase = "parse" /\ at \in DOMAIN source /\ Annotated(source[at])
InField == InStruct /\ decl \in DOMAIN source[at].fields

SkipStruct ==
  /\ phase = "parse" /\ at \in DOMAIN source
  /\ ~Annotated(source[at])
  /\ at' = at + 1
  /\ UNCHANGED <<layoutVars, source, phase, parseVars, schemas, nodes, files>>

SkipField ==
  /\ InField /\ ~Named(source[at].fields[decl])
  /\ decl' = decl + 1
  /\ UNCHANGED <<layoutVars, source, phase, at, parsed, schemas, nodes, files>>

ParseField ==
  /\ InField /\ Named(source[at].fields[decl])
  /\ ~Unparsable(source[at].fields[decl])
  /\ parsed' = Append(parsed, ParsedField(source[at].fields[decl]))
  /\ decl' = decl + 1
  /\ UNCHANGED <<layoutVars, source, phase, at, schemas, nodes, files>>

ParseFails ==
  /\ InField /\ Named(source[at].fields[decl])
  /\ Unparsable(source[at].fields[decl])
  /\ Failed /\ UNCHANGED <<layoutVars, files>>

EndStruct ==
  /\ InStruct /\ decl \notin DOMAIN source[at].fields
  /\ schemas' = Append(schemas, [name |-> source[at].name, decl |-> at, fields |-> parsed])
  /\ at' = at + 1 /\ decl' = 1 /\ parsed' = <<>>
  /\ UNCHANGED <<layoutVars, source, phase, nodes, files>>

(* run: the file is parsed; it must have a schema.                         *)
EndParseHere ==
  /\ phase = "parse" /\ at \notin DOMAIN source
  /\ phase' = IF schemas = <<>> THEN "failed" ELSE "graph"
  /\ UNCHANGED <<layoutVars, source, at, parseVars, schemas, nodes, files>>
EndParse ==
  /\ phase = "parse" /\ at \notin DOMAIN source
  /\ phase' = IF schemas = <<>> THEN "failed" ELSE "graph"
  /\ at' = 1
  /\ UNCHANGED <<layoutVars, source, parseVars, schemas, nodes, files>>

\* the file f holds the text of node n, instead of what it held before
Write(f, n, whole) ==
  files' = [g \in DOMAIN files \cup {f} |->
              IF g = f THEN [node |-> n, whole |-> whole] ELSE files[g]]

(***************************************************************************)
(* NewGraph.                                                               *)
(***************************************************************************)
CallComputeLayout ==
  /\ phase = "graph" /\ at \in DOMAIN schemas
  /\ ComputeLayout(schemas[at].fields)
  /\ UNCHANGED <<source, phase, at, parseVars, schemas, nodes, files>>

ComputingLayout ==
  /\ LayoutStep
  /\ UNCHANGED <<source, phase, at, parseVars, schemas, nodes, files>>

AddNodeGenerating ==
  /\ phase = "graph" /\ stage = "done" /\ LayoutReturn
  /\ nodes' = Append(nodes, [schema |-> at, layouts |-> layouts,
                             recordSize |-> recordSize, wrapped |-> wrapped])
  /\ at' = at + 1
  /\ Write(FileOf(at, "store"), at, TRUE)
  /\ UNCHANGED <<source, phase, parseVars, schemas>>
AddNode ==
  /\ phase = "graph" /\ stage = "done" /\ LayoutReturn
  /\ nodes' = Append(nodes, [schema |-> at, layouts |-> layouts,
                             recordSize |-> recordSize, wrapped |-> wrapped])
  /\ at' = at + 1
  /\ UNCHANGED <<source, phase, parseVars, schemas, files>>

LayoutFails ==
  /\ phase = "graph" /\ stage = "error" /\ LayoutReturn
  /\ Failed /\ UNCHANGED files

(***************************************************************************)
(* generate: the files of a node, node by node; at counts the files.       *)
(***************************************************************************)
NodeAt == (at + 1) \div 2
TemplateAt == Templates[2 - (at % 2)]
Put(whole) == Write(FileOf(NodeAt, TemplateAt), NodeAt, whole)

\* MkdirAll
StartGenerate ==
  /\ phase = "graph" /\ stage = "idle" /\ at \notin DOMAIN schemas
  /\ phase' = "gen" /\ at' = 1
  /\ UNCHANGED <<layoutVars, source, parseVars, schemas, nodes, files>>

MkdirFails ==
  /\ phase = "graph" /\ stage = "idle" /\ at \notin DOMAIN schemas
  /\ Failed /\ UNCHANGED <<layoutVars, files>>

WriteFormatted ==
  /\ phase = "gen" /\ NodeAt \in DOMAIN nodes
  /\ Put(TRUE)
  /\ at' = at + 1
  /\ UNCHANGED <<layoutVars, source, phase, parseVars, schemas, nodes>>

(* Either gofmt rejects the text, which is written as it is, or the write  *)
(* fails half-way.                                                         *)
WriteFormattedFailsSwallowed ==
  /\ phase = "gen" /\ NodeAt \in DOMAIN nodes
  /\ Put(FALSE)
  /\ at' = at + 1
  /\ UNCHANGED <<layoutVars, source, phase, parseVars, schemas, nodes>>
WriteFormattedFails ==
  /\ phase = "gen" /\ NodeAt \in DOMAIN nodes
  /\ Put(FALSE)
  /\ Failed /\ UNCHANGED layoutVars

EndGenerate ==
  /\ phase = "gen" /\ NodeAt \notin DOMAIN nodes
  /\ phase' = "ok"
  /\ UNCHANGED <<layoutVars, source, at, parseVars, schemas, nodes, files>>

Next ==
  \/ SkipStruct \/ SkipField \/ ParseField \/ ParseFails \/ EndStruct \/ EndParse
  \/ CallComputeLayout \/ ComputingLayout \/ AddNode \/ LayoutFails
  \/ StartGenerate \/ MkdirFails
  \/ WriteFormatted \/ WriteFormattedFails \/ EndGenerate

Spec == Init /\ [][Next]_vars
-----------------------------------------------------------------------------

TypeOK ==
  /\ LayoutTypeOK
  /\ phase \in {"parse", "graph", "gen", "ok", "failed"}
  /\ phase = "parse" => at \in 1 .. Len(source) + 1 /\ Len(parsed) < decl
  /\ phase = "graph" => at = Len(nodes) + 1
  /\ phase = "gen" => at \in 1 .. 2 * Len(nodes) + 1
  /\ Len(nodes) <= Len(schemas) /\ Len(schemas) <= Len(source)
  /\ \A i \in DOMAIN nodes : nodes[i].schema = i /\ nodes[i].recordSize \in 0 .. Word - 1
  /\ \A f \in DOMAIN files : files[f].node \in DOMAIN nodes /\ files[f].whole \in BOOLEAN

(* What a generated accessor reads or writes is the bytes of its own       *)
(* field: never the counter, another field or the next record; and the     *)
(* longest value it lets through fits; and the reader takes the bytes that *)
(* the writer gives.  Five tables must agree on every type:                *)
(* fieldSizeAlign, the switches of ReadCall and of writeCallWith, and the  *)
(* lengths in store_read.go and in store_write.go.                         *)
AccessorsApart ==
  \A k \in DOMAIN nodes : LET n == nodes[k] IN
    ~n.wrapped =>
      \A i \in DOMAIN n.layouts :
        /\ Touched(n, i) \cap Bytes(0, SeqFieldSize) = {}
        /\ Touched(n, i) \subseteq Bytes(0, n.recordSize)
        /\ \A j \in DOMAIN n.layouts \ {i} : Touched(n, i) \cap Touched(n, j) = {}
        /\ TouchedBy(ReadCall(n, i)) = TouchedBy(WriteCall(n, i))
        /\ ValueLen(WriteCall(n, i)) <= SliceLen(WriteCall(n, i))

(* When mmapforge succeeds, every struct whose declaration has a directive *)
(* has the accessors of all its fields, in order and with their Go types,  *)
(* in a file written to the end.  Left out is what mmapforge passes over   *)
(* in silence: embedded fields, further names of a field declared with     *)
(* several, directives whose version does not parse or that stand inside a *)
(* group of types; and of two structs whose names differ only in case, the *)
(* one whose files the other's replace.                                    *)
Plain(s) == \A i \in DOMAIN s.fields : Len(s.fields[i].names) = 1
HasDirective(s) == "version" \in {s.above, s.beside}
SoleName(k) ==
  \A j \in DOMAIN schemas \ {k} : LowerCase[schemas[j].name] # LowerCase[schemas[k].name]
Written(k, tmpl) ==
  FileOf(k, tmpl) \in DOMAIN files /\ files[FileOf(k, tmpl)] = [node |-> k, whole |-> TRUE]
EveryFieldAccessible ==
  phase = "ok" =>
    \A d \in DOMAIN source : Plain(source[d]) /\ HasDirective(source[d]) =>
      \E k \in DOMAIN schemas :
        /\ schemas[k].decl = d
        /\ [i \in DOMAIN schemas[k].fields |->
              <<schemas[k].fields[i].goName, GoTypeOf(schemas[k].fields[i].type)>>]
           = [i \in DOMAIN source[d].fields |->
              <<source[d].fields[i].names[1], source[d].fields[i].type>>]
        /\ SoleName(k) => Written(k, "store")

(* When mmapforge succeeds, every schema has both its files, whole, unless *)
(* another one's name differs from its own only in case.                   *)
EverySchemaWritten ==
  phase = "ok" =>
    \A k \in DOMAIN schemas : SoleName(k) => \A t \in Range(Templates) : Written(k, t)

(* Nothing is written for a source that has anything wrong with it: all of *)
(* it is parsed and laid out before the first file is touched.             *)
RejectedWritesNothing ==
  DOMAIN files # {} =>
    /\ Len(nodes) = Len(schemas)
    /\ \A k \in DOMAIN schemas : Valid(schemas[k].fields)
    /\ \A d \in DOMAIN source : Annotated(source[d]) =>
         /\ \A i \in DOMAIN source[d].fields :
              Named(source[d].fields[i]) => ~Unparsable(source[d].fields[i])
         /\ \E k \in DOMAIN schemas : schemas[k].decl = d

(* The store of one schema opens the file of another, say of the same      *)
(* struct before it was edited, only if it finds every field where the     *)
(* other has put it, with the same type and size, in records as long:      *)
(* provided the two have their fields in the same order, which the hash    *)
(* does not tell.                                                          *)
SameOrder(m, n) ==
  /\ Len(m.layouts) = Len(n.layouts)
  /\ \A i \in DOMAIN m.layouts :
       schemas[m.schema].fields[i].name = schemas[n.schema].fields[i].name
HashGuardsLayout ==
  \A k, l \in DOMAIN nodes : LET m == nodes[k]  n == nodes[l] IN
    OpensFileOf(m, n) /\ SameOrder(m, n) =>
      /\ m.layouts = n.layouts /\ m.recordSize = n.recordSize
      /\ \A i \in DOMAIN m.layouts :
           schemas[m.schema].fields[i].type = schemas[n.schema].fields[i].type
=============================================================================
