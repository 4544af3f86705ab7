# mmapforge: formal models

mmapforge is a Go library and a code generator. A schema (a Go struct) is turned
into a typed store whose records live in a memory-mapped file; readers of a
record never take a lock, they validate what they read against a per-record
sequence counter. This directory holds TLA+ models of the library, the TLC
configurations that check them on small instances, and TLAPS proofs for every
value of the constants. `src/...` below is the repository.

    tlc -config Seqlock.cfg MCSeqlock      # one run; PROJECT.json lists them
    tlapm StoreProofs.tla                  # one proof module

## 1. Inventory

### Components

| component | state | operations | talks to |
|---|---|---|---|
| Per-record seqlock (`store_seq.go`) | an 8-byte counter at offset 0 of each record, in the file | `SeqBeginWrite`, `SeqEndWrite`, `SeqReadBegin`, `SeqReadValid` | called by the generated accessors; reset by `recoverSeqlocks` |
| Generated accessors (`internal/codegen/template/store.tmpl`) | none of their own | `Get`, `Set`, `Get<Field>`, `Set<Field>` | seqlock, typed field access |
| Typed field access (`store_read.go`, `store_write.go`) | the fields, in the file | `Read<Type>`, `Write<Type>`; zero-copy strings and bytes | `fieldSlice`: bounds check against the live record count |
| Append, growth, Sync (`store.go`) | record count and capacity in the mapped header; `s.header`, a copy in Go memory; `appendMu` | `Append`, `grow`, `Sync`, `flushHeader` | `Region.Grow`, `Region.Sync`, header codec |
| Opening, closing, recovery (`store.go`) | `s.region`, the file on disk | `CreateStore`, `OpenStore`, `Close`, `recoverSeqlocks` | all of the above and below |
| Memory-mapped region (`mmap_unix.go`) | reserved address range, `base`, `size`, file length | `Map`, `Grow`, `Sync`, `Close`, finalizer | the kernel |
| Advisory lock (`lock_unix.go`) | a lock file held with `flock` | `acquireLock`, `releaseLock` | other processes |
| Header codec (`header.go`) | 64 bytes at offset 0 | `EncodeHeader`, `DecodeHeader` | `Sync`, `Close`, open |
| Layout and schema hash (`layout.go`) | none (pure) | `ComputeLayout`, `SchemaHash`, `Descriptors` | open; code generator |
| Options, errors, constants (`options.go`, `errors.go`, `common.go`) | none | | open |
| Code generator (`internal/codegen`) | the graph: per schema its layout; the output directory | `ParseFile`, `NewGraph`, `Gen` | layout engine; its output calls typed field access |
| Command line (`cmd/mmapforge`) | none | `run`: parse, build graph, generate | code generator |
| Example (`example`) | | generated code for one schema | |

Goroutines of one process share the store; processes share the file. The only
lock inside a process is `appendMu`, taken by `Append` alone. The counters,
the record count and the capacity are atomics **in the mapping**, so a store to
them is in the file at once, is seen by every process and survives the death of
the one that made it.

### What is hard about it, and what makes each part correct

*Seqlock and accessors.* Setters and getters interleave word by word; setters
of one record are not serialised by the library; the process may die between
the two increments; `SeqBeginWrite` runs before the index is checked, so it
touches counters of records that do not exist yet. Correct means: a getter that
validates holds one committed version of the record; a counter is odd only
while somebody is inside a setter, error paths and crashes included; a setter
takes effect at one instant, in all fields or, on an error, in none; a getter
does not spin for ever; appended records are zero.

*Append, growth, Sync.* Append loads the count, perhaps grows (truncate, mmap,
madvise, any of which may fail and leaves what came before done), publishes the
capacity, publishes the count. Sync encodes a header copy word by word and
takes no lock. Correct means: indices are handed out once and stay valid; the
capacity never promises records that are not in the file and mapped; whatever
fails, `appendMu` is released; to callers the store is a log.

*Opening, closing, several processes.* Each process maps the file as long as it
was then, decodes its own copy of the header, and only then tries the lock;
each step of open and close can fail, and the process can die after each.
Correct means: one writer under `WithOneWriter`, whose appends no flush of
another process undoes; every failed call gives back what it took; no call
touches memory that is not mapped; nobody is given a file that is not a store of
this schema; recovery leaves live writers alone; records below `Len()` are
mapped.

*Sync and power.* Pages reach the disk in any order. Correct means: what was
stored before a Sync or Close that succeeded is found again.

*Layout, hash, code generator.* Offsets are 32-bit sums; five tables of types
must agree; a source is rejected or generated whole. Correct means: fields are
aligned, disjoint and within the record; an accessor touches its field only;
the hash tells layouts apart that must not be mixed; success means every
annotated struct got all its accessors.

`PROJECT.json` lists the hazards one by one at their lines, with the properties
that would catch them; those without say why.

## 2. Modules

    AtomicRecord  <--implements--  Seqlock   <-- MCSeqlock,  SeqlockProofs
                                     ^-- extended by  SeqlockWeak  <-- MCSeqlockWeak
    AppendLog     <--implements--  Store     <-- MCStore,    StoreProofs
                                     ^-- extended by  Durable  <-- MCDurable,  DurableProofs
    OneWriterLog  <--implements--  Sessions  <-- MCSessions, SessionsProofs
                                   Layout    <-- LayoutProofs
                                     ^-- extended by  Codegen  <-- MCCodegen,  CodegenProofs

`MC...` instantiate for TLC, `...Proofs` hold theorems.

The first two detailed modules split a process's work where it splits: `Seqlock` has the
contents of records and treats `Append` as one step within a fixed capacity;
`Store` has the header, the mapping and growth and leaves contents out. They
share the record count: `Store` shows that every Append is one increment of it
(AppendLog), which is what `Seqlock`'s `Append` is. Growth maps the same file
at the same base address, so it does not move a counter or a field. `Sessions`
takes both as given, Append being one step there, and adds the processes.
`Layout` and `Codegen` are what happens before any of them runs.

### Seqlock

| state | code |
|---|---|
| `count` | the atomic behind `recordCountPtr` |
| `seq[i]`, `cell[i][w]` | the counter and the data words of record i in the file |
| `up`, `crashes` | the process has the store open; a bound on crashes |
| `pc`, `idx`, `ask`, `todo`, `buf`, `snap`, `out` | the locals of one accessor call per goroutine |
| `committed` | history: the record at its last `SeqEndWrite` or crash |

One action per access to a counter or a word. `SeqBeginWrite` (increment, before
any check), `StoreWord` / `RejectFirst` / `DiscardLater` (a `Write<Type>` call
that succeeds, fails first, or fails later in `Set`, where the template discards
the error), `SeqEndWrite`, `SeqReadBegin` (enabled on an even counter: spinning
is waiting), `LoadWord`, `GetOutOfBounds` (returns the error without
validating), `GetReturn`, `GetRetry`, `Crash`, `OpenStore` (`recoverSeqlocks`
over the records below the count). A schema is a partition of the words into
fields; a two-word field is a string, whose body getters do not load because
the string they return points into the record; the body's words are taken as they
are when the getter returns, which is when its caller may first look at them.
Indices go from 0 past the end of the store; a negative one, or one past the
mapping, whose counter is not in a record, is not modelled. `Serialized` (setters
of one record do not overlap) and `CleanCrashes` (no crash strikes a setter whose
index is past the end) say how callers behave; the library asks for neither.

`AtomicRecord` is what the template's comments promise ("reads all fields
atomically", "writes all fields atomically") as far as the code keeps it: Get and
Set are single steps between call and return, a failed setter changes nothing,
one that returns nil has replaced the fields that fit, its first among them, and
a crash leaves each word as it was or as a setter in flight was making it. The
refinement mapping takes `committed` for the record, so a setter takes effect at
`SeqEndWrite` and a getter at its successful `SeqReadValid`.

`SeqlockWeak` is `Seqlock` on arm64. `Validate`, the load of `SeqReadValid`, is
an action apart from what the getter then does (`WeakReturn`, `WeakRetry`); with
`LateLoads` it and the loads of fields may be satisfied in any order after
`SeqReadBegin`. History `versions` holds every version of a record, so that
`NeverTorn` asks only for one version, not for the last.

### Store

| state | code |
|---|---|
| `count`, `capacity` | the header words behind `recordCountPtr`, `capacityPtr` |
| `fileSize` | the length of the file |
| `header` | `s.header`, read at open |
| `window`, `size` | the pages the kernel has mapped; `region.size` |
| `appendMu` | its holder |
| `pc`, `idx`, `newCap` | the locals of `Append`/`grow`/`Sync` per goroutine |
| `issued` | history: indices Append returned |

Each load, store and system call is an action: `LockAppend`, `HasRoom` or
`CallGrow`, `Grow`, `RegionLargeEnough` or `Truncate`, `Mmap`, `Madvise`,
`GrowFails` (after any of them), `PublishCapacity`, `StoreCount`; `CallSync`,
`PutRecordCount`, `PutCapacity`, `Msync`; `Close`, `Crash`, `OpenStore`. On Linux
`window` and `size` really come apart: `mmap` may succeed and `madvise` fail.
`SyncsAlone` and `FlushesGrown` say how callers behave; the library asks for
neither (two findings are what happens without them).

`AppendLog`: indices are handed out from 0, each once, and the number of records
changes in no other way.

### Sessions

| state | code |
|---|---|
| `path`, `fileCap`, `count`, `capacity`, `odd` | the file: whether its header identifies it, its length, the header's two words, record 0's counter |
| `holder` | who has the `.lock` file flocked |
| `fd`, `win`, `header` | per process: descriptor, extent of its mapping, `s.header` |
| `handle` | the `*Store` its caller has, and whether `s.region` is nil in it |
| `pc`, `opt`, `closing` | where it is in a call, the options, what `flushHeader` runs for |
| `botched`, `outdated`, `shrunk` | history: `msync` failed in its last Close; the file's length has changed since it mapped it; a growth has made the file shorter |

An action per step that another process can tell from the next: `CallCreate`
(`O_EXCL`) / `CallOpen`, `CreateMap` / `OpenMap`, `EncodeIdentity` and
`EncodeHeader` / `DecodeHeader`, `RecoverLoad`, `RecoverStore`, `AcquireLock`;
their failures `MapFails`, `DecodeFails`, `RejectOptions`, `AcquireLockFails`;
`Append`, `AppendGrowing`, `AppendFails` (the file is truncated and then not
mapped), a setter's two increments; Sync and Close as `FlushLoad`, `FlushPut`,
`Msync` or `MsyncFails`, `Unmap`, `ReleaseLock`; `Finalize`; `Crash`; and `Fault`,
what becomes of a process that touches memory it may not. Sizes are in records.

`Fault` has four causes. `RegionGone`: `s.region` is set and nothing is mapped.
`PastMapping`: a live record is not in the process's mapping or in the file, and
an accessor, whose index is checked against the shared count only, or the scan of
`recoverSeqlocks` reaches it. `WritesReadOnly`: Sync, `SeqBeginWrite` or
`Write<Type>` on a read-only store. `LenAfterClose`. The last two the code does
not check at all, and no property is about them. `FaultsExplained` says of the
first two what must have happened before: a Close whose `msync` failed; the
file's length changed by another process, or by a growth of one's own that then
failed to map it, or cut by a growth; or a header whose capacity is below its count, which a flush of an
outdated header leaves.

`CreatedFirst` says that callers append only when nobody is inside `CreateStore`;
they may open the path meanwhile. The library does not ask for it, and without it
`ImplementsOneWriterLog` fails, because the header is written before the lock is
taken: the opener may lock, append and have its count overwritten with 0.
`OpenedIdentified` is about such openers: a handle is given out only on a file
with the magic number and the schema's hash and with room for the first records.
The count and capacity it is given may still be the zeros of a header in the
making, for ever if the creator dies there; then the store is empty, and the
first Append makes its capacity the initial one.

`OneWriterLog`: a process enters, appends, leaves; at most one is inside;
nothing else changes the number of records.

`NothingLeftBehind` leaves out one error return of `OpenStore`, which does give
nothing back (section 6).

### Durable

`Store` with what the disk has: `disk` (header page, file length, and which page
of which record), `done` (records a setter has returned for) and `stored` (those
of them that are in the file), `valid`, and the history `promised`. `Writeback`
writes any page, or the length, at any time; `MsyncSucceeds`, `CloseSucceeds`
write all; `MsyncFails`, `CloseFails` need not have written anything;
`PowerFailure` leaves what the disk has; `OpenRecovering` is `OpenStore` with the
loads of `recoverSeqlocks`, which fault past the mapping. A msync that returns
has also made the length of the file durable, as Linux does. A file whose length
is no multiple of a page is mapped to the end of the page, and what is stored
there past its end never reaches it: then a record is `done` and not `stored`.

`LengthFirst` says that the file system puts a new length on the disk before it
writes a page that was stored to after it. Journalling file systems usually do,
nothing obliges them to, and `OpenStore` does not check.

### Layout and Codegen

`Layout` is `ComputeLayout` loop by loop: `CheckField` or `RejectField` per
field, `PlaceField` per field, `RoundRecord`; sums are modulo `Word`, and
`wrapped` records that one has passed it. `Codegen` runs it for every schema.
`ParseFile` goes struct by struct (`SkipStruct` without a directive, `EndStruct`
when its fields are parsed: `findDirective`, `extractSchemas`) and in a struct
declaration by declaration (`SkipField`, `ParseField`, `ParseFails`:
`parseFields`, `parseMmapTag`). Then come `EndParse`, `CallComputeLayout`,
`ComputingLayout`, `AddNode`, `LayoutFails` (`NewGraph`), `StartGenerate`,
`WriteFormatted`, `WriteFormattedFails`, `EndGenerate` (`generate`). `ReadCall`
and `WriteCall` are the accessor calls of `type.go`, from the two switches
`ReadMethod` and `WriteMethod`, `SliceLen` the bytes that `store_read.go` and
`store_write.go` then touch, `SchemaHash` a digest that is equal for equal strings
only. `EveryFieldAccessible` looks at the parsed schemas and at the files written,
and excepts by name what the generator drops in silence; a directive on one type
of a group is not in the model (comments are those `findDirective` looks at).

## 3. Runs

| run | instance | shows |
|---|---|---|
| `seqlock` | 2 writers, 1 reader, 1 record of two fields that may both be too long, one of them a string with a body, 2 values, 2 sets, 1 crash; serialised setters; index 0, before the record is appended and after; no crash while a setter has the index of no record | type; `ValidMeansCommitted`; `OddIffWriting`; `FreshRecordsZero`; `ImplementsAtomic`; `SetByFields`; `GetReturns` under fairness |
| `store` | 2 appenders, 2 syncers, 2 records per page, capacity 1 doubling to 8 and to the end of the reservation, 3 openings, up to 9 records; Sync apart from Append, also after a growth | type; `CapacityBacked`, `IssuedLive`, `UniqueIndices`, `ImplementsLog`; `AppendReturns` under fairness |
| `sessions` | 2 processes, alike up to symmetry, each time with `WithOneWriter`, `WithReadOnly` or both; capacity 1 doubling to 4, up to 3 records | type; `NothingLeftBehind`, `FaultsExplained`, `OpenedIdentified`, `ImplementsOneWriterLog` |
| `schema` | every source of 1 struct with 0 to 3 fields of 12 kinds, of 2 structs with 0 to 2 fields of 7 kinds, and every placement of directives; `Word` = 64 | type; `FieldsApart`, `Compact`, `RejectsInvalid`, `AccessorsApart`, `EveryFieldAccessible`, `EverySchemaWritten`, `RejectedWritesNothing`, `HashGuardsLayout` |
| `durable` | 1 appender, 1 syncer, pages of 3 bytes, a header of 2 and records of 2, so that records lie within a page, on two, and past the end of the file in its last page; growth through capacities 2 and 4 and to the end of the reservation, 2 openings, any number of power failures; `LengthFirst` | type; `SyncedSurvives`; `RecordsMapped` |
| `seqlock_partial_set`, `seqlock_arm64`, `seqlock_stuck`, `store_fault`, `store_sync_race`, `sessions_recovery`, `sessions_stale_mapping` | | the disagreements of section 6 |

*Why the bounds are enough.* A torn read needs one getter and one setter whose
stores fall between two of its loads; two words and two values tell versions
apart, two sets (`MaxSeq` = 4) let a counter go through a whole cycle and come
back to even, so that validation must compare values and not only parity. A
second writer is what serialisation is about. One record is enough, because
records share nothing but the count, and index 0 is past the end until the record
is appended. One crash reaches every state
between two stores. `store` passes through an Append within a page, one that
remaps, one that runs into the end of the reservation, and a retry after each
failing call; every operation is repeated after a reopening. Two processes in
`sessions` may each create, open, close and die any number of times, with no
bound but the number of records; one growth tells a mapping of before from one of
after, and a second lets a process with such a mapping cut the file that the other
has made longer. `Word` = 64 makes sums of three fields wrap, at the last field and
at the rounding of the record, while each size is within its range; 7 types of
5 widths with odd lengths give every remainder modulo 8. Two structs are enough
for two versions of one schema and for names that collide. In `durable` a
record is on the disk in part, the header is older or newer than the file is
long, and a Sync or Close has or has not come between.

*Fairness.* Weak fairness of each goroutine's step inside a call: the Go
scheduler preempts, so a runnable goroutine is not passed over for ever. Strong
fairness of `LockAppend`: `sync.Mutex` hands itself to a goroutine that has
waited 1 ms. Nothing is assumed about calls being made, about crashes or about
anyone reopening the store. `GetReturns` is conditional on the record being left
alone from some time on: a getter may be overtaken by setters for ever, which
the code permits; what must not happen is spinning on a counter nobody will
make even.

*Deadlock* is not checked: in every run the environment may stop making calls.
That nobody is stuck inside a call is `GetReturns` and `AppendReturns`.

## 4. Proofs

`SeqlockProofs`, for any numbers of goroutines, records, words and crashes and
any schema:

- `TypeCorrect`, `ReadersNeverTorn` (`ValidMeansCommitted`) and
  `CountersShowSetters` (`OddIffWriting`), assuming `Serialized` and
  `CleanCrashes`. Both are needed: TLC breaks `OddIffWriting` and
  `ValidMeansCommitted` with two writers and `Serialized = FALSE`, and the trace
  of `seqlock_stuck`, an index past the end and a crash, breaks `OddIffWriting`.
  `ValidMeansCommitted` is not inductive: that the
  counter is unchanged says something about the words only if an odd counter
  means a setter (`Parity`), at most one setter is inside (`Setters`), a record
  without a setter is as committed (`Contents`), and everything a getter has
  loaded is still in the record while the counter equals its snapshot
  (`Loaded`).
- `SetsByFields` (`SetByFields`) and `AccessorsAreAtomic`, the refinement: every
  behaviour of the accessors is one of `AtomicRecord`. Both assume `Serialized`
  and `CleanCrashes`, and nothing of which fields may be too long: a setter that
  returns nil has replaced exactly those that fit, which is all of them only if no
  later one is too long (run `seqlock_partial_set`). They need `Underway`:
  a record being set is as committed but for the words stored so far, none if an
  error is to be reported (`Stored`), and a getter that has loaded anything is in
  bounds and holds nothing else (`Fetched`). `Loaded` then shows that a getter that validates returns the
  committed record, and a step that ends no call changes nothing the abstract
  record has.
- `FreshStaysZero` (`FreshRecordsZero`), with no assumption on callers.

`StoreProofs`, for any sizes of header, record, page and reservation, any
numbers of goroutines, and system calls failing and processes dying at any point:

- `TypeCorrect` and `CapacityIsBacked`, with no assumption on callers: Sync may
  overlap Append and flush an outdated header. The inductive invariant has
  `Locking` (only the holder of `appendMu` is inside Append) and `Mapping` (the
  live capacity *and the one in `s.header`* fit `region.size`, which the mapping
  and the file cover; between the calls of `Region.Grow`, which of the three
  already has the new size). `CapacityBacked` alone is not inductive because the
  steps of growth rely on what earlier ones did.
- `IssuedStaysLive`, `IndicesUnique` and `StoreImplementsLog`, assuming
  `SyncsAlone` only, from `Numbering`: every issued index is below the count, and
  a holder of `appendMu` past its check has loaded the count that is still there.
  Sync and Close may flush any capacity. Without the assumption they fail
  (`store_sync_race`).
- `LiveRecordsMapped` (`RecordsMapped`), assuming also `~FlushesGrown`, from
  `Fitting`: the count is within the capacity. Without that assumption it fails
  (`store_fault`). The run with `FlushesGrown = FALSE` that checks it is
  `durable`; `Store.cfg` so changed passes with it too.

`SessionsProofs`, for any processes, option sets and capacities, with failures
and deaths at every step:

- `TypeCorrect`, `FailuresGiveBack` (`NothingLeftBehind`), `OpensIdentified`
  (`OpenedIdentified`) and `AccessesExplained` (`FaultsExplained`), with no
  assumption on callers. The invariant has `Owns`, what a process holds
  (descriptor, mapping, handle, lock) by where it is in a call, without which no
  error path can be said to give all of it back, and `Complete`, that whoever has
  got past the check of the header has seen the file identified, as it stays.
  `AccessesExplained` adds `Sized`: a mapping is as long as the file unless it is
  outdated or being made, only the creator finds the file empty, and the capacity
  in the header and in every copy of it is within the file, unless it has shrunk.
- `OneWriterAtATime`, the refinement: the store is a `OneWriterLog`. It assumes
  `WritersLock`, every option set that can write has `WithOneWriter`, and
  `CreatedFirst`. Without the first nothing keeps two writers apart, without the
  second the creator overwrites a count (section 2, Sessions). The invariant adds
  `Alone`, a process inside the log holds the lock and a flush under way puts
  back the count that is there, and `CreatedAlone`, that there are no records
  while the file does not exist; that nobody has appended to a file in the making
  is part of `Alone`.

`DurableProofs`, for any sizes, goroutines, failing system calls, deaths and
power failures: `DurableTyped`, `SyncsSurvive` (`SyncedSurvives`) and
`MappedAfterPowerFailure` (`RecordsMapped`), assuming `SyncsAlone`,
`~FlushesGrown` and `LengthFirst`. Without the third they
are false (section 6); the first two are those of `Store`. While the file is valid the invariants of
`StoreProofs` hold of it, and their preservation by the steps of `Store` is used
as it stands; what remains is that a power failure restores them. For that
`OnDisk` has that the disk never promises more than it has, and all of what is
promised; `Kept` that what is done is in the file; and `Grown` that no growth
makes the file shorter, because one that failed half-way was to the same length
as the next will be.

`LayoutProofs`, over `LayoutSpec`, for any word size above 16 and any
lists of fields: `LayoutsTyped`, `FieldsLieApart` (`FieldsApart`),
`LayoutsCompact` (`Compact`), `InvalidRejected` (`RejectsInvalid`). The induction
is over the steps of the two loops: `LInv` says of the fields placed so far what
the properties say of all. Further, `Chained`: each offset is the end of the
field before, rounded up to the alignment, which holds also of sums that have
wrapped. `ChainsEqual`: two layouts so chained, with equal sizes and alignments,
are equal. That would be an induction over the fields; it is proved from the
least field in which they differ.

`CodegenProofs`, for any source files whose structs and fields are sequences:
`GeneratorTyped`, `GeneratedLayouts` (`LayoutProofs` of every layout the
generator computes), `AccessorsTouchOwnField` (`AccessorsApart`),
`FieldsAccessible` (`EveryFieldAccessible`), `SchemasWritten`
(`EverySchemaWritten`), `RejectedUnwritten` (`RejectedWritesNothing`) and
`HashTellsLayouts` (`HashGuardsLayout`). The assumptions are those on the
constants, `WordAssumption` and `SourcesAssumption`. None of the properties is
inductive: they relate the ends of the pipeline, and `CInv` has what each stage
hands to the next. `Mirrored`: each schema is its struct, field by field.
`Covered`: every annotated struct passed has its schema. `LaidOut`: each node is
the layout of its schema. `Stored`: files hold the nodes counted so far. The hash
is proved to guard the layout without any bound on the number of fields, through
`ChainsEqual`: equal hashes in equal order give equal sizes and types, those
equal alignments, and they every offset.

Only model-checked: `GetReturns` and `AppendReturns`, because liveness under
fairness is out of the prover's reach. Every safety property and every refinement
a passing run checks is proved. The abstraction of text (names, digests,
directives) is part of the models, so the proofs say nothing about it.

## 5. What is not modelled

- Memory ordering weaker than sequential consistency, except for a getter's
  loads on arm64 (`SeqlockWeak`). The increments of a counter are taken as full
  barriers on either side, which they are where Go uses `LDADDAL`; what the Go
  memory model leaves to the compiler (field accesses are plain loads and
  stores) is not modelled.
- When the garbage collector finds a region unreachable that strings still point
  into, or a lock file nobody closed (a store dropped without `Close`):
  `Finalize` is for regions of failed calls only.
- Growth whose `mmap` succeeds and `madvise` fails while another process has the
  file open: `Store` has each failure, `Sessions` only that the file is longer and
  the mapping not. `munmap` is taken not to fail.
- Accesses outside the header and the records: a negative index, or one past the
  mapping, given to `SeqBeginWrite`.
- 64-bit overflow of counts and sizes, which no reachable store meets, and the
  encodings of the field types.
- External templates, hooks, and the text the templates print, of which
  `Seqlock` models what it does, for every schema. The example is one schema's
  output.
- What a file system does after a power failure beyond losing pages and the
  length (files that have changed their name or content otherwise).
- Several stores in one process, and callers that share a process but not a
  store.
- The README of the repository says that the record count in the file is stale
  until `Sync`. In the code the live count is the mapped header word itself, and
  the models follow the code.

## 6. Where the code and what it says part

| run | what happens |
|---|---|
| `seqlock_partial_set` | `Set` discards the error of every field but the first (`store.tmpl:116`) and returns nil for a record it has stored in part, though "Set writes all fields atomically" (`store.tmpl:106`) |
| `seqlock_arm64` | the second load of the counter, an acquire load, may come before the loads of fields: a getter returns parts of two versions, though "readers never see a torn write" (`store_seq.go:40`). With `LateLoads = FALSE`, a crash included, `NeverTorn` holds |
| `seqlock_stuck` | a setter given an index past the end makes that counter odd; if the process dies there, `recoverSeqlocks` skips it, Append makes the record live, and its getters spin for ever |
| `store_fault` | `Sync` and `Close` write back the capacity read at open; the next Append doubles the outdated number once and may return an index past the mapping |
| `store_sync_race` | `Sync` overlapping `Append` puts back an older count; an index is returned twice |
| `sessions_recovery` | a writer that is then refused with `ErrLocked` first runs `recoverSeqlocks`, which makes the counter of a record even that the one writer is setting |
| `sessions_stale_mapping` | `Len()` and `Cap()` count records another process has grown the file for, past this process's mapping. With `Options <- JustOneWriter` the same happens to a writer: it maps before it gets the lock, so it may start with a mapping of before its predecessor's last growth |

Other departures met on the way, which no run of this list is about:

- Two setters of one record make its counter even in mid-write, and nothing
  says that callers must serialise setters: `ValidMeansCommitted` fails with two
  writers and `Serialized = FALSE`.
- `SeqBeginWrite` computes an address from any int: a negative index increments
  words of the header, a huge one faults.
- A string a getter returned changes when the record is set again, although it
  is said to be valid until `Close` (`store_read.go:112`).
- `OpenStore` with both options leaks the region until its finalizer runs;
  `Close` whose `msync` fails leaves `s.region` set; `Sync` and `Write<Type>` on a
  read-only store store to a read-only mapping, and `SeqBeginWrite` panics; `Len`
  and `Cap` after `Close` load through pointers into memory that is unmapped (the
  exception of `NothingLeftBehind` and the causes of `Fault`).
- A process that opens the path while `CreateStore` runs may be given a store whose
  capacity is still 0, and one that appends then may lose its record
  (`CreatedFirst`). A process with an outdated mapping whose Append grows cuts a
  file that another has made longer (`shrunk`), and `recoverSeqlocks` in
  `OpenStore` faults if the count is past the mapping just made.
- `OpenStore` does not compare the header with the length of the file. Without
  `LengthFirst` a power failure may leave a header that promises records the file
  does not have: `RecordsMapped` fails, and so does `SyncedSurvives`. A record in
  the rest of the file's last page can be set without a fault and is not in the
  file when Sync or Close then returns nil (`Durable.cfg` with
  `LengthFirst = FALSE`, 20 steps); and once `madvise` has failed in a growth from
  such a header, records are mapped that `msync` is not asked to write.
- "Append adds a new zero-filled record" (`store.go:256`), but after a power failure
  the page of a record may be on the disk and the header that counts it not; the
  record is appended again and is not zero.
- The schema hash is made independent of the order of the fields
  (`layout.go:193`, `layout.go:197`), although the order decides their offsets: a struct whose fields have been reordered opens the
  files of before and reads one field's bytes as another's. `HashGuardsLayout`
  fails without `SameOrder`.
- The parser skips further names of a declaration, embedded fields, directives
  it cannot parse and directives on one type of a `type ( ... )` group; structs
  whose names differ only in case overwrite each other's files (exceptions of
  `EveryFieldAccessible`, `EverySchemaWritten`). Once a 32-bit sum wraps, fields
  overlap.

## 7. Plan

Every safety property of the passing runs has its theorem. What is left:

1. `SeqlockWeak` with loads in program order: `NeverTorn` as a theorem, from
   "what a getter has loaded is from one version while the counter equals its
   snapshot", the counterpart of `Loaded` for a record that has moved on.
2. The contents of records across a power failure, in `Durable`, to say what an
   Append after one returns.
3. A weaker promise of Sync and Close that needs no `LengthFirst`: what lay
   within the file when it was set.
