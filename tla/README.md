# Formal models of cpp-serializers

`src/benchmark.cpp` is a command line program that measures serialization
libraries: it parses its arguments, runs one function per library (all named
`*_serialization_test`), and prints one row per library. Next to it stand small
records per library, some written by hand (`src/boost`, `src/cereal`, ...), some
generated (`src/thrift/gen-cpp`, `src/protobuf`, `src/capnproto`, ...).

The directory holds TLA+ modules translated from that code, TLC configurations
that check them on small instances, and theorems checked by TLAPS for all
values of the constants.

## 1. The system

### Components

| Component | State it keeps | Operations | What makes it correct |
|---|---|---|---|
| command line and `main` (`benchmark.cpp` 37-171, 640-706) | `Args`, the vector of results, standard output, exit status | `parse_args` with its five early exits, the chain of eleven conditional tests, `print_results`, protobuf's version check and shutdown | The report has exactly one row per requested serializer, in a fixed order, or none; a valid request is never refused |
| thrift test (173-259) | `buffer1`, `buffer2`, `serialized`, `r2`, the two protocols | write, copy, observe, read, check, loop | The read never sees freed memory or the bytes of an earlier iteration; the reader's protocol is the writer's |
| protobuf, boost, msgpack, cereal, yas tests (261-297, 359-474, 591-638) and their hand-written records | streams, `sbuf`, `serialized` | encode, store, decode, check, loop | Every iteration decodes what it has encoded; the size is that of one encoding |
| capnproto test (299-357) | message builders, `serialized` (pointers into one of them), readers | build, segments, read, check, loop | Segments are read only while their builder exists |
| avro test (476-526) | output stream of chunks, encoder, decoder | encode, `byteCount`, decode, check, loop | All bytes of the image can be read although the encoder is not flushed; the size means what the table says |
| flatbuffers test (528-589) | builder, vector of offsets, copied buffer | create strings, vectors, record, finish, copy, release, check, loop | No builder is given an offset of another builder; sizes and pointers are taken between finish and release |
| thrift record (`thrift/gen-cpp/test_types.cpp`) | two lists and the flags that they were read | `read`, `write`, setters, `swap`, copies | A read that returns has replaced the whole record; a read that does not leaves a record one can describe |
| protobuf record (`protobuf/test.pb.*`) | repeated fields, unknown fields, cached sizes, arena | parse, serialize, merge, clear, swap, copy | Cached sizes belong to the content they frame; a parse adds exactly what was serialized, and never loses what came before packed ids it misreads |
| capnproto record (`capnproto/test.capnp.*`) | two pointer slots in a message, the lists in its arena | init, get, set, adopt, disown, has | A list has one owner; a builder that outlives its list harms no other |
| flatbuffers record (`flatbuffers/test_generated.h`) | a buffer that grows towards its front, vtables, offsets | create, finish, verify, access | What is built is accepted and reads back; what the verifier accepts can be read |
| avro codec and hand-written records (`avro/record.hpp`, `boost`, `cereal`, `yas`, `msgpack`) | two vectors | encode, decode member by member | Every field ends up in its member; a decode that fails spoils one member only |
| schemas and data (`data.hpp`, `test.*`) | 1000 integers, one string, 100 times | none | The record every test encodes has the sizes the tables of `README.md` publish |
| build (`CMakeLists.txt`) | installed libraries, generated files in the source tree | install, generate, compile | A program that was built was built from the schemas as they are |
| plots (`images/graphs.R`), thrift constants | none | none | - |

### Interaction

The program has one thread. `main` calls the tests one after the other; each gets the
number of iterations (the thrift and yas tests also a protocol or flags) and
returns a `Result` or throws. `main`'s handler around the whole chain prints the
exception and exits, which drops every `Result` so far. Tests share nothing with
each other; a test shares memory with its library, and there the difficulty
lies: several libraries hand out views (`buffer2`, segments, offsets, `r2` of
flatbuffers, a `List::Builder`) into memory that another object owns, and the
loops reuse some of these objects and rebuild others.

The build is concurrent: make runs its steps in any order that
`add_dependencies` and `DEPENDS` leave open. Its state lasts from one build to
the next, in the source tree, where the generated files lie next to the schemas.

### What is hard here

* **Partial failure.** A test late in the chain throws; a `read`, a parse or a
  decode stops halfway.
* **Stale state.** Reused buffers, streams, records, offset vectors; cached sizes;
  views that outlive or precede what they look into; generated files that are
  older than their schema, or than the library they are compiled against.
* **Protocol sequence.** Statements that only work in one order (finish, copy,
  release); lists of names kept in three places; an empty set that means "all";
  repeated, missing, unknown and ill-typed fields on the wire; lists that move
  between records and orphans.
* **Ordering.** The checks of a verifier; fields in the order of another writer.
* **Interruption and parallelism**, of the build only.
* **Numeric edges.** Zero iterations, empty lists, an encoding that fills its
  chunks exactly, sizes on either side of a limit of a format.
* **Liveness.** Every loop ends after the iterations asked for; every build ends.

`PROJECT.json` lists each with its line and the properties about it.

## 2. The modules

```
BenchmarkSpec <--refines-- Benchmark           <-- BenchmarkProofs, MCBenchmark

                           SerializationTest   <-- ThriftTest, ArchiveTest, CapnpTest,
                                                   FlatbuffersTest, AvroTest (MCAvroTest), Suite
RoundTrip     <--refines-- Suite               <-- SuiteProofs, MCSuite
Benchmark     <--refines-- Suite                   (from its args on)
                                                   (Suite INSTANCEs all five tests)

                           ThriftRecord        <-- ThriftRecordProofs, MCThriftRecord
                           ProtobufRecord      <-- ProtobufRecordProofs, MCProtobufRecord
RecordLists   <--refines-- CapnpRecord         <-- CapnpRecordProofs, MCCapnpRecord
                           FlatbuffersRecord   <-- FlatbuffersRecordProofs, MCFlatbuffersRecord
                           RecordDecode        <-- RecordDecodeProofs, MCRecordDecode
                           RecordSizes         <-- MCRecordSizes
                           Build               <-- BuildProofs, MCBuild
```

`BenchmarkSpec`, `RoundTrip` and `RecordLists` are abstract: what the program
promises its user, what a test promises `main`, what the accessors of a record
promise whoever calls them. A test is one step of `Benchmark` (`RunTest` when it
returns, `TestThrows` when it throws); `Suite` is the same chain of `main` with the
tests opened up. The records open up single statements of the tests:
`ThriftRecord` is `r2.read`, `ProtobufRecord` the serialization and parsing of the
protobuf test, and so on.

An operator with a suffix (`Iterate_Append`, `Split_Compress`) is the definition
named before the underscore with a plausible mistake in it. No specification uses
these: they are there to show that each property notices such a mistake.

### Benchmark

`cmd` is the command line as cxxopts leaves it, `args` the `Args` that
`parse_args` returns, `next` the place in the chain of `if`s, `results` the
vector in `main`, `out` what is on standard output. There is one action per early exit of
`parse_args` in the order of the code (`ParseError`, `ShowHelp`,
`ListSerializers`, `MissingIterations`, `RejectSerializer`) and `AcceptArgs`;
`RunTest`, `SkipTest` and `TestThrows` are the chain, and `PrintResults` and
`Return` the end. `Split` is `boost::split` into a set: an empty value gives the
set of the empty string, which is not empty, hence is refused and does not mean
"all". `valid_serializers` and `Tests` are separate lists as in the code, and the
name in a row comes from inside the test (`ThriftTag`, `YasTag`), not from the
chain. Durations and sizes of rows are left out.

### Suite and the tests

The five modules of tests and `Suite` EXTEND `SerializationTest`, which declares what they
have in common. `pc` is the next statement, `i` the iteration (0 for the
check before the loop), `decoded` the number of the encoding decoded last.
Encodings, called images, are numbered: the check's is 1, that of iteration `i`
is `i + 1`; data is reduced to whose it is. What a library does to the two
lists is a constant of the job: "same", other "values", or another "count". This is how
the checks of the tests differ: thrift, boost, cereal, yas, msgpack and avro compare everything,
flatbuffers both lengths, capnproto one length, protobuf only asks whether the
parse succeeded. The set `Trusted` that each module gives to `RoundTrip` is
what its check can see, so a "returned" of capnproto is shown not to mean
that the strings have survived.

`Suite` has the locals of all tests as variables, of which those of the test at
hand are in use. `Call` enters a test with new locals, `Test` is one step of it,
`Push` collects its `Result`, `Catch` is the handler around the chain, `Skip` a test that is not
requested. `Implements` says of every test, from its `Call` on, that it keeps
`RoundTrip`, whichever ran before it. `RunsAsOneStep` says that `Suite` is `Benchmark`
with the tests opened up: seen through `Bench`, which shows the `requested` names as
`args`, of the results the names, and an execution between the end of `parse_args` and
that of the chain, `Skip` is `SkipTest`, `Push` is `RunTest`, `Catch` is
`TestThrows`, `PrintResults` is `EndOfTests` and everything else changes nothing. That the
name appended is the one asked for is not in `Push`: it comes out of the test.

* `ThriftTest`: an assignment to `serialized` gives its memory a new generation;
  `buffer2` remembers the generation it observes, and reading another one, or
  the image of another protocol, finds nothing.
* `ArchiveTest`: six tests in one module, for they differ only in what the loop
  reuses (`sbuf`, `serialized`, nothing) and in what it decodes from. An image
  that cannot be read makes five of them throw from the library; protobuf's
  returns false, which its check turns into its own error.
* `CapnpTest`: `live` are the builders in scope, `serialized` and `reader` point
  to one; scopes end at the end of an iteration, on return and when an exception
  unwinds the stack.
* `FlatbuffersTest`: the builder goes through "open", "vectors", "finished",
  "released"; each offset in `strings` is the number of the builder that made it.
* `AvroTest`: the stream is the bytes encoded and the bytes counted, which grow by whole
  chunks; `encoder->flush()`, which would give the unused rest back, is not in the
  code and therefore not in the model.

`Throw` is possible at every statement that calls the library or allocates.

### ThriftRecord

`read` is one action per call on the protocol object that changes the record or the
position: `BeginList` (the list is cleared as soon as its field is seen),
`ReadSize` (`resize`), `ReadElement`, `EndList`, `BeginSkip` and `Skip`, `Stop`
with the test of the two flags, and `Fail`, a throw of any of these calls. `old`
remembers what the record held: the thrift test reads into the same `r2` again
and again. A string being read when the bytes end may be left partly assigned
(`Torn`). The element type inside a list is not modelled: `read` stores it in a
local variable and ignores it, and what the protocol then makes of the bytes
is the library's affair.

### ProtobufRecord

`content` are the fields of the messages of a program, `idsSize` the size of the
packed ids each has cached (unset by the constructors, hence any of `Garbage`),
`wire` the string serialized last or one from elsewhere (`Wires`). Calls that change a
message are one action each. `ByteSizeLong` and `SerializeWithCachedSizes` are
separate, as in the code; `measured` is the caller's obligation to serialize only
what has not changed since it was measured, which `SerializeToString` meets
by calling both in turn. Whether that obligation is enough is `WellFramed`. So a message whose size is stale, as a merge leaves it, is never serialized here: that is
assumed of the caller, not checked. Parsing is one action per field of
the wire, and `Cut` and `BadTag` are the ways it fails.

After an id that is not packed the code does not go back to its loop: it calls
`ReadRepeatedPrimitive` with the tag 10, that of packed ids, and the library
goes on for as long as that tag follows and `ids_` has room. It then takes
the length of a packed field for an id and leaves the packed ids to be read as fields
(`ReadMoreIds`): `<<id, packed <<>>>>` may be accepted with a 0 more than was sent. Of this
the model keeps the control. Whether there is room is left open, so `ReadIds` may
read the same field as it is meant; what the bytes behind the length are if they are read as
fields, up to the end of the string, is any of `Rereads`, for the model knows no bytes;
`parse.state` is "astray" from then on. An empty packed
field has no such bytes, and the fields behind it stay. No doc says what the code does with such a string,
and no serializer of the repository writes one; the properties say what holds
nevertheless. `Mixed` are the strings with a packed field right behind an id.

Merging a message into
itself is a fatal error in the library and not offered; `CopyFrom` and `Swap`
with itself return at once. The code holds two parsers; the default one is
modelled, `_InternalParse` is compiled only with an experimental flag. Sizes
beyond `int` are left out. `meant` and `parse.kept` are history variables.

### CapnpRecord

`lists` are the lists in the arenas of all messages, in the order they were
allocated: an arena is never reused, and a list that is replaced or dropped is zeroed where
it lies. `at` is what each slot and each `Orphan` points to, `hand` the list of a
`List::Builder` the program has kept, which no accessor updates; `thrown` that
the last call refused. `RecordLists` knows neither arenas nor zeroed lists: each
place holds a list of its own. A `set` is given a Reader of any list, also of
the very one it replaces, which is then all zeros when it is copied; what a `set` stores
is left open in `RecordLists`, that it changes nothing else is not.

### FlatbuffersRecord

The buffer is a sequence of cells, one for a scalar, character, offset or
entry of a vtable; alignment is left out. `fbb` is the builder with the table under
construction, `made` the offsets the program holds, with the value of each object as
history. `EndTable` shares an equal vtable, `AddOffset` leaves out a null
offset. The two vectors of `CreateRecordDirect` are arguments of one call and
created in either order. The library asserts that a buffer stays shorter than
a signed offset reaches, and `FinishRecordBuffer` has that as its guard. `Damage` replaces a cell or cuts the buffer. Then one
action per check of `Verifier` in the order of the code; `touched` is what the
check looks at, which follows the offsets it finds without asking whether they are
inside: that is the property. A buffer that was not damaged may be read without
verification, as the benchmark does ("trusted").

### RecordDecode

One decode of any of the five libraries into a record that holds another one: `layout` are
the fields on the wire, in the order of the writer; `pos` and `done` where the
decoder is. boost, cereal, yas and msgpack resize the vector and fill it, avro
clears and appends; msgpack takes a shorter or longer array, a resolving decoder
of avro other fields in another order. The other decoders only ever see images of
their own record, because nothing in an image names its fields. `Fail` may end any call; boost, cereal and yas read
a string in place and may leave it `Torn`.

### RecordSizes

The size of the record of `data.hpp`, computed format by format. `Integers` counts
`kIntegers` by sign and number of bits, all that the size of an integer depends
on in any of the formats; the strings count by their number and length. capnproto
needs the order of its lists too, as one that does not fit its segment costs
a word. boost is left out: the length of the header of its archive is
nowhere in the code.

### Build

`Install`, `Generate` and `Compile` are the steps of make, enabled as the dependencies
allow: the libraries of `DEPENDS` first, all libraries before any generator
(`add_dependencies`), all generators before the compiler. `newer` are the schemas newer
than the `OUTPUT` generated from them, arbitrary after a checkout; `output` and `header` are what the two files
of a generator were made from and by. `Interrupt` leaves no `OUTPUT` (make removes
it) but any header; a make that is killed itself, or a loss of power, may leave a part of an `OUTPUT`
as if it were current, and is not modelled. `CompileError` is what the version checks in the generated headers of protobuf and capnproto
do; whether a newer protobuf still takes an older header is the library's to say, and left open (`TooNew`). `Edit`, `Upgrade` and `Run` happen between builds.

## 3. The runs

**Fairness.** `Benchmark`, `Suite` and `ThriftRecord` assume
`WF_vars(Next)`: there is one thread, no statement waits
for anything, so the program takes its next step while it has one. A weaker
assumption would allow it to stop anywhere; nothing stronger is needed, as the
choices left (to throw or not, what a codec does) are never required to be fair.
`ProtobufRecord` is fair to the steps of a parse only, `RecordDecode` to those of
a decode, `Build` to those of make: nobody has to make a call, to fail, to edit or to
run make again. `CapnpRecord`, `FlatbuffersRecord` and `RecordSizes` claim no
liveness and assume no fairness.

**Deadlock** is checked for `ProtobufRecord`, `CapnpRecord` and `Build`. Everywhere
else `CHECK_DEADLOCK FALSE` is set because the program really ends; that it ends
only where it should is what `Terminates` and `Ends` check.

| Run | Question | Bounds, and why they are enough |
|---|---|---|
| `benchmark` | Does the report answer the request (`ReportMatchesRequest`)? Are only requested tests run (`OnlyRequestedMeasured`)? Are refusals justified (`RefusalIsJustified`)? Does the program refine `BenchmarkSpec` (`Implements`)? Does it exit (`Terminates`)? | Every flag, no/zero/some/repeated `-i`, `-s` absent, with each name, each pair, an unknown name, an empty piece, repeated. A test of the chain only looks at its own name, so pairs show every interaction of two names; the theorems cover all sets. A failure may happen at each test. |
| `benchmark_legacy` | Does the invocation documented in `images/graphs.R` work? It does not. | The lines with two positional arguments, among others |
| `suite` | Does thrift never read freed memory (`LiveRead`)? Are segments read only while they exist (`LiveSegments`)? Does each builder get its own offsets (`OwnOffsets`)? Is every byte there to be decoded (`CountsChunks`)? Does every test keep `RoundTrip` (`Implements`)? Is it one step of `Benchmark` (`RunsAsOneStep`)? Is there one `Result` of each test asked for and passed, of its own size (`CollectsAsked`)? Does `main` get to its end (`Ends`)? | All tests, and any one or two. Three iterations: the first differs from the check, the second from the first by what is left over, the third from the second in nothing. Two strings: one would not show a vector of offsets too long by whole records. Every codec. Images of avro of 1 to 7 bytes in chunks of 3: less than a chunk, exact multiples, more than two |
| `avro_size` | Is the reported size that of the object? It is not. | as above, one iteration |
| `thrift_record` | What does the record hold when `read` returns (`ReturnsLatest`), rejects (`InvalidIsIncomplete`), throws (`TornOnlyAtFailure`)? Is `read` the inverse of `write` (`RoundTrips`)? Does it end (`Ends`)? | All structs of up to three fields out of both members, wrong types and an unknown field, lists of 0 to 2 elements, into three different records: repeated, missing, out-of-order fields all occur |
| `protobuf_record` | Is a packed field ever framed with a stale or unset size (`WellFramed`)? Is parsing the merge of what was serialized (`AcceptedIsMerged`), and why does it reject (`RejectedForCause`)? Does a parse end (`ParseEnds`)? | Two messages, which is what copy, merge and swap relate; integers of one byte and up to two items in a message that a call makes or writes (`MaxItems`; a parse may read a length more), so lists of different lengths have different sizes; unset memory that holds the size of two integers. One integer to add, and 0, which only a misread length adds. From elsewhere every field alone, whole or cut; pairs that begin with packed ids, an id or a foreign field, and an id before two empty packed fields or a cut one: a field depends on earlier ones through what the message holds and on whether the one before is an id. Bytes read as fields are nothing, a bad tag, a foreign field, whole, cut, or before an id |
| `capnp_record` | Has every list one owner (`OneOwner`)? Do the accessors refine `RecordLists` (`Implements`)? | Two messages, so that an orphan can be foreign; one orphan; three lists of up to one item: one to hold, one replaced, one moved. The theorems cover all numbers |
| `flatbuffers_record` | Is what is built accepted (`BuiltIsAccepted`), read back (`ReadsBack`), and does no check look outside (`InBounds`)? | Up to two records (`MaxRecords`), so that a vtable is shared or not, two objects besides, vectors of up to two strings, empty ones among the strings and their vectors, and one of integers, one damage to buffers of up to 12 cells: whole records of each shape; cells wrap at 128 (`Wrap`), beyond twice the longest buffer, so no buffer is refused for its length. The theorems cover every buffer |
| `record_decode` | Does a decode that returns hold what was sent (`ReturnsSent`), and what does one hold that fails (`OneMemberAtATime`)? Does it end (`Ends`)? | Lists of 0 to 2 elements, sent and held before: shorter, as long, longer. All layouts |
| `record_sizes` | Are the sizes `README.md` publishes those of the record (`SizesAsPublished`)? | The record itself, in ten formats |
| `build` | Is what was built current (`CurrentSchema`), and of one version where the headers ask for it (`VersionsAgree`)? Does a build end (`BuildEnds`)? | A library others need, one that needs it, one for each way of asking for a version, each in two versions; one edit per schema, one failure: a second finds the tree as the first did. The theorems cover all |

`TypeOK` is checked in the runs that have one. The largest are
`flatbuffers_record` (835 thousand states), `protobuf_record` (657 thousand) and
`build` (645 thousand).

### Findings

* `avro_size`. The avro test takes `out->byteCount()` without flushing the
  encoder, so it reports whole chunks: `README.md` line 76 has 16384 = 4 x 4096
  where the column is "object's size" (line 68), "measured in bytes" (line 98).
* `benchmark_legacy`. `images/graphs.R` (lines 7 and 21) documents `./benchmark 1 $t`; the
  program needs `-i` and `-s` and fails on such a line.

## 4. The theorems

Assumed are only the named assumptions on constants, which the runs evaluate: command lines have the
shape cxxopts gives them; iterations are natural numbers; the structs on the
wire are finite sequences of fields; `Blank` is an element and `Torn` is none;
there is a message; the size of an integer is a natural number; fields from elsewhere, and bytes read as fields, carry what their kind says, and the lengths of packed ones are integers; orphans are not slots; cells are integers; bounds are natural numbers.

**`BenchmarkProofs`**, for every set of command lines. The properties are not
inductive: that the printed rows answer the request depends on the results, on
the position in the chain and on `args` being the request. `IInv` adds these: once
`next # 0` the arguments are those of the command line and all names are valid;
results exist only from there on; rows are printed only with `next = 12`, and
then they are the results. The heart is `ReportGrows`: appending the next test of
the chain to a report of the tests before it gives a report, by the order of
`Tests`. From `Inductive` follow `TypeCorrect`, `MeasuresRequested`,
`AnswersRequest`, `RefusesJustly` and, step by step, the refinement
`KeepsPromise` of `BenchmarkSpec`.

**`ThriftRecordProofs`**, for structs and lists of any length. `IInv` says what each member
holds between two fields (the last list for it before `pos`, or its old value,
`AsRead`), exempts the target of the list being read, and says of that one that
it has the announced length and that its first `done` elements are the wire's.
`AsReadStep` moves this over one field. `ReturnsTheLatest`, `RejectsIncomplete`,
`TearsOneMember` and `ReadInvertsWrite` follow.

**`SuiteProofs`**, for any number of iterations and strings, any chunk, any codec
and any request. There is one invariant per test (`ThriftInv`, `ArchiveInv`,
`CapnpInv`, `FlatbuffersInv`, `AvroInv`), which says at each statement where the image of
the iteration at hand is, alone: in which buffer, in which string or stream, in
the memory of which builder; and which iteration the image decoded last is of. None of the
properties is inductive without that: that a read finds live memory
depends on what was assigned before it, that offsets are the builder's own on the vector having been
emptied. For avro it adds that what the stream counts is a multiple of the
chunk, so that what is counted is the image rounded up (`RoundsUp`). `IInv` says
that the invariant of the test called holds, whose locals `Call` has made anew
(`CallKeeps`): what other tests have left behind does not enter. From it follow
`TypeCorrect`, `ReadsLiveMemory`, `ReadsLiveSegments`, `UsesOwnOffsets` and
`CountsWholeChunks`; and `KeepsPromise`, for which each test has a lemma that its
statements are steps of `RoundTrip` or leave its state alone (`ThriftPromises`, ...).
The refinement of `Benchmark`, `RefinesBenchmark`, needs in addition what is
collected (`Collected`): a test that has returned has left its own name and
size in `result`. That is proved from its promise and not from its statements: of all
steps of `RoundTrip`, only `Return` ends in "returned" (`TestReports`). On `Collected` rests
`CollectsWhatIsAsked` too: `Push` appends a name that no `Result` has yet, because no two tests of
the chain have one name (`OrderDiffers`, `PushCollects`).
`AlwaysAdvances` is below.

**`CapnpRecordProofs`**, for any number of messages, orphans and lists.
`IInv` is `TypeOK /\ OneOwner`, which is inductive as it stands; that no list is
reached twice is also what makes the refinement `KeepsPromise` of `RecordLists`
true: zeroing or writing one list changes what one place holds.

**`ProtobufRecordProofs`**, for any messages, contents and sequences of calls, wires
of any length and any sizes of integers: `TypeCorrect`, `FramesItsIds`, `MergesWhatItAccepts` and
`RejectsForCause`. None of the three invariants is inductive. `IInv` adds that a message being
parsed into is not measured (`NotMeasured`: a field read changes ids that may
have been), that it holds what it kept, merged with what the fields so far stand for
(`Merging`), that the fields taken are those of the string up to a mix
(`TakenAsTheyAre`), that a length is an integer that `ids_` can hold (`LengthsAreIds`), and that no field serialized here is cut, ends a parse or
is a single id (`OwnFields`). A step of a parse merges one field more (`AdvanceKeeps`) or a
part of it (`FailKeeps`); `MoreIdsKeeps` is for the step that replaces fields, and `WhatCameIsHeld` says that what came before stays. What a wire stands for is a `FlattenSeq` over its fields, so the lemmas
before need induction: that flattening two sequences after each other is flattening both
(`FlattenConcat`), and that sizes add up to a number (`BytesIsNat`). The induction theorems take an operator, which the
provers cannot instantiate; `Induction` says the same of a set of numbers
and follows from the existence of a least element (`WFMin`).

**`FlatbuffersRecordProofs`**, for buffers of any length and content.
`StaysInside`: at each `pc` the invariant states what the checks so far have
established (the root is inside, the table and its vtable are, the offset of
`ids` leads inside, and so on), and each check needs no more than that.
Of the builder nothing enters but that its cells are integers; what is verified need
not be what it has built. `AcceptsBuilt` and `ReadsWhatWasBuilt` are about what
it has built, and there the invariant (`Faithful`) follows every offset. While the buffer grows,
each Offset the program holds leads to cells that spell its object, each field set in the
table under construction to its vector, and each vtable that may be shared is one (`Kept`). A
cell is named by its distance from the end, as offsets are, and so keeps its name when cells are pushed
in front: once there, an object stays (`TextStays`, ..., `RecordStays`). What a call adds
is an object (`TextMade`, `TextsMade`), and `EndTable` leaves a record whose vtable, found or new,
says where its fields are (`EndCells`, `EndGood`). Finishing puts the root in
front (`FinishBuffer`), and of a buffer that is as it was built the checks
and accessors find, cell by cell, what was put there (`ReadTable`, `ReadField`, `ReadTexts`).

**`RecordDecodeProofs`**, for lists of any length. `IInv` says of each field of
the wire what `OneMemberAtATime` says, adds that layouts name each member at most
once and that its place leads to that member (`WellLaid`), and that members not
on the wire are the old ones. `ReturnsTheSent` and `DecodesOneMember` follow.

**`BuildProofs`**, for any libraries, versions and bounds. `IInv` adds that
an `OUTPUT` that is there comes from the same run as the header beside it and, unless the
schema is newer, from the schema as it is (`Generated`): an interrupted run leaves
no `OUTPUT`, so that its header is written again. `BuildsCurrentSchema` and `BuildsAgreeingVersions` follow.

**Why the loops end.** Liveness is out of the prover's reach, for it needs `ENABLED`. Its
safety half is not: that no execution takes steps forever, because every step
is forward in an order that has an end. Five modules of proofs define that order
(`Advances`, `ParseAdvances`) and prove it for all constants; they hold the definitions because on the small
instances the liveness properties of the runs say more.

* `Suite` (`AlwaysAdvances`): `next`, then `main` or a test, then `i`, then the
  place of the statement in its test (`Place`), then, for the one statement that is
  a loop itself, the bytes `avro::encode` has encoded. Of
  these a step increases the first that it changes. `TypeCorrect` bounds each: by the number of tests, of `Iterations`,
  of statements, and by the size of the image. There is a lemma per test
  (`ThriftAdvances`, ...); `AvroAdvances` needs that a chunk has a byte.
* `ThriftRecord`, `RecordDecode` (`AlwaysAdvances`): a later field, or a later stage of the field
  (`Stages`), or a later element; the invariants bound the fields by the wire and
  the elements by their list.
* `ProtobufRecord` (`ParseAlwaysAdvances`): the next field of the same string, into the same message,
  or the end; the fields ahead are replaced only where the length of packed ids is taken for an id,
  by as many or, once in a parse, by those that the bytes make; no call comes in between (`CallsAreBetween`), and a parse that
  accepts is exactly at the end of the string, which is from `Merging`.
* `Build` (`AlwaysAdvances`, `NeverWaits`): what is left to install and to generate becomes less, and
  while a library is missing one can be installed: `boost`, which depends on
  nothing, or any when it is there. With finitely many libraries, a build so takes at most
  as many steps as it has libraries and generators, and one to end.

**Only model-checked:** liveness itself (`Terminates`, `Ends`, `ParseEnds`,
`BuildEnds`), that is, that no execution stops before its end (of the build,
`NeverWaits` proves that no library waits for another forever) and the conclusion from fairness; the
sizes, which are a computation on one record; the two findings.

## 5. Not modelled

* Time and durations: no decision depends on them.
* The inside of the libraries. Where a model needs one of their promises
  (`getBufferAsString` copies, an output stream counts the chunks it hands out,
  a `SegmentArrayMessageReader` copies nothing, an arena zeroes what it gives up, how
  a format writes an integer) it is stated at the definition that uses it.
* Failures of a serialization in protobuf's loop, whose results the code
  ignores: the constant record is far below the size at which they occur.
* The capacity of `ids_`, and the bytes of packed ids: see `ProtobufRecord` above.
* Setters, `swap`, copies and printing of the thrift record: member-wise
  copies with no condition. `test_constants.*` is an empty class.
* Of protobuf's record: `mutable_ids` and `mutable_strings` (a pointer into the
  message in the caller's hands), the total size of `GetCachedSize`, which no
  code here reads, descriptors and registration, the second parser.
* Of capnproto's record: `totalSize`, `toString`, `Pipeline`; the words of `test.capnp.c++` are the schema as data.
* Alignment and padding in `FlatbuffersRecord`, the verifier's limits on depth
  and number of tables: the record has one table.
* Compiler flags, the search for tools and downloads in `CMakeLists.txt`; a failed download is a `Fail`.
* `images/graphs.R`, but for the command line it documents.

## 6. Plan

Done, in this order: the program (`Benchmark` against `BenchmarkSpec`), the thrift
record, the promise of a test and the five modules of tests, the protobuf
record, the composition of the tests in `Suite`, the capnproto and flatbuffers
records, the decoders, the sizes, the build, the theorems of section 4, the last
of them that `Suite` refines `Benchmark` and collects what is asked for, and that
the loops go on.

Left: the two hazards without a property, for the reasons given with them; the
second parser of protobuf, should the build ever enable it.
