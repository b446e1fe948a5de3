--------------------------------- MODULE Suite ---------------------------------
(***************************************************************************)
(* main's try block with the tests opened up: those requested are called   *)
(* one after the other, each with new locals and the same iterations, and  *)
(* their Results collected; the first exception drops them all.            *)
(***************************************************************************)
EXTENDS SerializationTest

CONSTANTS
  Requests,       \* the sets of names main may be asked for
  StringsCount,   \* kStringsCount
  Chunk           \* avro: the bytes of a chunk

Order == << "thrift-binary", "thrift-compact", "protobuf", "capnproto", "boost", "msgpack",
            "cereal", "avro", "flatbuffers", "yas", "yas-compact" >>
Thrifts == {"thrift-binary", "thrift-compact"}
Archives == {"protobuf", "boost", "msgpack", "cereal", "yas", "yas-compact"}

ASSUME ParametersAssumption == StringsCount \in Nat /\ Chunk \in Nat \ {0}
ASSUME JobsAssumption ==
  \A j \in Jobs : /\ {j.ids, j.strings} \subseteq {"same", "values", "count"}
                  /\ j.name \in Archives => j.readable \in BOOLEAN
                  /\ j.name = "avro" => j.bytes \in Nat \ {0}

VARIABLES
  requested, next, results,                             \* main's
  state,                                                \* "main", "testing", "printed" or "failed"
  serialized, size,                                     \* locals of several tests
  buffer1, buffer2,                                     \* of thrift
  sink,                                                 \* of ArchiveTest
  live, reader,                                         \* of capnproto
  builder, strings, vector, buf,                        \* of flatbuffers
  out, in                                               \* of avro

main == <<requested, next, results, state>>
common == <<job, pc, i, decoded, result>>
ofThrift == <<buffer1, buffer2>>
ofCapnp == <<live, reader>>
ofFlatbuffers == <<builder, strings, vector, buf>>
ofAvro == <<out, in>>
locals == <<common, serialized, size, ofThrift, sink, ofCapnp, ofFlatbuffers, ofAvro>>
vars == <<main, locals>>

Named(names) == {j \in Jobs : j.name \in names}

Thrift == INSTANCE ThriftTest
Archive == INSTANCE ArchiveTest
Capnp == INSTANCE CapnpTest
Flatbuffers == INSTANCE FlatbuffersTest
Avro == INSTANCE AvroTest

\* Before the first call, no test has any locals.
Init ==
  /\ requested \in Requests /\ next = 1 /\ results = <<>> /\ state = "main"
  /\ job = <<>> /\ pc = "returned" /\ i = 0 /\ decoded = 0 /\ result = <<>>
  /\ serialized = 0 /\ size = 0 /\ sink = <<>> /\ live = {} /\ reader = 0
  /\ buffer1 = <<>> /\ buffer2 = <<>> /\ out = <<>> /\ in = 0
  /\ builder = <<>> /\ strings = <<>> /\ vector = <<>> /\ buf = <<>>

AtTest == state = "main" /\ next <= Len(Order)
Selected == requested = {} \/ Order[next] \in requested

Skip ==
  /\ AtTest /\ ~Selected
  /\ next' = next + 1
  /\ UNCHANGED <<requested, results, state, locals>>

\* The first statement of a test.
Entry(name) ==
  CASE name \in Thrifts -> "write"
    [] name \in Archives -> "encode"
    [] name = "capnproto" -> "build"
    [] name = "flatbuffers" -> "builder"
    [] name = "avro" -> "stream"

Call ==
  /\ AtTest /\ Selected
  /\ state' = "testing"
  /\ job' \in Named({Order[next]})
  /\ pc' = Entry(Order[next]) /\ i' = 0 /\ decoded' = 0 /\ result' = <<>>
  /\ serialized' = CASE Order[next] \in Thrifts -> [gen |-> 0, images |-> <<>>]
                     [] Order[next] \in Archives -> <<>>
                     [] OTHER -> 0
  /\ size' = 0 /\ sink' = <<>> /\ live' = {} /\ reader' = 0
  /\ buffer1' = <<>> /\ buffer2' = [gen |-> 0, images |-> <<>>]
  /\ builder' = [number |-> 0, state |-> "released"] /\ strings' = <<>> /\ vector' = <<>>
  /\ buf' = [number |-> 0, strings |-> <<>>]
  /\ out' = [number |-> 0, encoded |-> 0, byteCount |-> 0] /\ in' = 0
  /\ UNCHANGED <<requested, next, results>>

\* The test called takes a step of its own.
Test ==
  /\ state = "testing"
  /\ \/ job.name \in Thrifts /\ Thrift!Next
        /\ UNCHANGED <<size, sink, ofCapnp, ofFlatbuffers, ofAvro>>
     \/ job.name \in Archives /\ Archive!Next
        /\ UNCHANGED <<size, ofThrift, ofCapnp, ofFlatbuffers, ofAvro>>
     \/ job.name = "capnproto" /\ Capnp!Next
        /\ UNCHANGED <<ofThrift, sink, ofFlatbuffers, ofAvro>>
     \/ job.name = "flatbuffers" /\ Flatbuffers!Next
        /\ UNCHANGED <<serialized, ofThrift, sink, ofCapnp, ofAvro>>
     \/ job.name = "avro" /\ Avro!Next
        /\ UNCHANGED <<serialized, ofThrift, sink, ofCapnp, ofFlatbuffers>>
  /\ UNCHANGED main

\* results.push_back.
Push ==
  /\ state = "testing" /\ pc = "returned"
  /\ results' = Append(results, result)
  /\ next' = next + 1 /\ state' = "main"
  /\ UNCHANGED <<requested, locals>>

\* The handler around all the tests.
Catch_Each ==
  /\ state = "testing" /\ pc \in {"rejected", "thrown"}
  /\ next' = next + 1 /\ state' = "main"
  /\ UNCHANGED <<requested, results, locals>>
Catch ==
  /\ state = "testing" /\ pc \in {"rejected", "thrown"}
  /\ state' = "failed"
  /\ UNCHANGED <<requested, next, results, locals>>

PrintResults ==
  /\ state = "main" /\ next > Len(Order)
  /\ state' = "printed"
  /\ UNCHANGED <<requested, next, results, locals>>

Next == Skip \/ Call \/ Test \/ Push \/ Catch \/ PrintResults

\* One thread that never waits.
Spec == Init /\ [][Next]_vars /\ WF_vars(Next)

-----------------------------------------------------------------------------
(* Properties *)

TypeOK ==
  /\ requested \in Requests /\ next \in 1 .. Len(Order) + 1
  /\ state \in {"main", "testing", "printed", "failed"}
  /\ state = "testing" =>
       CASE job.name \in Thrifts -> Thrift!TypeOK
         [] job.name \in Archives -> Archive!TypeOK
         [] job.name = "capnproto" -> Capnp!TypeOK
         [] job.name = "flatbuffers" -> Flatbuffers!TypeOK
         [] job.name = "avro" -> Avro!TypeOK

(* thrift reads only memory that serialized still owns. *)
LiveRead == state = "testing" /\ job.name \in Thrifts => Thrift!LiveRead

(* Segments are read only while the builder that owns them exists. *)
LiveSegments == state = "testing" /\ job.name = "capnproto" => Capnp!LiveSegments

(* No builder of flatbuffers is given offsets of another one. *)
OwnOffsets == state = "testing" /\ job.name = "flatbuffers" => Flatbuffers!OwnOffsets

(* The stream of avro counts whole chunks, and holds every byte to be decoded. *)
CountsChunks == state = "testing" /\ job.name = "avro" => Avro!CountsChunks

\* How far the test called has come, what its check is able to see, and the
\* size of an image: in bytes for avro, which counts whole chunks.
Stage ==
  CASE job.name \in Thrifts -> Thrift!Stage
    [] job.name \in Archives -> Archive!Stage
    [] job.name = "capnproto" -> Capnp!Stage
    [] job.name = "flatbuffers" -> Flatbuffers!Stage
    [] job.name = "avro" -> Avro!Stage
Trusted ==
  {j \in Jobs : CASE j.name \in Thrifts -> j \in Thrift!Trusted
                  [] j.name \in Archives -> j \in Archive!Trusted
                  [] j.name = "capnproto" -> j \in Capnp!Trusted
                  [] j.name = "flatbuffers" -> j \in Flatbuffers!Trusted
                  [] j.name = "avro" -> j \in Avro!Trusted}
Size(j) == IF j.name = "avro" THEN Avro!WholeChunks(j) ELSE 1

R == INSTANCE RoundTrip WITH stage <- Stage

(***************************************************************************)
(* Each test keeps the promise of RoundTrip from call to return, whichever *)
(* were called before: every iteration decodes what it has encoded itself, *)
(* although buffers, strings and offsets are reused, and the size reported *)
(* is that of one image.                                                   *)
(***************************************************************************)
Implements ==
  [][IF state = "main" /\ state' = "testing" THEN R!Init'
     ELSE state = "testing" => R!Next \/ UNCHANGED R!vars]_vars

\* An execution of Benchmark from its args on, of which a test is one step.
Bench == INSTANCE Benchmark WITH
  CommandLines <- {}, cmd <- <<>>,
  args <- [iterations |-> Iterations, serializers |-> requested, csv |-> FALSE],
  pc <- CASE state = "failed" -> "exited" [] state = "printed" -> "print" [] OTHER -> "run",
  results <- [k \in DOMAIN results |-> results[k][1]],
  out <- [header |-> FALSE, rows |-> <<>>, text |-> "none"],
  status <- IF state = "failed" THEN "failure" ELSE "running"

(***************************************************************************)
(* All the statements of a test come down to one step of Benchmark: the    *)
(* name that main has come to is reported by the test called for it, or    *)
(* the first exception ends the chain, and nothing is appended besides.    *)
(***************************************************************************)
RunsAsOneStep == [][Bench!Next]_(Bench!vars)

(***************************************************************************)
(* At any time, and so when they are printed or dropped, the results are   *)
(* those of the tests asked for that main has passed, one of each, in the  *)
(* order of the calls, and each with the size of an image of its own test. *)
(***************************************************************************)
Passed == {k \in 1 .. next - 1 : requested = {} \/ Order[k] \in requested}
CollectsAsked ==
  /\ {results[k][1] : k \in DOMAIN results} = {Order[m] : m \in Passed}
  /\ \A k, l \in DOMAIN results : \A m, n \in DOMAIN Order :
       k < l /\ results[k][1] = Order[m] /\ results[l][1] = Order[n] => m < n
  /\ \A k \in DOMAIN results : \E j \in Named({results[k][1]}) : results[k][2] = Size(j)

(* main gets to its end, through all the loops. *)
Ends == <>(state \in {"printed", "failed"})
=============================================================================
