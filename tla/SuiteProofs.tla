------------------------------ MODULE SuiteProofs ------------------------------
(***************************************************************************)
(* Whatever tests main calls, in whatever state the test before has left   *)
(* the memory: each is well typed, reads only what it may read and keeps   *)
(* the promise of RoundTrip, for every number of iterations and strings,   *)
(* every chunk and every codec.                                            *)
(***************************************************************************)
EXTENDS Suite, SequenceTheorems, TLAPS

USE IterationsAssumption, ParametersAssumption, JobsAssumption
USE DEF Ended, Thrift!Ended, Archive!Ended, Capnp!Ended, Flatbuffers!Ended, Avro!Ended

-----------------------------------------------------------------------------
(* The inductive invariants: what holds at each statement of a test. *)

\* The image of the iteration at hand is decoded at one place of each test.
Decoded(before, after) ==
  /\ pc \in before => decoded = i
  /\ pc \in after => decoded = i + 1
  /\ pc = "check" => i = 0
  /\ pc # "returned" => result = <<>>

\* thrift: which buffer holds the image of the iteration at hand, alone.
Written == [protocol |-> Thrift!Writer(Thrift!Proto(job.name)), number |-> i + 1]
ThriftInv ==
  /\ Thrift!TypeOK
  /\ Decoded({"write", "assign", "observe", "read"}, {"check", "head"})
  /\ pc = "write" => buffer1 = <<>>
  /\ pc = "assign" => buffer1 = <<Written>>
  /\ pc \in {"observe", "read", "check"} => serialized.images = <<Written>>
  /\ pc = "read" => buffer2 = serialized
  /\ pc = "head" => Len(serialized.images) = 1

\* The others that archive: what is decoded from is the image at hand, alone,
\* and the string holds one image, which may be that of the check.
ArchiveInv ==
  /\ Archive!TypeOK
  /\ Decoded({"encode", "store", "decode"}, {"check", "head"})
  /\ pc = "encode" /\ job.name = "msgpack" => sink = <<>>
  /\ pc = "store" => sink = <<i + 1>> /\ (i = 0 \/ Archive!ThroughString)
  /\ pc = "decode" => Archive!Source = <<i + 1>>
  /\ pc \in {"decode", "check", "head"} \/ (i > 0 /\ ~Archive!ThroughString) => Len(serialized) = 1

\* capnproto: the builder of the check lives until the end, that of an
\* iteration until the iteration ends.
CapnpInv ==
  /\ Capnp!TypeOK
  /\ Decoded({"build", "segments", "open", "read"}, {"check", "size", "end", "head"})
  /\ pc = "build" => live = IF i = 0 THEN {} ELSE {1}
  /\ pc \in {"segments", "open", "read", "check", "end"} => live = {1, i + 1}
  /\ pc \in {"size", "head"} => live = {1}
  /\ pc \in Ended => live = {}
  /\ pc \in {"open", "read"} => serialized = i + 1
  /\ pc \in {"read", "check"} => reader = i + 1
  /\ pc = "size" => i = 0
  /\ pc \in {"check", "size"} => serialized = 1
  /\ pc = "end" => i > 0
  /\ i > 0 \/ pc = "head" => size = 1

\* flatbuffers: the vector of offsets is emptied with each new builder.
Made == [k \in 1 .. StringsCount |-> i + 1]
FlatbuffersInv ==
  /\ Flatbuffers!TypeOK
  /\ Decoded({"builder", "strings", "vectors", "finish", "copy", "read"},
             {"check", "size", "release", "head"})
  /\ pc = "builder" /\ i = 0 => strings = <<>>
  /\ pc \in {"strings", "vectors", "finish", "copy", "read", "check", "size"} => builder.number = i + 1
  /\ pc = "strings" => strings = <<>>
  /\ pc = "vectors" => strings = Made
  /\ pc \in {"finish", "copy"} => vector = Made
  /\ pc \in {"copy", "read", "check", "size"} => builder.state = "finished"
  /\ pc \in {"read", "check"} => buf = [number |-> i + 1, strings |-> Made]
  /\ pc = "size" => i = 0
  /\ i > 0 \/ pc \in {"release", "head"} => size = 1

\* avro: the stream counts chunks, and all but the last of them are full.
Chunks(n) == \E k \in Nat : n = k * Chunk
AvroInv ==
  /\ Avro!TypeOK
  /\ Decoded({"stream", "encode", "count", "input", "decode"}, {"check", "head"})
  /\ Chunks(out.byteCount)
  /\ out.encoded < job.bytes => out.byteCount = out.encoded
  /\ Avro!CountsChunks
  /\ pc \in {"encode", "count", "input", "decode"} => out.number = i + 1
  /\ pc \in {"count", "input", "decode"} => out.encoded = job.bytes
  /\ pc = "decode" => in = i + 1
  /\ pc = "count" => i = 0
  /\ i > 0 \/ pc \in {"input", "decode", "check", "head"} => size = Avro!WholeChunks(job)

\* main calls the test it has come to.
TestInv ==
  /\ job.name \in Thrifts => ThriftInv
  /\ job.name \in Archives => ArchiveInv
  /\ job.name = "capnproto" => CapnpInv
  /\ job.name = "flatbuffers" => FlatbuffersInv
  /\ job.name = "avro" => AvroInv
IInv ==
  /\ requested \in Requests /\ next \in 1 .. Len(Order) + 1
  /\ state \in {"main", "testing", "printed", "failed"}
  /\ state = "testing" => next <= Len(Order) /\ Selected /\ job \in Named({Order[next]}) /\ TestInv

-----------------------------------------------------------------------------
(* The thrift test. *)

\* What r1.write writes is an image of the iteration at hand, for the reader of its protocol.
LEMMA WrittenIsImage ==
  ASSUME Thrift!TypeOK
  PROVE  /\ Written \in Thrift!Image /\ Written.number = i + 1
         /\ Written.protocol = Thrift!Reader(Thrift!Proto(job.name))
BY DEF Written, Thrift!TypeOK, Thrift!Image, Thrift!Writer, Thrift!Reader, Thrift!Proto

\* Every statement of the thrift test keeps its invariant.
LEMMA ThriftKeeps ==
  ASSUME job.name \in Thrifts, ThriftInv, Thrift!Next
  PROVE  ThriftInv' /\ job' = job
<1> USE DEF ThriftInv, Decoded
<1>0. Written \in Thrift!Image /\ i \in Nat /\ i <= Iterations
  BY WrittenIsImage DEF Thrift!TypeOK
<1>1. CASE Thrift!Write
  <2>1. buffer1' = <<Written>> /\ pc' = "assign"
    BY <1>1 DEF Thrift!Write, Written
  <2>2. Thrift!TypeOK'
    BY <1>0, <1>1, <2>1 DEF Thrift!Write, Thrift!TypeOK
  <2> QED
    BY <1>1, <2>1, <2>2 DEF Thrift!Write, Written
<1>2. CASE Thrift!Assign
  <2>1. serialized' \in Thrift!Memory
    BY <1>2 DEF Thrift!Assign, Thrift!TypeOK, Thrift!Memory
  <2>2. Thrift!TypeOK'
    BY <1>2, <2>1 DEF Thrift!Assign, Thrift!TypeOK
  <2> QED
    BY <1>2, <2>2 DEF Thrift!Assign, Written
<1>3. CASE Thrift!Observe
  BY <1>3 DEF Thrift!Observe, Thrift!TypeOK, Written
<1>4. CASE Thrift!Read
  <2>1. Thrift!Found(buffer2) = i + 1
    BY <1>0, <1>4, WrittenIsImage DEF Thrift!Read, Thrift!Found
  <2>2. buffer2' \in Thrift!Memory
    <3>1. <<>> \in Seq(Thrift!Image) /\ buffer2 \in [gen : Nat, images : Seq(Thrift!Image)]
      BY DEF Thrift!TypeOK, Thrift!Memory
    <3> QED
      BY <1>4, <3>1 DEF Thrift!Read, Thrift!Memory
  <2>3. Thrift!TypeOK' /\ decoded' = i + 1
    BY <1>0, <1>4, <2>1, <2>2 DEF Thrift!Read, Thrift!TypeOK
  <2> QED
    BY <1>0, <1>4, <2>3 DEF Thrift!Read, Written
<1>5. CASE Thrift!Pass
  BY <1>0, <1>5 DEF Thrift!Pass, Thrift!TypeOK
<1>6. CASE Thrift!Reject
  BY <1>6 DEF Thrift!Reject, Thrift!TypeOK
<1>7. CASE Thrift!Iterate
  BY <1>0, <1>7 DEF Thrift!Iterate, Thrift!TypeOK
<1>8. CASE Thrift!Return
  BY <1>8 DEF Thrift!Return, Thrift!TypeOK, Thrift!Tag
<1>9. CASE Thrift!Throw
  BY <1>9 DEF Thrift!Throw, Thrift!TypeOK
<1> QED
  BY <1>1, <1>2, <1>3, <1>4, <1>5, <1>6, <1>7, <1>8, <1>9 DEF Thrift!Next

\* Every statement of the thrift test is a step of RoundTrip or leaves its state alone.
LEMMA ThriftPromises ==
  ASSUME job.name \in Thrifts, ThriftInv, Thrift!Next
  PROVE  R!Next \/ UNCHANGED R!vars
<1> USE DEF ThriftInv, Decoded
<1>0. i \in Nat /\ i <= Iterations /\ job \in Jobs
  BY DEF Thrift!TypeOK
<1>1. Stage = IF pc \in Ended THEN pc ELSE IF i = 0 /\ pc # "head" THEN "checking" ELSE "timing"
  BY DEF Stage, Thrift!Stage, Thrift!StageBefore, Thrifts, Archives
<1>2. job' = job /\ Stage' = IF pc' \in Ended THEN pc' ELSE IF i' = 0 /\ pc' # "head" THEN "checking" ELSE "timing"
  BY ThriftKeeps DEF Stage, Thrift!Stage, Thrift!StageBefore, Thrifts, Archives
<1>3. job \in Trusted <=> job.ids = "same" /\ job.strings = "same"
  BY <1>0 DEF Trusted, Thrift!Trusted, Thrifts, Archives
<1>4. CASE Thrift!Write \/ Thrift!Assign \/ Thrift!Observe
  BY <1>1, <1>2, <1>4 DEF Thrift!Write, Thrift!Assign, Thrift!Observe, R!vars
<1>5. CASE Thrift!Read
  <2>1. decoded' = decoded + 1
    BY <1>0, <1>5, WrittenIsImage DEF Thrift!Read, Thrift!Found
  <2>2. CASE i = 0
    BY <1>1, <1>2, <1>5, <2>1, <2>2 DEF Thrift!Read, R!Next, R!Decode
  <2>3. CASE i # 0
    BY <1>0, <1>1, <1>2, <1>5, <2>1, <2>3 DEF Thrift!Read, R!Next, R!Round
  <2> QED
    BY <2>2, <2>3
<1>6. CASE Thrift!Pass
  BY <1>1, <1>2, <1>3, <1>6 DEF Thrift!Pass, Thrift!Equal, R!Next, R!Accept
<1>7. CASE Thrift!Reject
  BY <1>1, <1>2, <1>3, <1>7 DEF Thrift!Reject, Thrift!Equal, R!Next, R!Reject
<1>8. CASE Thrift!Iterate
  BY <1>0, <1>1, <1>2, <1>8 DEF Thrift!Iterate, R!vars
<1>9. CASE Thrift!Return
  BY <1>0, <1>1, <1>2, <1>9 DEF Thrift!Return, R!Next, R!Return, Thrift!Tag, Thrift!Proto, Size, Thrifts
<1>10. CASE Thrift!Throw
  BY <1>1, <1>2, <1>10 DEF Thrift!Throw, R!Next, R!Throw
<1> QED
  BY <1>4, <1>5, <1>6, <1>7, <1>8, <1>9, <1>10 DEF Thrift!Next
-----------------------------------------------------------------------------
(* The tests of the archives. *)

\* A decode finds the image of the iteration at hand in the string, stream or buffer it reads.
LEMMA ArchiveReads ==
  ASSUME ArchiveInv, pc = "decode"
  PROVE  Archive!Source # <<>> /\ Archive!Source[1] = i + 1
<1>1. Archive!Source = <<i + 1>>
  BY DEF ArchiveInv
<1>2. <<i + 1>> # <<>> /\ <<i + 1>>[1] = i + 1
  OBVIOUS
<1> QED
  BY <1>1, <1>2

\* Every statement of these tests keeps their invariant.
LEMMA ArchiveKeeps ==
  ASSUME job.name \in Archives, ArchiveInv, Archive!Next
  PROVE  ArchiveInv' /\ job' = job
<1> USE DEF ArchiveInv, Decoded
<1>0. i \in Nat /\ i <= Iterations /\ job \in Jobs
  BY DEF Archive!TypeOK
<1>1. CASE Archive!Encode
  <2>1. sink' = Append(<<>>, i + 1)
    BY <1>1 DEF Archive!Encode
  <2>2. sink' = <<i + 1>>
    BY <1>0, <2>1
  <2>3. Archive!TypeOK'
    BY <1>0, <1>1, <2>2 DEF Archive!Encode, Archive!TypeOK
  <2>4. pc' = "decode" => Archive!Source' = <<i' + 1>> /\ Len(serialized') = 1
    <3> SUFFICES ASSUME pc' = "decode" PROVE Archive!Source' = <<i' + 1>> /\ Len(serialized') = 1
      OBVIOUS
    <3>1. i > 0 /\ ~Archive!ThroughString /\ i' = i /\ job' = job /\ serialized' = serialized
      BY <1>0, <1>1 DEF Archive!Encode
    <3>2. Archive!Source' = sink'
      BY <1>0, <3>1 DEF Archive!Source, Archive!ThroughString
    <3> QED
      BY <2>2, <3>1, <3>2
  <2>5. pc' = "store" => sink' = <<i' + 1>> /\ (i' = 0 \/ Archive!ThroughString')
    BY <1>0, <1>1, <2>2 DEF Archive!Encode, Archive!ThroughString
  <2>6. i' > 0 /\ ~Archive!ThroughString' => pc' = "decode"
    BY <1>0, <1>1 DEF Archive!Encode, Archive!ThroughString
  <2> QED
    BY <1>0, <1>1, <2>3, <2>4, <2>5, <2>6 DEF Archive!Encode
<1>2. CASE Archive!Store
  <2>1. serialized' = <<i + 1>> /\ Archive!TypeOK'
    BY <1>2 DEF Archive!Store, Archive!TypeOK
  <2>2. Len(serialized') = 1 /\ Archive!Source' = <<i' + 1>>
    BY <1>2, <2>1 DEF Archive!Store, Archive!ThroughString, Archive!Source
  <2> QED
    BY <1>2, <2>1, <2>2 DEF Archive!Store
<1>3. CASE Archive!Decode
  <2>1. decoded' = i + 1
    BY <1>0, <1>3, ArchiveReads DEF Archive!Decode
  <2>2. Archive!TypeOK'
    BY <1>0, <1>3, <2>1 DEF Archive!Decode, Archive!TypeOK
  <2> QED
    BY <1>0, <1>3, <2>1, <2>2 DEF Archive!Decode, Archive!ThroughString
<1>4. CASE Archive!Pass
  BY <1>4 DEF Archive!Pass, Archive!TypeOK, Archive!ThroughString
<1>5. CASE Archive!Reject
  BY <1>5 DEF Archive!Reject, Archive!TypeOK, Archive!ThroughString
<1>6. CASE Archive!Iterate
  <2>1. Archive!TypeOK'
    BY <1>0, <1>6 DEF Archive!Iterate, Archive!TypeOK
  <2> QED
    BY <1>0, <1>6, <2>1 DEF Archive!Iterate, Archive!ThroughString
<1>7. CASE Archive!Return
  <2>1. Archive!TypeOK'
    BY <1>7 DEF Archive!Return, Archive!TypeOK, Archive!Names, Archives
  <2> QED
    BY <1>7, <2>1 DEF Archive!Return, Archive!ThroughString
<1>8. CASE Archive!Throw
  BY <1>8 DEF Archive!Throw, Archive!TypeOK, Archive!ThroughString
<1> QED
  BY <1>1, <1>2, <1>3, <1>4, <1>5, <1>6, <1>7, <1>8 DEF Archive!Next

\* Every statement of these tests is a step of RoundTrip or leaves its state alone.
LEMMA ArchivePromises ==
  ASSUME job.name \in Archives, ArchiveInv, Archive!Next
  PROVE  R!Next \/ UNCHANGED R!vars
<1> USE DEF ArchiveInv, Decoded
<1>0. i \in Nat /\ i <= Iterations /\ job \in Jobs
  BY DEF Archive!TypeOK
<1>1. Stage = IF pc \in Ended THEN pc ELSE IF i = 0 /\ pc # "head" THEN "checking" ELSE "timing"
  BY DEF Stage, Archive!Stage, Archive!StageBefore, Thrifts, Archives
<1>2. job' = job /\ Stage' = IF pc' \in Ended THEN pc' ELSE IF i' = 0 /\ pc' # "head" THEN "checking" ELSE "timing"
  BY ArchiveKeeps DEF Stage, Archive!Stage, Archive!StageBefore, Thrifts, Archives
<1>3. job \in Trusted <=> IF job.name = "protobuf" THEN job.readable
                                                   ELSE job.ids = "same" /\ job.strings = "same"
  BY <1>0 DEF Trusted, Archive!Trusted, Thrifts, Archives
<1>4. CASE Archive!Encode \/ Archive!Store
  BY <1>1, <1>2, <1>4 DEF Archive!Encode, Archive!Store, R!vars
<1>5. CASE Archive!Decode
  <2>1. decoded' = decoded + 1
    BY <1>0, <1>5, ArchiveReads DEF Archive!Decode
  <2>2. CASE i = 0
    BY <1>1, <1>2, <1>5, <2>1, <2>2 DEF Archive!Decode, R!Next, R!Decode
  <2>3. CASE i # 0
    BY <1>0, <1>1, <1>2, <1>5, <2>1, <2>3 DEF Archive!Decode, R!Next, R!Round
  <2> QED
    BY <2>2, <2>3
<1>6. CASE Archive!Pass
  BY <1>1, <1>2, <1>3, <1>6 DEF Archive!Pass, Archive!Ok, R!Next, R!Accept
<1>7. CASE Archive!Reject
  BY <1>1, <1>2, <1>3, <1>7 DEF Archive!Reject, Archive!Ok, R!Next, R!Reject
<1>8. CASE Archive!Iterate
  BY <1>0, <1>1, <1>2, <1>8 DEF Archive!Iterate, R!vars
<1>9. CASE Archive!Return
  BY <1>0, <1>1, <1>2, <1>9 DEF Archive!Return, R!Next, R!Return, Size, Archives
<1>10. CASE Archive!Throw
  BY <1>1, <1>2, <1>10 DEF Archive!Throw, R!Next, R!Throw
<1> QED
  BY <1>4, <1>5, <1>6, <1>7, <1>8, <1>9, <1>10 DEF Archive!Next

-----------------------------------------------------------------------------
(* The capnproto test. *)

\* Every statement of the capnproto test keeps its invariant.
LEMMA CapnpKeeps ==
  ASSUME job.name = "capnproto", CapnpInv, Capnp!Next
  PROVE  CapnpInv' /\ job' = job
<1> USE DEF CapnpInv, Decoded
<1>0. i \in Nat /\ i <= Iterations /\ i + 1 \in 1 .. Iterations + 1 /\ job \in Jobs
  BY DEF Capnp!TypeOK
<1>1. CASE Capnp!Build
  <2>1. live' = {1, i + 1}
    BY <1>1 DEF Capnp!Build
  <2> QED
    BY <1>0, <1>1, <2>1 DEF Capnp!Build, Capnp!TypeOK
<1>2. CASE Capnp!Segments \/ Capnp!Open
  BY <1>0, <1>2 DEF Capnp!Segments, Capnp!Open, Capnp!TypeOK
<1>3. CASE Capnp!Read
  <2>1. decoded' = i + 1
    BY <1>3 DEF Capnp!Read, Capnp!ImageOf
  <2> QED
    BY <1>0, <1>3, <2>1 DEF Capnp!Read, Capnp!TypeOK
<1>4. CASE Capnp!Pass \/ Capnp!Reject \/ Capnp!Measure
  BY <1>0, <1>4 DEF Capnp!Pass, Capnp!Reject, Capnp!Measure, Capnp!TypeOK
<1>5. CASE Capnp!Iterate
  BY <1>0, <1>5 DEF Capnp!Iterate, Capnp!TypeOK
<1>6. CASE Capnp!EndIteration
  <2>1. live' = {1}
    BY <1>0, <1>6 DEF Capnp!EndIteration
  <2> QED
    BY <1>0, <1>6, <2>1 DEF Capnp!EndIteration, Capnp!TypeOK
<1>7. CASE Capnp!Return \/ Capnp!Throw
  BY <1>0, <1>7 DEF Capnp!Return, Capnp!Throw, Capnp!TypeOK
<1> QED
  BY <1>1, <1>2, <1>3, <1>4, <1>5, <1>6, <1>7 DEF Capnp!Next

\* Every statement of the capnproto test is a step of RoundTrip or leaves its state alone.
LEMMA CapnpPromises ==
  ASSUME job.name = "capnproto", CapnpInv, Capnp!Next
  PROVE  R!Next \/ UNCHANGED R!vars
<1> USE DEF CapnpInv, Decoded
<1>0. i \in Nat /\ i <= Iterations /\ job \in Jobs
  BY DEF Capnp!TypeOK
<1>1. Stage = IF pc \in Ended THEN pc
              ELSE IF i = 0 /\ pc \notin {"size", "head"} THEN "checking" ELSE "timing"
  BY DEF Stage, Capnp!Stage, Capnp!StageBefore, Thrifts, Archives
<1>2. job' = job /\ Stage' = IF pc' \in Ended THEN pc'
                             ELSE IF i' = 0 /\ pc' \notin {"size", "head"} THEN "checking" ELSE "timing"
  BY CapnpKeeps DEF Stage, Capnp!Stage, Capnp!StageBefore, Thrifts, Archives
<1>3. job \in Trusted <=> job.ids # "count"
  BY <1>0 DEF Trusted, Capnp!Trusted, Thrifts, Archives
<1>4. CASE Capnp!Build \/ Capnp!Segments \/ Capnp!Open \/ Capnp!Measure \/ Capnp!Iterate \/ Capnp!EndIteration
  BY <1>0, <1>1, <1>2, <1>4
     DEF Capnp!Build, Capnp!Segments, Capnp!Open, Capnp!Measure, Capnp!Iterate, Capnp!EndIteration, R!vars
<1>5. CASE Capnp!Read
  <2>1. decoded' = decoded + 1
    BY <1>5 DEF Capnp!Read, Capnp!ImageOf
  <2>2. CASE i = 0
    BY <1>1, <1>2, <1>5, <2>1, <2>2 DEF Capnp!Read, R!Next, R!Decode
  <2>3. CASE i # 0
    BY <1>0, <1>1, <1>2, <1>5, <2>1, <2>3 DEF Capnp!Read, R!Next, R!Round
  <2> QED
    BY <2>2, <2>3
<1>6. CASE Capnp!Pass
  BY <1>1, <1>2, <1>3, <1>6 DEF Capnp!Pass, Capnp!Ok, R!Next, R!Accept
<1>7. CASE Capnp!Reject
  BY <1>1, <1>2, <1>3, <1>7 DEF Capnp!Reject, Capnp!Ok, R!Next, R!Reject
<1>8. CASE Capnp!Return
  BY <1>0, <1>1, <1>2, <1>8 DEF Capnp!Return, R!Next, R!Return, Size
<1>9. CASE Capnp!Throw
  BY <1>1, <1>2, <1>9 DEF Capnp!Throw, R!Next, R!Throw
<1> QED
  BY <1>4, <1>5, <1>6, <1>7, <1>8, <1>9 DEF Capnp!Next
-----------------------------------------------------------------------------
(* The flatbuffers test. *)

\* The offsets of one record: as many as it has strings, all of the builder at hand.
LEMMA MadeByOne ==
  ASSUME Flatbuffers!TypeOK
  PROVE  /\ Made \in Seq(1 .. Iterations + 1) /\ Len(Made) = StringsCount
         /\ Flatbuffers!Range(Made) \subseteq {i + 1}
         /\ <<>> \o Made = Made
<1>1. i \in Nat /\ i + 1 \in 1 .. Iterations + 1
  BY DEF Flatbuffers!TypeOK
<1>2. Made \in Seq(1 .. Iterations + 1) /\ Len(Made) = StringsCount
  BY <1>1 DEF Made
<1>3. Flatbuffers!Range(Made) \subseteq {i + 1}
  BY <1>2 DEF Made, Flatbuffers!Range
<1> QED
  BY <1>2, <1>3

\* Every statement of the flatbuffers test keeps its invariant.
LEMMA FlatbuffersKeeps ==
  ASSUME job.name = "flatbuffers", FlatbuffersInv, Flatbuffers!Next
  PROVE  FlatbuffersInv' /\ job' = job
<1> USE DEF FlatbuffersInv, Decoded
<1>0. i \in Nat /\ i <= Iterations /\ i + 1 \in 1 .. Iterations + 1 /\ job \in Jobs
  BY DEF Flatbuffers!TypeOK
<1>1. i' = i => Made' = Made
  BY DEF Made
<1>2. builder = [number |-> builder.number, state |-> builder.state] /\ builder.number \in 0 .. Iterations + 1
  BY DEF Flatbuffers!TypeOK
<1>3. CASE Flatbuffers!NewBuilder
  <2>1. strings' = <<>> /\ builder' = [number |-> i + 1, state |-> "open"]
    BY <1>3 DEF Flatbuffers!NewBuilder
  <2>2. strings' \in Seq(1 .. Iterations + 1)
        /\ builder' \in [number : 0 .. Iterations + 1, state : {"open", "vectors", "finished", "released"}]
    BY <1>0, <2>1
  <2>3. Flatbuffers!TypeOK'
    BY <1>3, <2>2 DEF Flatbuffers!NewBuilder, Flatbuffers!TypeOK
  <2> QED
    BY <1>1, <1>3, <2>1, <2>3 DEF Flatbuffers!NewBuilder
<1>4. CASE Flatbuffers!CreateStrings
  <2>1. strings' = Made
    BY <1>4, MadeByOne DEF Flatbuffers!CreateStrings, Made
  <2>2. Flatbuffers!TypeOK'
    BY <1>4, <2>1, MadeByOne DEF Flatbuffers!CreateStrings, Flatbuffers!TypeOK
  <2> QED
    BY <1>1, <1>4, <2>1, <2>2 DEF Flatbuffers!CreateStrings
<1>5. CASE Flatbuffers!CreateVectors
  <2>1. builder' = [number |-> builder.number, state |-> "vectors"]
    BY <1>2, <1>5 DEF Flatbuffers!CreateVectors
  <2>2. Flatbuffers!TypeOK'
    BY <1>2, <1>5, <2>1 DEF Flatbuffers!CreateVectors, Flatbuffers!TypeOK
  <2> QED
    BY <1>1, <1>5, <2>1, <2>2 DEF Flatbuffers!CreateVectors
<1>6. CASE Flatbuffers!Finish
  <2>1. builder' = [number |-> builder.number, state |-> "finished"]
    BY <1>2, <1>6 DEF Flatbuffers!Finish
  <2>2. Flatbuffers!TypeOK'
    BY <1>2, <1>6, <2>1 DEF Flatbuffers!Finish, Flatbuffers!TypeOK
  <2> QED
    BY <1>1, <1>6, <2>1, <2>2 DEF Flatbuffers!Finish
<1>7. CASE Flatbuffers!Copy
  <2>1. buf' = [number |-> i + 1, strings |-> Made]
    BY <1>7 DEF Flatbuffers!Copy
  <2>2. Flatbuffers!TypeOK'
    BY <1>0, <1>7, <2>1, MadeByOne DEF Flatbuffers!Copy, Flatbuffers!TypeOK
  <2> QED
    BY <1>1, <1>7, <2>1, <2>2 DEF Flatbuffers!Copy
<1>8. CASE Flatbuffers!Read
  <2>1. decoded' = i + 1
    BY <1>0, <1>8, MadeByOne DEF Flatbuffers!Read
  <2>2. Flatbuffers!TypeOK'
    BY <1>0, <1>8, <2>1 DEF Flatbuffers!Read, Flatbuffers!TypeOK
  <2> QED
    BY <1>0, <1>1, <1>8, <2>1, <2>2 DEF Flatbuffers!Read
<1>9. CASE Flatbuffers!Pass \/ Flatbuffers!Reject \/ Flatbuffers!Measure
  <2>1. Flatbuffers!TypeOK'
    BY <1>9 DEF Flatbuffers!Pass, Flatbuffers!Reject, Flatbuffers!Measure, Flatbuffers!TypeOK
  <2> QED
    BY <1>0, <1>1, <1>9, <2>1 DEF Flatbuffers!Pass, Flatbuffers!Reject, Flatbuffers!Measure
<1>10. CASE Flatbuffers!Release
  <2>1. builder' = [number |-> builder.number, state |-> "released"]
    BY <1>2, <1>10 DEF Flatbuffers!Release
  <2>2. Flatbuffers!TypeOK'
    BY <1>2, <1>10, <2>1 DEF Flatbuffers!Release, Flatbuffers!TypeOK
  <2> QED
    BY <1>1, <1>10, <2>1, <2>2 DEF Flatbuffers!Release
<1>11. CASE Flatbuffers!Iterate
  BY <1>0, <1>11 DEF Flatbuffers!Iterate, Flatbuffers!TypeOK
<1>12. CASE Flatbuffers!Return
  BY <1>0, <1>1, <1>12 DEF Flatbuffers!Return, Flatbuffers!TypeOK
<1>13. CASE Flatbuffers!Throw
  BY <1>0, <1>1, <1>13 DEF Flatbuffers!Throw, Flatbuffers!TypeOK
<1> QED
  BY <1>3, <1>4, <1>5, <1>6, <1>7, <1>8, <1>9, <1>10, <1>11, <1>12, <1>13 DEF Flatbuffers!Next

\* Every statement of the flatbuffers test is a step of RoundTrip or leaves its state alone.
LEMMA FlatbuffersPromises ==
  ASSUME job.name = "flatbuffers", FlatbuffersInv, Flatbuffers!Next
  PROVE  R!Next \/ UNCHANGED R!vars
<1> USE DEF FlatbuffersInv, Decoded
<1> DEFINE Timing == {"size", "release", "head"}
<1>0. i \in Nat /\ i <= Iterations /\ job \in Jobs
  BY DEF Flatbuffers!TypeOK
<1>1. Stage = IF pc \in Ended THEN pc ELSE IF i = 0 /\ pc \notin Timing THEN "checking" ELSE "timing"
  BY DEF Stage, Flatbuffers!Stage, Flatbuffers!StageBefore, Thrifts, Archives
<1>2. job' = job /\ Stage' = IF pc' \in Ended THEN pc'
                             ELSE IF i' = 0 /\ pc' \notin Timing THEN "checking" ELSE "timing"
  BY FlatbuffersKeeps DEF Stage, Flatbuffers!Stage, Flatbuffers!StageBefore, Thrifts, Archives
<1>3. job \in Trusted <=> job.ids # "count" /\ job.strings # "count"
  BY <1>0 DEF Trusted, Flatbuffers!Trusted, Thrifts, Archives
<1>4. CASE \/ Flatbuffers!NewBuilder \/ Flatbuffers!CreateStrings \/ Flatbuffers!CreateVectors
           \/ Flatbuffers!Finish \/ Flatbuffers!Copy
  BY <1>1, <1>2, <1>4
     DEF Flatbuffers!NewBuilder, Flatbuffers!CreateStrings, Flatbuffers!CreateVectors,
         Flatbuffers!Finish, Flatbuffers!Copy, R!vars
<1>5. CASE Flatbuffers!Measure \/ Flatbuffers!Release \/ Flatbuffers!Iterate
  BY <1>0, <1>1, <1>2, <1>5 DEF Flatbuffers!Measure, Flatbuffers!Release, Flatbuffers!Iterate, R!vars
<1>6. CASE Flatbuffers!Read
  <2>1. decoded' = decoded + 1
    BY <1>0, <1>6, MadeByOne DEF Flatbuffers!Read
  <2>2. CASE i = 0
    BY <1>1, <1>2, <1>6, <2>1, <2>2 DEF Flatbuffers!Read, R!Next, R!Decode
  <2>3. CASE i # 0
    BY <1>0, <1>1, <1>2, <1>6, <2>1, <2>3 DEF Flatbuffers!Read, R!Next, R!Round
  <2> QED
    BY <2>2, <2>3
<1>7. CASE Flatbuffers!Pass
  BY <1>1, <1>2, <1>3, <1>7 DEF Flatbuffers!Pass, Flatbuffers!Ok, R!Next, R!Accept
<1>8. CASE Flatbuffers!Reject
  BY <1>1, <1>2, <1>3, <1>8, MadeByOne DEF Flatbuffers!Reject, Flatbuffers!Ok, R!Next, R!Reject
<1>9. CASE Flatbuffers!Return
  BY <1>0, <1>1, <1>2, <1>9 DEF Flatbuffers!Return, R!Next, R!Return, Size
<1>10. CASE Flatbuffers!Throw
  BY <1>1, <1>2, <1>10 DEF Flatbuffers!Throw, R!Next, R!Throw
<1> QED
  BY <1>4, <1>5, <1>6, <1>7, <1>8, <1>9, <1>10 DEF Flatbuffers!Next

-----------------------------------------------------------------------------
(* The avro test. *)

\* So many whole chunks with room for n bytes and not a chunk more are what
\* WholeChunks rounds n up to.
LEMMA RoundsUp ==
  ASSUME NEW n \in Nat, NEW k \in Nat, n <= k * Chunk, k * Chunk < n + Chunk
  PROVE  (n + Chunk - 1) \div Chunk = k
<1>1. Chunk \in Nat /\ Chunk > 0 /\ n + Chunk - 1 \in Nat
  OBVIOUS
<1>2. k * Chunk <= n + Chunk - 1 /\ n + Chunk - 1 < (k + 1) * Chunk
  BY <1>1
<1> QED
  BY <1>1, <1>2

\* Every statement of the avro test keeps its invariant.
LEMMA AvroKeeps ==
  ASSUME job.name = "avro", AvroInv, Avro!Next
  PROVE  AvroInv' /\ job' = job
<1> USE DEF AvroInv, Decoded
<1>0. i \in Nat /\ i <= Iterations /\ i + 1 \in 1 .. Iterations + 1 /\ job \in Jobs /\ job.bytes \in Nat \ {0}
  BY DEF Avro!TypeOK
<1>1. job' = job => Avro!WholeChunks(job)' = Avro!WholeChunks(job)
  BY DEF Avro!WholeChunks
<1>2. out = [number |-> out.number, encoded |-> out.encoded, byteCount |-> out.byteCount]
      /\ out.number \in 0 .. Iterations + 1 /\ out.encoded \in 0 .. job.bytes /\ out.byteCount \in Nat
  BY DEF Avro!TypeOK
<1>3. CASE Avro!NewStream
  <2>1. Avro!TypeOK'
    BY <1>0, <1>3 DEF Avro!NewStream, Avro!TypeOK
  <2>2. Chunks(0)
    BY DEF Chunks
  <2> QED
    BY <1>0, <1>1, <1>3, <2>1, <2>2 DEF Avro!NewStream, Avro!CountsChunks
<1>4. CASE Avro!Encode
  <2> DEFINE more == Avro!Least(out.encoded + Chunk, job.bytes)
  <2>1. out' = [number |-> out.number, encoded |-> more, byteCount |-> out.byteCount + Chunk]
    BY <1>2, <1>4 DEF Avro!Encode
  <2>2. more \in 0 .. job.bytes
    BY <1>0, <1>2 DEF Avro!Least
  <2>3. Avro!TypeOK'
    BY <1>2, <1>4, <2>1, <2>2 DEF Avro!Encode, Avro!TypeOK
  <2>4. Chunks(out'.byteCount)
    <3>1. PICK k \in Nat : out.byteCount = k * Chunk
      BY DEF Chunks
    <3>2. out'.byteCount = (k + 1) * Chunk
      BY <2>1, <3>1
    <3> QED
      BY <3>2 DEF Chunks
  <2>5. /\ out'.encoded < job.bytes => out'.byteCount = out'.encoded
        /\ out'.encoded <= out'.byteCount /\ out'.byteCount < out'.encoded + Chunk
    BY <1>0, <1>2, <1>4, <2>1 DEF Avro!Encode, Avro!Least
  <2> QED
    BY <1>1, <1>4, <2>1, <2>3, <2>4, <2>5 DEF Avro!Encode, Avro!CountsChunks
<1>5. CASE Avro!Encoded
  BY <1>0, <1>1, <1>5 DEF Avro!Encoded, Avro!TypeOK, Avro!CountsChunks
<1>6. CASE Avro!Count
  <2>1. PICK k \in Nat : out.byteCount = k * Chunk
    BY DEF Chunks
  <2>2. out.byteCount = Avro!WholeChunks(job)
    BY <1>0, <1>2, <1>6, <2>1, RoundsUp DEF Avro!Count, Avro!WholeChunks, Avro!CountsChunks
  <2> QED
    BY <1>0, <1>1, <1>2, <1>6, <2>2 DEF Avro!Count, Avro!TypeOK, Avro!CountsChunks
<1>7. CASE Avro!NewInput \/ Avro!Decode
  BY <1>0, <1>1, <1>2, <1>7 DEF Avro!NewInput, Avro!Decode, Avro!TypeOK, Avro!CountsChunks
<1>8. CASE Avro!Pass \/ Avro!Reject
  BY <1>0, <1>1, <1>8 DEF Avro!Pass, Avro!Reject, Avro!TypeOK, Avro!CountsChunks
<1>9. CASE Avro!Return
  BY <1>0, <1>1, <1>9 DEF Avro!Return, Avro!TypeOK, Avro!CountsChunks
<1>10. CASE Avro!Throw
  BY <1>0, <1>1, <1>10 DEF Avro!Throw, Avro!TypeOK, Avro!CountsChunks
<1>11. CASE Avro!Iterate
  BY <1>0, <1>1, <1>11 DEF Avro!Iterate, Avro!TypeOK, Avro!CountsChunks
<1> QED
  BY <1>3, <1>4, <1>5, <1>6, <1>7, <1>8, <1>9, <1>10, <1>11 DEF Avro!Next

\* Every statement of the avro test is a step of RoundTrip or leaves its state alone.
LEMMA AvroPromises ==
  ASSUME job.name = "avro", AvroInv, Avro!Next
  PROVE  R!Next \/ UNCHANGED R!vars
<1> USE DEF AvroInv, Decoded
<1>0. i \in Nat /\ i <= Iterations /\ job \in Jobs
  BY DEF Avro!TypeOK
<1>1. Stage = IF pc \in Ended THEN pc ELSE IF i = 0 /\ pc # "head" THEN "checking" ELSE "timing"
  BY DEF Stage, Avro!Stage, Avro!StageBefore, Thrifts, Archives
<1>2. job' = job /\ Stage' = IF pc' \in Ended THEN pc' ELSE IF i' = 0 /\ pc' # "head" THEN "checking" ELSE "timing"
  BY AvroKeeps DEF Stage, Avro!Stage, Avro!StageBefore, Thrifts, Archives
<1>3. job \in Trusted <=> job.ids = "same" /\ job.strings = "same"
  BY <1>0 DEF Trusted, Avro!Trusted, Thrifts, Archives
<1>4. CASE Avro!NewStream \/ Avro!Encode \/ Avro!Encoded \/ Avro!Count \/ Avro!NewInput \/ Avro!Iterate
  BY <1>0, <1>1, <1>2, <1>4
     DEF Avro!NewStream, Avro!Encode, Avro!Encoded, Avro!Count, Avro!NewInput, Avro!Iterate, R!vars
<1>5. CASE Avro!Decode
  <2>1. decoded' = decoded + 1
    BY <1>5 DEF Avro!Decode
  <2>2. CASE i = 0
    BY <1>1, <1>2, <1>5, <2>1, <2>2 DEF Avro!Decode, R!Next, R!Decode
  <2>3. CASE i # 0
    BY <1>0, <1>1, <1>2, <1>5, <2>1, <2>3 DEF Avro!Decode, R!Next, R!Round
  <2> QED
    BY <2>2, <2>3
<1>6. CASE Avro!Pass
  BY <1>1, <1>2, <1>3, <1>6 DEF Avro!Pass, Avro!Ok, R!Next, R!Accept
<1>7. CASE Avro!Reject
  BY <1>1, <1>2, <1>3, <1>7 DEF Avro!Reject, Avro!Ok, R!Next, R!Reject
<1>8. CASE Avro!Return
  BY <1>0, <1>1, <1>2, <1>8 DEF Avro!Return, R!Next, R!Return, Size
<1>9. CASE Avro!Throw
  BY <1>1, <1>2, <1>9 DEF Avro!Throw, R!Next, R!Throw
<1> QED
  BY <1>4, <1>5, <1>6, <1>7, <1>8, <1>9 DEF Avro!Next
-----------------------------------------------------------------------------
(* All the tests, as main calls them. *)

\* There is a model of every test main calls.
LEMMA EveryName ==
  /\ Len(Order) = 11
  /\ \A k \in 1 .. Len(Order) :
       Order[k] \in Thrifts \cup Archives \cup {"capnproto", "flatbuffers", "avro"}
BY DEF Order, Thrifts, Archives

\* A test starts with new locals, whatever the last one has left.
LEMMA CallKeeps ==
  ASSUME IInv, Call
  PROVE  IInv' /\ R!Init'
<1> DEFINE name == Order[next]
<1>1. /\ job' \in Jobs /\ job'.name = name
      /\ next' = next /\ requested' = requested /\ state' = "testing" /\ next \in 1 .. Len(Order)
      /\ i' = 0 /\ decoded' = 0 /\ result' = <<>> /\ pc' = Entry(name)
      /\ size' = 0 /\ sink' = <<>> /\ live' = {} /\ reader' = 0
      /\ buffer1' = <<>> /\ buffer2' = [gen |-> 0, images |-> <<>>]
      /\ builder' = [number |-> 0, state |-> "released"] /\ strings' = <<>> /\ vector' = <<>>
      /\ buf' = [number |-> 0, strings |-> <<>>]
      /\ out' = [number |-> 0, encoded |-> 0, byteCount |-> 0] /\ in' = 0
      /\ Selected'
  BY DEF Call, AtTest, Selected, Named, IInv
<1>2. serialized' = CASE name \in Thrifts -> [gen |-> 0, images |-> <<>>]
                      [] name \in Archives -> <<>>
                      [] OTHER -> 0
  BY DEF Call
<1>3. 0 \in 0 .. Iterations /\ 0 \in 0 .. Iterations + 1 /\ 0 \in Nat
  OBVIOUS
<1> HIDE DEF name
<1>4. CASE name \in Thrifts
  <2>1. pc' = "write" /\ serialized' = [gen |-> 0, images |-> <<>>] /\ [gen |-> 0, images |-> <<>>] \in Thrift!Memory
    BY <1>1, <1>2, <1>4 DEF Entry, Thrifts, Archives, Thrift!Memory
  <2>2. ThriftInv'
    BY <1>1, <1>3, <2>1 DEF ThriftInv, Decoded, Thrift!TypeOK
  <2>3. TestInv'
    BY <1>1, <1>4, <2>2 DEF TestInv, Thrifts, Archives
  <2>4. Stage' = "checking"
    BY <1>1, <1>4, <2>1 DEF Stage, Thrift!Stage, Thrift!StageBefore, Thrifts, Archives
  <2> QED
    BY <1>1, <2>3, <2>4 DEF IInv, Named, R!Init, name
<1>5. CASE name \in Archives
  <2>1. pc' = "encode" /\ serialized' = <<>>
    BY <1>1, <1>2, <1>5 DEF Entry, Thrifts, Archives
  <2>2. ArchiveInv'
    BY <1>1, <1>3, <2>1 DEF ArchiveInv, Decoded, Archive!TypeOK, Archive!ThroughString
  <2>3. TestInv'
    BY <1>1, <1>5, <2>2 DEF TestInv, Thrifts, Archives
  <2>4. Stage' = "checking"
    BY <1>1, <1>5, <2>1 DEF Stage, Archive!Stage, Archive!StageBefore, Thrifts, Archives
  <2> QED
    BY <1>1, <2>3, <2>4 DEF IInv, Named, R!Init, name
<1>6. CASE name = "capnproto"
  <2>1. pc' = "build" /\ serialized' = 0
    BY <1>1, <1>2, <1>6 DEF Entry, Thrifts, Archives
  <2>2. CapnpInv'
    BY <1>1, <1>3, <2>1 DEF CapnpInv, Decoded, Capnp!TypeOK
  <2>3. TestInv'
    BY <1>1, <1>6, <2>2 DEF TestInv, Thrifts, Archives
  <2>4. Stage' = "checking"
    BY <1>1, <1>6, <2>1 DEF Stage, Capnp!Stage, Capnp!StageBefore, Thrifts, Archives
  <2> QED
    BY <1>1, <2>3, <2>4 DEF IInv, Named, R!Init, name
<1>7. CASE name = "flatbuffers"
  <2>1. pc' = "builder"
    BY <1>1, <1>7 DEF Entry, Thrifts, Archives
  <2>2. FlatbuffersInv'
    BY <1>1, <1>3, <2>1 DEF FlatbuffersInv, Decoded, Flatbuffers!TypeOK
  <2>3. TestInv'
    BY <1>1, <1>7, <2>2 DEF TestInv, Thrifts, Archives
  <2>4. Stage' = "checking"
    BY <1>1, <1>7, <2>1 DEF Stage, Flatbuffers!Stage, Flatbuffers!StageBefore, Thrifts, Archives
  <2> QED
    BY <1>1, <2>3, <2>4 DEF IInv, Named, R!Init, name
<1>8. CASE name = "avro"
  <2>1. pc' = "stream" /\ job'.bytes \in Nat \ {0}
    BY <1>1, <1>8 DEF Entry, Thrifts, Archives
  <2>2. Chunks(0)
    BY DEF Chunks
  <2>3. AvroInv'
    BY <1>1, <1>3, <2>1, <2>2 DEF AvroInv, Decoded, Avro!TypeOK, Avro!CountsChunks
  <2>4. TestInv'
    BY <1>1, <1>8, <2>3 DEF TestInv, Thrifts, Archives
  <2>5. Stage' = "checking"
    BY <1>1, <1>8, <2>1 DEF Stage, Avro!Stage, Avro!StageBefore, Thrifts, Archives
  <2> QED
    BY <1>1, <2>4, <2>5 DEF IInv, Named, R!Init, name
<1> QED
  BY <1>1, <1>4, <1>5, <1>6, <1>7, <1>8, EveryName DEF name

\* A test called takes its steps alone, and keeps its promise by them.
LEMMA TestKeeps ==
  ASSUME IInv, Test
  PROVE  IInv' /\ (R!Next \/ UNCHANGED R!vars)
<1>1. UNCHANGED <<requested, next, results, state>> /\ state = "testing"
  BY DEF Test, main
<1>2. TestInv /\ next <= Len(Order) /\ job \in Named({Order[next]})
  BY <1>1 DEF IInv
<1>3. ASSUME TestInv', job' = job PROVE IInv'
  BY <1>1, <1>2, <1>3 DEF IInv, Named, Selected
<1>4. CASE job.name \in Thrifts /\ Thrift!Next
  <2>1. ThriftInv' /\ job' = job
    BY <1>2, <1>4, ThriftKeeps DEF TestInv
  <2>2. TestInv'
    BY <1>4, <2>1 DEF TestInv, Thrifts, Archives
  <2> QED
    BY <1>2, <1>3, <1>4, <2>1, <2>2, ThriftPromises DEF TestInv
<1>5. CASE job.name \in Archives /\ Archive!Next
  <2>1. ArchiveInv' /\ job' = job
    BY <1>2, <1>5, ArchiveKeeps DEF TestInv
  <2>2. TestInv'
    BY <1>5, <2>1 DEF TestInv, Thrifts, Archives
  <2> QED
    BY <1>2, <1>3, <1>5, <2>1, <2>2, ArchivePromises DEF TestInv
<1>6. CASE job.name = "capnproto" /\ Capnp!Next
  <2>1. CapnpInv' /\ job' = job
    BY <1>2, <1>6, CapnpKeeps DEF TestInv
  <2>2. TestInv'
    BY <1>6, <2>1 DEF TestInv, Thrifts, Archives
  <2> QED
    BY <1>2, <1>3, <1>6, <2>1, <2>2, CapnpPromises DEF TestInv
<1>7. CASE job.name = "flatbuffers" /\ Flatbuffers!Next
  <2>1. FlatbuffersInv' /\ job' = job
    BY <1>2, <1>7, FlatbuffersKeeps DEF TestInv
  <2>2. TestInv'
    BY <1>7, <2>1 DEF TestInv, Thrifts, Archives
  <2> QED
    BY <1>2, <1>3, <1>7, <2>1, <2>2, FlatbuffersPromises DEF TestInv
<1>8. CASE job.name = "avro" /\ Avro!Next
  <2>1. AvroInv' /\ job' = job
    BY <1>2, <1>8, AvroKeeps DEF TestInv
  <2>2. TestInv'
    BY <1>8, <2>1 DEF TestInv, Thrifts, Archives
  <2> QED
    BY <1>2, <1>3, <1>8, <2>1, <2>2, AvroPromises DEF TestInv
<1> QED
  BY <1>4, <1>5, <1>6, <1>7, <1>8 DEF Test

\* The steps main takes between the tests leave no test running.
LEMMA MainKeeps ==
  ASSUME IInv, Skip \/ Push \/ Catch \/ PrintResults
  PROVE  IInv' /\ state' # "testing"
<1>1. CASE Skip
  BY <1>1, EveryName DEF IInv, Skip, AtTest
<1>2. CASE Push
  BY <1>2, EveryName DEF IInv, Push
<1>3. CASE Catch \/ PrintResults
  BY <1>3 DEF IInv, Catch, PrintResults
<1> QED
  BY <1>1, <1>2, <1>3

\* Nothing the invariant or the promise speaks of changes.
LEMMA StutterKeeps ==
  ASSUME IInv, UNCHANGED vars
  PROVE  IInv'
<1>1. /\ UNCHANGED <<requested, next, results, state, job, pc, i, decoded, result>>
      /\ UNCHANGED <<serialized, size, sink, live, reader, buffer1, buffer2>>
      /\ UNCHANGED <<builder, strings, vector, buf, out, in>>
  BY DEF vars, main, locals, common, ofThrift, ofCapnp, ofFlatbuffers, ofAvro
<1> USE <1>1 DEF Decoded
<1>2. ThriftInv => ThriftInv'
  BY DEF ThriftInv, Thrift!TypeOK, Written
<1>3. ArchiveInv => ArchiveInv'
  BY DEF ArchiveInv, Archive!TypeOK, Archive!Source, Archive!ThroughString
<1>4. CapnpInv => CapnpInv'
  BY DEF CapnpInv, Capnp!TypeOK
<1>5. FlatbuffersInv => FlatbuffersInv'
  <2>1. Made' = Made
    BY DEF Made
  <2> QED
    BY <2>1 DEF FlatbuffersInv, Flatbuffers!TypeOK
<1>6. AvroInv => AvroInv'
  <2>1. Avro!WholeChunks(job)' = Avro!WholeChunks(job)
    BY DEF Avro!WholeChunks
  <2> QED
    BY <2>1 DEF AvroInv, Avro!TypeOK, Avro!CountsChunks
<1>7. TestInv => TestInv'
  BY <1>2, <1>3, <1>4, <1>5, <1>6 DEF TestInv
<1> QED
  BY <1>7 DEF IInv, Selected

\* The invariant holds whatever tests are requested and whichever throw.
THEOREM Inductive == Spec => []IInv
<1>1. Init => IInv
  BY EveryName DEF Init, IInv
<1>2. IInv /\ [Next]_vars => IInv'
  BY CallKeeps, TestKeeps, MainKeeps, StutterKeeps DEF Next
<1> QED
  BY <1>1, <1>2, PTL DEF Spec

(* Whatever main has called, its own state and the locals of the test have their types. *)
THEOREM TypeCorrect == Spec => []TypeOK
<1>1. IInv => TypeOK
  <2> SUFFICES ASSUME IInv PROVE TypeOK
    OBVIOUS
  <2>1. CASE state = "testing"
    <3>1. /\ job.name \in Thrifts => Thrift!TypeOK
          /\ job.name \in Archives => Archive!TypeOK
          /\ job.name = "capnproto" => Capnp!TypeOK
          /\ job.name = "flatbuffers" => Flatbuffers!TypeOK
          /\ job.name = "avro" => Avro!TypeOK
      BY <2>1 DEF IInv, TestInv, ThriftInv, ArchiveInv, CapnpInv, FlatbuffersInv, AvroInv
    <3>2. job.name \in Thrifts \cup Archives \cup {"capnproto", "flatbuffers", "avro"}
      BY <2>1, EveryName DEF IInv, Named
    <3> QED
      BY <3>1, <3>2 DEF IInv, TypeOK, Thrifts, Archives
  <2>2. CASE state # "testing"
    BY <2>2 DEF IInv, TypeOK
  <2> QED
    BY <2>1, <2>2
<1> QED
  BY <1>1, Inductive, PTL

\* thrift: buffer2 is read only while it observes the memory serialized owns.
THEOREM ReadsLiveMemory == Spec => []LiveRead
<1>1. IInv => LiveRead
  BY DEF IInv, TestInv, ThriftInv, LiveRead, Thrift!LiveRead
<1> QED
  BY <1>1, Inductive, PTL

(***************************************************************************)
(* capnproto: segments are only read while their builder exists, and none  *)
(* outlives the iteration it was made in, but for that of the check.       *)
(***************************************************************************)
THEOREM ReadsLiveSegments == Spec => []LiveSegments
<1>1. CapnpInv => Capnp!LiveSegments
  BY DEF CapnpInv, Capnp!TypeOK, Capnp!LiveSegments
<1>2. IInv => LiveSegments
  BY <1>1 DEF IInv, TestInv, LiveSegments
<1> QED
  BY <1>2, Inductive, PTL

\* flatbuffers: the vector of offsets holds those of the builder at hand, for
\* any number of strings.
THEOREM UsesOwnOffsets == Spec => []OwnOffsets
<1>1. FlatbuffersInv => Flatbuffers!OwnOffsets
  BY DEF FlatbuffersInv, Made, Flatbuffers!OwnOffsets
<1>2. IInv => OwnOffsets
  BY <1>1 DEF IInv, TestInv, OwnOffsets
<1> QED
  BY <1>2, Inductive, PTL

\* avro: the stream counts less than a chunk too many, and what is decoded is there.
THEOREM CountsWholeChunks == Spec => []CountsChunks
<1>1. IInv => CountsChunks
  BY DEF IInv, TestInv, AvroInv, CountsChunks
<1> QED
  BY <1>1, Inductive, PTL

(***************************************************************************)
(* Every test keeps the promise of RoundTrip from call to return.          *)
(***************************************************************************)
THEOREM KeepsPromise == Spec => Implements
<1> DEFINE Promised == IF state = "main" /\ state' = "testing" THEN R!Init'
                       ELSE state = "testing" => R!Next \/ UNCHANGED R!vars
<1>1. ASSUME IInv, [Next]_vars PROVE Promised \/ UNCHANGED vars
  <2>1. CASE Call
    BY <1>1, <2>1, CallKeeps DEF Call, AtTest
  <2>2. CASE Test
    BY <1>1, <2>2, TestKeeps DEF Test
  <2>3. CASE Skip \/ PrintResults
    BY <2>3 DEF Skip, PrintResults, AtTest
  <2>4. CASE Push \/ Catch
    <3>1. UNCHANGED <<job, pc, i, decoded, result>> /\ state = "testing"
      BY <2>4 DEF Push, Catch, locals, common
    <3>2. Stage' = Stage
      BY <3>1 DEF Stage, Thrift!Stage, Archive!Stage, Capnp!Stage, Flatbuffers!Stage, Avro!Stage,
                  Thrift!StageBefore, Archive!StageBefore, Capnp!StageBefore,
                  Flatbuffers!StageBefore, Avro!StageBefore
    <3> QED
      BY <3>1, <3>2 DEF R!vars
  <2> QED
    BY <1>1, <2>1, <2>2, <2>3, <2>4 DEF Next
<1> QED
  BY <1>1, Inductive, PTL DEF Spec, Implements

-----------------------------------------------------------------------------
(* What main makes of the tests: the refinement of Benchmark. *)

\* A Result names the test it was called for: what is collected is what
\* the test at hand has returned, each with the size of its own image.
Reported == {<<j.name, Size(j)>> : j \in Jobs}
Collected ==
  /\ results \in Seq(Reported)
  /\ state = "testing" /\ pc = "returned" => result = <<job.name, Size(job)>>

\* A test has returned when RoundTrip says so.
LEMMA ReturnedStage ==
  ASSUME IInv, state = "testing"
  PROVE  /\ job \in Jobs /\ job.name = Order[next]
         /\ Stage = "returned" <=> pc = "returned"
<1>1. job \in Jobs /\ job.name = Order[next] /\ next \in 1 .. Len(Order)
  BY DEF IInv, Named
<1>2. job.name \in Thrifts \cup Archives \cup {"capnproto", "flatbuffers", "avro"}
  BY <1>1, EveryName
<1>3. /\ Thrift!Stage = "returned" <=> pc = "returned"
      /\ Archive!Stage = "returned" <=> pc = "returned"
      /\ Capnp!Stage = "returned" <=> pc = "returned"
      /\ Flatbuffers!Stage = "returned" <=> pc = "returned"
      /\ Avro!Stage = "returned" <=> pc = "returned"
  BY DEF Thrift!Stage, Archive!Stage, Capnp!Stage, Flatbuffers!Stage, Avro!Stage,
         Thrift!StageBefore, Archive!StageBefore, Capnp!StageBefore,
         Flatbuffers!StageBefore, Avro!StageBefore
<1> QED
  BY <1>1, <1>2, <1>3 DEF Stage, Thrifts, Archives

\* Only the return of RoundTrip makes a Result, and it is the last step of a test.
LEMMA TestReports ==
  ASSUME IInv, Collected, Test, pc' = "returned"
  PROVE  result' = <<job.name, Size(job)>> /\ job' = job
<1>1. state = "testing" /\ state' = "testing" /\ UNCHANGED <<next, results>>
  BY DEF Test, main
<1>2. IInv' /\ (R!Next \/ UNCHANGED R!vars)
  BY TestKeeps
<1>3. Stage' = "returned"
  <2>1. job'.name = Order[next] /\ next \in 1 .. Len(Order)
    BY <1>1, <1>2 DEF IInv, Named
  <2>2. job'.name \in Thrifts \cup Archives \cup {"capnproto", "flatbuffers", "avro"}
    BY <2>1, EveryName
  <2> QED
    BY <2>2 DEF Stage, Thrift!Stage, Archive!Stage, Capnp!Stage, Flatbuffers!Stage, Avro!Stage,
                Thrift!StageBefore, Archive!StageBefore, Capnp!StageBefore,
                Flatbuffers!StageBefore, Avro!StageBefore, Thrifts, Archives
<1> QED
  BY <1>1, <1>2, <1>3, ReturnedStage
     DEF R!Next, R!vars, R!Decode, R!Accept, R!Reject, R!Round, R!Return, R!Throw, Collected

\* What is collected stays a sequence of Results of tests.
LEMMA CollectedKeeps ==
  ASSUME IInv, Collected, [Next]_vars
  PROVE  Collected'
<1>1. Reported' = Reported
  BY DEF Reported, Size, Avro!WholeChunks
<1>2. ASSUME UNCHANGED <<results, state, pc, result, job>> PROVE Collected'
  BY <1>1, <1>2 DEF Collected, Size, Avro!WholeChunks
<1>3. CASE Call
  <2>1. UNCHANGED results /\ pc' = Entry(Order[next]) /\ next \in 1 .. Len(Order)
    BY <1>3 DEF Call, AtTest, IInv
  <2>2. pc' # "returned"
    BY <2>1, EveryName DEF Entry, Thrifts, Archives
  <2> QED
    BY <1>1, <2>1, <2>2 DEF Collected
<1>4. CASE Test
  <2>1. UNCHANGED results
    BY <1>4 DEF Test, main
  <2>2. pc' = "returned" => result' = <<job'.name, Size(job')>>
    BY <1>4, TestReports
  <2>3. pc' = "returned" => result' = <<job.name, Size(job)>>'
    BY <2>2 DEF Size, Avro!WholeChunks
  <2> QED
    BY <1>1, <2>1, <2>3 DEF Collected
<1>5. CASE Push
  <2>1. state' = "main" /\ results' = Append(results, result) /\ result = <<job.name, Size(job)>>
    BY <1>5 DEF Push, Collected
  <2>2. result \in Reported
    BY <1>5, <2>1, ReturnedStage DEF Push, Reported
  <2> QED
    BY <1>1, <2>1, <2>2 DEF Collected
<1>6. CASE Skip \/ UNCHANGED vars
  BY <1>2, <1>6 DEF Skip, vars, main, locals, common
<1>7. CASE Catch \/ PrintResults
  <2>1. UNCHANGED results /\ state' # "testing"
    BY <1>7 DEF Catch, PrintResults
  <2> QED
    BY <1>1, <2>1 DEF Collected
<1> QED
  BY <1>3, <1>4, <1>5, <1>6, <1>7 DEF Next

\* Suite and Benchmark go through the same names, each reported as asked for.
LEMMA SameChain ==
  /\ Len(Order) = 11 /\ Len(Bench!Tests) = 11
  /\ \A k \in 1 .. 11 : Bench!Tests[k].key = Order[k] /\ Bench!Tests[k].name = Order[k]
<1> DEFINE T(n) == [key |-> n, name |-> n]
<1>1. Bench!Tests = << T("thrift-binary"), T("thrift-compact"), T("protobuf"), T("capnproto"),
                       T("boost"), T("msgpack"), T("cereal"), T("avro"), T("flatbuffers"),
                       T("yas"), T("yas-compact") >>
  BY DEF Bench!Tests, Bench!ThriftTag, Bench!YasTag
<1>2. Len(Order) = 11 /\ Len(Bench!Tests) = 11
  BY <1>1 DEF Order
<1>3. /\ Bench!Tests[1] = T(Order[1]) /\ Bench!Tests[2] = T(Order[2])
      /\ Bench!Tests[3] = T(Order[3]) /\ Bench!Tests[4] = T(Order[4])
      /\ Bench!Tests[5] = T(Order[5]) /\ Bench!Tests[6] = T(Order[6])
      /\ Bench!Tests[7] = T(Order[7]) /\ Bench!Tests[8] = T(Order[8])
      /\ Bench!Tests[9] = T(Order[9]) /\ Bench!Tests[10] = T(Order[10])
      /\ Bench!Tests[11] = T(Order[11])
  BY <1>1 DEF Order
<1>4. \A k \in 1 .. 11 : k = 1 \/ k = 2 \/ k = 3 \/ k = 4 \/ k = 5 \/ k = 6
                         \/ k = 7 \/ k = 8 \/ k = 9 \/ k = 10 \/ k = 11
  OBVIOUS
<1>5. \A n : T(n).key = n /\ T(n).name = n
  OBVIOUS
<1> HIDE DEF T
<1>6. \A k \in 1 .. 11 : Bench!Tests[k] = T(Order[k])
  BY <1>3, <1>4
<1> QED
  BY <1>2, <1>5, <1>6

\* The names of the results, one Result more.
LEMMA OneNameMore ==
  ASSUME NEW S, NEW q \in Seq(S), NEW r \in S, NEW more, more = Append(q, r)
  PROVE  [k \in DOMAIN more |-> more[k][1]] = Append([k \in DOMAIN q |-> q[k][1]], r[1])
<1> DEFINE names == [k \in DOMAIN q |-> q[k][1]]
           a == [k \in DOMAIN more |-> more[k][1]]
           b == Append(names, r[1])
<1>1. Len(q) \in Nat /\ DOMAIN q = 1 .. Len(q) /\ DOMAIN more = 1 .. Len(q) + 1
      /\ \A k \in 1 .. Len(q) + 1 : more[k] = IF k <= Len(q) THEN q[k] ELSE r
  OBVIOUS
<1>2. names \in Seq({q[k][1] : k \in DOMAIN q} \cup {r[1]}) /\ Len(names) = Len(q)
  BY <1>1
<1>3. DOMAIN b = 1 .. Len(q) + 1
      /\ \A k \in 1 .. Len(q) + 1 : b[k] = IF k <= Len(q) THEN names[k] ELSE r[1]
  BY <1>1, <1>2
<1>4. \A k \in 1 .. Len(q) + 1 : a[k] = b[k]
  BY <1>1, <1>3
<1> QED
  BY <1>1, <1>3, <1>4

\* Every step of main that Benchmark has too: a test is called, runs and
\* returns in one of its steps, or throws.
LEMMA StepIsOneStep ==
  ASSUME IInv, Collected, [Next]_vars
  PROVE  [Bench!Next]_(Bench!vars)
<1> DEFINE names == [k \in DOMAIN results |-> results[k][1]]
           at == CASE state = "failed" -> "exited" [] state = "printed" -> "print" [] OTHER -> "run"
           done == IF state = "failed" THEN "failure" ELSE "running"
<1>1. ASSUME UNCHANGED <<requested, next, results>>, at' = at, done' = done
      PROVE  UNCHANGED Bench!vars
  BY <1>1 DEF Bench!vars
<1>2. next \in 1 .. Len(Order) + 1
  BY DEF IInv
<1>3. CASE Skip
  <2>1. /\ state = "main" /\ state' = state /\ next <= Len(Order) /\ next' = next + 1
        /\ requested # {} /\ Order[next] \notin requested /\ UNCHANGED <<requested, results>>
    BY <1>3 DEF Skip, AtTest, Selected
  <2>2. Bench!SkipTest
    BY <1>2, <2>1, SameChain DEF Bench!SkipTest, Bench!AtTest, Bench!Selected
  <2> QED
    BY <2>2 DEF Bench!Next
<1>4. CASE Call
  BY <1>1, <1>4 DEF Call, AtTest
<1>5. CASE Test \/ UNCHANGED vars
  BY <1>1, <1>5 DEF Test, vars, main
<1>6. CASE Push
  <2>1. state = "testing" /\ state' = "main" /\ next' = next + 1 /\ UNCHANGED requested
        /\ next \in 1 .. 11
    BY <1>6, SameChain DEF Push, IInv
  <2>2. /\ result = <<job.name, Size(job)>> /\ job.name = Order[next] /\ result \in Reported
        /\ results' = Append(results, result) /\ results \in Seq(Reported)
    BY <1>6, ReturnedStage DEF Push, Collected, Reported
  <2>3. names' = Append(names, Bench!Tests[next].name)
    <3>1. names' = Append(names, result[1])
      <4>1. results \in Seq(Reported) /\ result \in Reported /\ results' = Append(results, result)
        BY <2>2
      <4> QED
        BY <4>1, OneNameMore
    <3>2. result[1] = Bench!Tests[next].name
      BY <2>1, <2>2, SameChain
    <3> QED
      BY <3>1, <3>2, Zenon
  <2>4. requested = {} \/ Order[next] \in requested
    BY <2>1 DEF IInv, Selected
  <2>5. Bench!AtTest /\ Bench!Selected(next)
    BY <2>1, <2>4, SameChain DEF Bench!AtTest, Bench!Selected
  <2>6. at' = at /\ done' = done
    BY <2>1
  <2>7. Bench!RunTest
    BY <2>1, <2>3, <2>5, <2>6, Zenon DEF Bench!RunTest
  <2> QED
    BY <2>7 DEF Bench!Next
<1>7. CASE Catch
  <2>1. /\ state = "testing" /\ state' = "failed" /\ UNCHANGED <<requested, next, results>>
        /\ next \in 1 .. 11 /\ (requested = {} \/ Order[next] \in requested)
    BY <1>7, SameChain DEF Catch, IInv, Selected
  <2>2. Bench!TestThrows
    BY <2>1, SameChain DEF Bench!TestThrows, Bench!AtTest, Bench!Selected, Bench!Exit
  <2> QED
    BY <2>2 DEF Bench!Next
<1>8. CASE PrintResults
  <2>1. /\ state = "main" /\ state' = "printed" /\ UNCHANGED <<requested, next, results>>
        /\ next > 11
    BY <1>8, SameChain DEF PrintResults
  <2>2. Bench!EndOfTests
    BY <2>1, SameChain DEF Bench!EndOfTests
  <2> QED
    BY <2>2 DEF Bench!Next
<1> QED
  BY <1>3, <1>4, <1>5, <1>6, <1>7, <1>8 DEF Next

(***************************************************************************)
(* The program, its tests opened up, refines Benchmark from its args on:   *)
(* what is proved of the report there holds of the tests as they run.      *)
(***************************************************************************)
THEOREM RefinesBenchmark == Spec => RunsAsOneStep
<1>1. Init => Collected
  BY DEF Init, Collected
<1>2. IInv /\ Collected /\ [Next]_vars => Collected'
  BY CollectedKeeps
<1>3. IInv /\ Collected /\ [Next]_vars => [Bench!Next]_(Bench!vars)
  BY StepIsOneStep
<1> QED
  BY <1>1, <1>2, <1>3, Inductive, PTL DEF Spec, RunsAsOneStep
-----------------------------------------------------------------------------
(* What main has collected, whenever. *)

\* The names of Order differ.
LEMMA OrderDiffers ==
  /\ DOMAIN Order = 1 .. 11
  /\ \A k, l \in 1 .. 11 : Order[k] = Order[l] => k = l
<1>1. DOMAIN Order = 1 .. 11
  BY DEF Order
<1>2. /\ Order[1] = "thrift-binary" /\ Order[2] = "thrift-compact" /\ Order[3] = "protobuf"
      /\ Order[4] = "capnproto" /\ Order[5] = "boost" /\ Order[6] = "msgpack"
      /\ Order[7] = "cereal" /\ Order[8] = "avro" /\ Order[9] = "flatbuffers"
      /\ Order[10] = "yas" /\ Order[11] = "yas-compact"
  BY DEF Order
<1>3. \A k \in 1 .. 11 : k = 1 \/ k = 2 \/ k = 3 \/ k = 4 \/ k = 5 \/ k = 6
                         \/ k = 7 \/ k = 8 \/ k = 9 \/ k = 10 \/ k = 11
  OBVIOUS
<1> QED
  BY <1>1, <1>2, <1>3

\* A Result pushed is that of the one test more that main has passed, and the
\* last of them in the order of the calls.
LEMMA PushCollects ==
  ASSUME IInv, Collected, CollectsAsked, Push
  PROVE  CollectsAsked'
<1> DEFINE n == Len(results)
<1>1. /\ state = "testing" /\ next \in 1 .. 11 /\ next' = next + 1 /\ requested' = requested
      /\ (requested = {} \/ Order[next] \in requested)
  BY SameChain DEF Push, IInv, Selected
<1>2. /\ result = <<job.name, Size(job)>> /\ job \in Jobs /\ job.name = Order[next]
      /\ results' = Append(results, result) /\ results \in Seq(Reported) /\ result \in Reported
  BY ReturnedStage DEF Push, Collected, Reported
<1>3. /\ n \in Nat /\ DOMAIN results = 1 .. n /\ DOMAIN results' = 1 .. n + 1
      /\ \A k \in 1 .. n : results'[k] = results[k]
      /\ results'[n + 1] = <<Order[next], Size(job)>>
  BY <1>2
<1>4. results'[n + 1][1] = Order[next] /\ results'[n + 1][2] = Size(job)
  BY <1>3
<1>5. Passed' = Passed \cup {next} /\ Passed \subseteq 1 .. next - 1
  BY <1>1 DEF Passed
<1>6. {results'[k][1] : k \in DOMAIN results'} = {Order[m] : m \in Passed'}
  <2>1. {results'[k][1] : k \in DOMAIN results'} = {results[k][1] : k \in DOMAIN results} \cup {Order[next]}
    BY <1>3, <1>4
  <2> QED
    BY <1>5, <2>1 DEF CollectsAsked
<1>7. ASSUME NEW k \in DOMAIN results', NEW l \in DOMAIN results',
             NEW p \in DOMAIN Order, NEW q \in DOMAIN Order,
             k < l, results'[k][1] = Order[p], results'[l][1] = Order[q]
      PROVE  p < q
  <2>1. k \in 1 .. n /\ results'[k] = results[k]
    BY <1>3, <1>7
  <2>2. CASE l \in 1 .. n
    BY <1>3, <1>7, <2>1, <2>2 DEF CollectsAsked
  <2>3. CASE l = n + 1
    <3>1. q = next
      BY <1>1, <1>4, <1>7, <2>3, OrderDiffers
    <3>2. PICK m \in Passed : results[k][1] = Order[m]
      <4>1. results[k][1] \in {results[c][1] : c \in DOMAIN results}
        BY <1>3, <2>1
      <4> QED
        BY <4>1 DEF CollectsAsked
    <3>3. m \in 1 .. 11 /\ m < next
      BY <1>1, <1>5, <3>2
    <3>4. p = m
      BY <1>7, <2>1, <3>2, <3>3, OrderDiffers
    <3> QED
      BY <3>1, <3>3, <3>4
  <2> QED
    BY <1>3, <2>2, <2>3
<1>8. ASSUME NEW k \in DOMAIN results'
      PROVE  \E j \in Named({results'[k][1]}) : results'[k][2] = Size(j)
  <2>1. CASE k \in 1 .. n
    <3>1. k \in DOMAIN results /\ results'[k] = results[k]
      BY <1>3, <2>1
    <3>2. \E j \in Named({results[k][1]}) : results[k][2] = Size(j)
      BY <3>1 DEF CollectsAsked
    <3> QED
      BY <3>1, <3>2
  <2>2. CASE k = n + 1
    <3>1. job \in Named({results'[k][1]})
      BY <1>2, <1>4, <2>2 DEF Named
    <3> QED
      BY <1>4, <2>2, <3>1
  <2>3. k \in 1 .. n \/ k = n + 1
    BY <1>3
  <2> QED
    BY <2>1, <2>2, <2>3
<1>9. \A j : Size(j)' = Size(j)
  BY DEF Size, Avro!WholeChunks
<1> HIDE DEF n
<1> QED
  BY <1>6, <1>7, <1>8, <1>9 DEF CollectsAsked, Named

\* No other step makes a Result, and a test that is passed without one is not asked for.
LEMMA CollectsKeeps ==
  ASSUME IInv, Collected, CollectsAsked, [Next]_vars
  PROVE  CollectsAsked'
<1>1. ASSUME results' = results, Passed' = Passed PROVE CollectsAsked'
  <2>1. \A j : Size(j)' = Size(j)
    BY DEF Size, Avro!WholeChunks
  <2> QED
    BY <1>1, <2>1 DEF CollectsAsked, Named
<1>2. CASE Skip
  <2>1. /\ results' = results /\ requested' = requested /\ next' = next + 1
        /\ requested # {} /\ Order[next] \notin requested /\ next \in 1 .. 12
    BY <1>2, SameChain DEF Skip, AtTest, Selected, IInv
  <2>2. Passed' = Passed
    BY <2>1 DEF Passed
  <2> QED
    BY <1>1, <2>1, <2>2
<1>3. CASE Push
  BY <1>3, PushCollects
<1>4. CASE Call \/ Test \/ Catch \/ PrintResults \/ UNCHANGED vars
  <2>1. UNCHANGED <<results, requested, next>>
    BY <1>4 DEF Call, Test, Catch, PrintResults, main, vars
  <2> QED
    BY <1>1, <2>1 DEF Passed
<1> QED
  BY <1>2, <1>3, <1>4 DEF Next

(***************************************************************************)
(* Whatever is asked for and wherever the chain stops: one Result of each  *)
(* test asked for and passed, in the order of the calls, with the size of  *)
(* an image of its own; so what is printed answers the request.            *)
(***************************************************************************)
THEOREM CollectsWhatIsAsked == Spec => []CollectsAsked
<1>1. Init => Collected
  BY DEF Init, Collected
<1>2. IInv /\ Collected /\ [Next]_vars => Collected'
  BY CollectedKeeps
<1>3. Init => CollectsAsked
  BY DEF Init, CollectsAsked, Passed
<1>4. IInv /\ Collected /\ CollectsAsked /\ [Next]_vars => CollectsAsked'
  BY CollectsKeeps
<1> QED
  BY <1>1, <1>2, <1>3, <1>4, Inductive, PTL DEF Spec
-----------------------------------------------------------------------------
(* Why the loops end. *)

\* Where a statement stands in its test: one order that fits all five.
Place == [write |-> 1, assign |-> 2, observe |-> 3, build |-> 4, segments |-> 5, open |-> 6,
          builder |-> 7, strings |-> 8, vectors |-> 9, finish |-> 10, copy |-> 11, stream |-> 12,
          encode |-> 13, count |-> 14, input |-> 15, store |-> 16, decode |-> 17, read |-> 18,
          check |-> 19, size |-> 20, release |-> 21, end |-> 22, head |-> 23,
          returned |-> 24, rejected |-> 24, thrown |-> 24]

(***************************************************************************)
(* No step goes back: main comes to a later test or ends; a test comes to  *)
(* a later iteration, or in that to a later statement, or its encoder has  *)
(* put more bytes into the stream.  Each of these has a last value.        *)
(***************************************************************************)
Advances ==
  [][\/ next' > next
     \/ next' = next /\ state = "main" /\ state' # "main"
     \/ next' = next /\ state = "testing" /\ state' = "failed"
     \/ /\ UNCHANGED <<next, state, job>> /\ state = "testing"
        /\ \/ i' > i
           \/ i' = i /\ Place[pc'] > Place[pc]
           \/ UNCHANGED <<i, pc>> /\ job.name = "avro" /\ out'.encoded > out.encoded]_vars

\* A test goes on to a later iteration or, within it, to a later statement.
GoesOn == i' > i \/ (i' = i /\ Place[pc'] > Place[pc])

\* So does every statement of the thrift test.
LEMMA ThriftAdvances ==
  ASSUME ThriftInv, Thrift!Next
  PROVE  GoesOn
<1>1. i \in Nat
  BY DEF ThriftInv, Thrift!TypeOK
<1>2. CASE Thrift!Iterate
  BY <1>1, <1>2 DEF Thrift!Iterate, GoesOn
<1>3. CASE Thrift!Write
  BY <1>3 DEF Thrift!Write, GoesOn, Place
<1>4. CASE Thrift!Assign
  <2>1. i' = i /\ pc = "assign" /\ pc' = "observe"
    BY <1>4, Zenon DEF Thrift!Assign
  <2> QED
    BY <2>1 DEF GoesOn, Place
<1>5. CASE Thrift!Observe
  BY <1>5 DEF Thrift!Observe, GoesOn, Place
<1>6. CASE Thrift!Read
  <2>1. i' = i /\ pc = "read" /\ pc' \in {"check", "head"}
    BY <1>6, Zenon DEF Thrift!Read
  <2> QED
    BY <2>1 DEF GoesOn, Place
<1>7. CASE Thrift!Pass \/ Thrift!Reject \/ Thrift!Return \/ Thrift!Throw
  <2>1. /\ i' = i
        /\ \/ pc = "check" /\ pc' \in {"head", "rejected"}
           \/ pc = "head" /\ pc' = "returned"
           \/ pc \in {"write", "assign", "observe", "read"} /\ pc' = "thrown"
    BY <1>7, Zenon DEF Thrift!Pass, Thrift!Reject, Thrift!Return, Thrift!Throw
  <2> QED
    BY <2>1 DEF GoesOn, Place
<1> QED
  BY <1>2, <1>3, <1>4, <1>5, <1>6, <1>7 DEF Thrift!Next

\* So does every statement of the tests of the archives.
LEMMA ArchiveAdvances ==
  ASSUME ArchiveInv, Archive!Next
  PROVE  GoesOn
<1>1. i \in Nat
  BY DEF ArchiveInv, Archive!TypeOK
<1>2. CASE Archive!Iterate
  BY <1>1, <1>2 DEF Archive!Iterate, GoesOn
<1>3. CASE Archive!Encode \/ Archive!Store \/ Archive!Decode
  <2>1. /\ i' = i
        /\ \/ pc = "encode" /\ pc' \in {"store", "decode"}
           \/ pc = "store" /\ pc' = "decode"
           \/ pc = "decode" /\ pc' \in {"check", "head"}
    BY <1>3, Zenon DEF Archive!Encode, Archive!Store, Archive!Decode
  <2> QED
    BY <2>1 DEF GoesOn, Place
<1>4. CASE Archive!Pass \/ Archive!Reject \/ Archive!Return \/ Archive!Throw
  <2>1. /\ i' = i
        /\ \/ pc = "check" /\ pc' \in {"head", "rejected"}
           \/ pc = "head" /\ pc' = "returned"
           \/ pc \in {"encode", "store", "decode"} /\ pc' = "thrown"
    BY <1>4, Zenon DEF Archive!Pass, Archive!Reject, Archive!Return, Archive!Throw
  <2> QED
    BY <2>1 DEF GoesOn, Place
<1> QED
  BY <1>2, <1>3, <1>4 DEF Archive!Next

\* So does every statement of the capnproto test.
LEMMA CapnpAdvances ==
  ASSUME CapnpInv, Capnp!Next
  PROVE  GoesOn
<1>1. i \in Nat
  BY DEF CapnpInv, Capnp!TypeOK
<1>2. CASE Capnp!Iterate
  BY <1>1, <1>2 DEF Capnp!Iterate, GoesOn
<1>3. CASE Capnp!Build \/ Capnp!Segments \/ Capnp!Open \/ Capnp!Read
  BY <1>3 DEF Capnp!Build, Capnp!Segments, Capnp!Open, Capnp!Read, GoesOn, Place
<1>4. CASE Capnp!Pass \/ Capnp!Reject \/ Capnp!Measure \/ Capnp!EndIteration \/ Capnp!Return \/ Capnp!Throw
  BY <1>4 DEF Capnp!Pass, Capnp!Reject, Capnp!Measure, Capnp!EndIteration, Capnp!Return,
              Capnp!Throw, GoesOn, Place
<1> QED
  BY <1>2, <1>3, <1>4 DEF Capnp!Next

\* So does every statement of the flatbuffers test.
LEMMA FlatbuffersAdvances ==
  ASSUME FlatbuffersInv, Flatbuffers!Next
  PROVE  GoesOn
<1>1. i \in Nat
  BY DEF FlatbuffersInv, Flatbuffers!TypeOK
<1>2. CASE Flatbuffers!Iterate
  BY <1>1, <1>2 DEF Flatbuffers!Iterate, GoesOn
<1>3. CASE Flatbuffers!NewBuilder
  BY <1>3 DEF Flatbuffers!NewBuilder, GoesOn, Place
<1>6. CASE Flatbuffers!CreateStrings
  <2>1. i' = i /\ pc = "strings" /\ pc' = "vectors"
    BY <1>6, Zenon DEF Flatbuffers!CreateStrings
  <2> QED
    BY <2>1 DEF GoesOn, Place
<1>7. CASE Flatbuffers!CreateVectors
  <2>1. i' = i /\ pc = "vectors" /\ pc' = "finish"
    BY <1>7, Zenon DEF Flatbuffers!CreateVectors
  <2> QED
    BY <2>1 DEF GoesOn, Place
<1>5. CASE Flatbuffers!Finish \/ Flatbuffers!Copy \/ Flatbuffers!Read
  BY <1>5 DEF Flatbuffers!Finish, Flatbuffers!Copy, Flatbuffers!Read, GoesOn, Place
<1>4. CASE Flatbuffers!Pass \/ Flatbuffers!Reject \/ Flatbuffers!Measure
           \/ Flatbuffers!Release \/ Flatbuffers!Return \/ Flatbuffers!Throw
  BY <1>4 DEF Flatbuffers!Pass, Flatbuffers!Reject, Flatbuffers!Measure,
              Flatbuffers!Release, Flatbuffers!Return, Flatbuffers!Throw, GoesOn, Place
<1> QED
  BY <1>2, <1>3, <1>4, <1>5, <1>6, <1>7 DEF Flatbuffers!Next

\* The encoder of avro stays at its statement, for one chunk more: each of at
\* least a byte, and no image needs more bytes than it has.
LEMMA AvroAdvances ==
  ASSUME job.name = "avro", AvroInv, Avro!Next
  PROVE  GoesOn \/ (UNCHANGED <<i, pc>> /\ out'.encoded > out.encoded)
<1>1. i \in Nat /\ job \in Jobs
  BY DEF AvroInv, Avro!TypeOK
<1>2. CASE Avro!Iterate
  BY <1>1, <1>2 DEF Avro!Iterate, GoesOn
<1>3. CASE Avro!NewStream \/ Avro!Encoded \/ Avro!Count \/ Avro!NewInput \/ Avro!Decode
  BY <1>3 DEF Avro!NewStream, Avro!Encoded, Avro!Count, Avro!NewInput, Avro!Decode, GoesOn, Place
<1>4. CASE Avro!Pass \/ Avro!Reject \/ Avro!Return \/ Avro!Throw
  BY <1>4 DEF Avro!Pass, Avro!Reject, Avro!Return, Avro!Throw, GoesOn, Place
<1>5. CASE Avro!Encode
  <2>1. out \in [number : 0 .. Iterations + 1, encoded : 0 .. job.bytes, byteCount : Nat]
        /\ job.bytes \in Nat /\ out.encoded < job.bytes
    BY <1>1, <1>5 DEF AvroInv, Avro!TypeOK, Avro!Encode
  <2>2. out'.encoded = Avro!Least(out.encoded + Chunk, job.bytes)
    BY <1>5, <2>1 DEF Avro!Encode
  <2> QED
    BY <1>5, <2>1, <2>2 DEF Avro!Encode, Avro!Least
<1> QED
  BY <1>2, <1>3, <1>4, <1>5 DEF Avro!Next

\* The test called goes on.
LEMMA TestAdvances ==
  ASSUME IInv, Test
  PROVE  /\ UNCHANGED <<next, state, job>>
         /\ GoesOn \/ (UNCHANGED <<i, pc>> /\ job.name = "avro" /\ out'.encoded > out.encoded)
<1>1. UNCHANGED <<next, state>> /\ TestInv
  BY DEF Test, main, IInv
<1>2. CASE job.name \in Thrifts /\ Thrift!Next
  BY <1>1, <1>2, ThriftKeeps, ThriftAdvances DEF TestInv
<1>3. CASE job.name \in Archives /\ Archive!Next
  BY <1>1, <1>3, ArchiveKeeps, ArchiveAdvances DEF TestInv
<1>4. CASE job.name = "capnproto" /\ Capnp!Next
  BY <1>1, <1>4, CapnpKeeps, CapnpAdvances DEF TestInv
<1>5. CASE job.name = "flatbuffers" /\ Flatbuffers!Next
  BY <1>1, <1>5, FlatbuffersKeeps, FlatbuffersAdvances DEF TestInv
<1>6. CASE job.name = "avro" /\ Avro!Next
  BY <1>1, <1>6, AvroKeeps, AvroAdvances DEF TestInv
<1> QED
  BY <1>2, <1>3, <1>4, <1>5, <1>6 DEF Test

(***************************************************************************)
(* Every step takes the program nearer to its end, for any number of       *)
(* iterations, any request and images of any size: next, i, the place of a *)
(* statement and the bytes encoded never go back, in this order, and       *)
(* TypeCorrect bounds each.                                                *)
(***************************************************************************)
THEOREM AlwaysAdvances == Spec => Advances
<1> DEFINE Step ==
  \/ next' > next
  \/ next' = next /\ state = "main" /\ state' # "main"
  \/ next' = next /\ state = "testing" /\ state' = "failed"
  \/ /\ UNCHANGED <<next, state, job>> /\ state = "testing"
     /\ \/ i' > i
        \/ i' = i /\ Place[pc'] > Place[pc]
        \/ UNCHANGED <<i, pc>> /\ job.name = "avro" /\ out'.encoded > out.encoded
<1>1. ASSUME IInv, Next PROVE Step
  <2>1. CASE Skip \/ Push
    <3>1. next \in Nat /\ next' = next + 1
      BY <1>1, <2>1, EveryName DEF IInv, Skip, Push
    <3> QED
      BY <3>1
  <2>2. CASE Call \/ Catch \/ PrintResults
    BY <2>2 DEF Call, Catch, PrintResults, AtTest
  <2>3. CASE Test
    BY <1>1, <2>3, TestAdvances DEF GoesOn, Test
  <2> QED
    BY <1>1, <2>1, <2>2, <2>3 DEF Next
<1> QED
  BY <1>1, Inductive, PTL DEF Spec, Advances
=============================================================================
