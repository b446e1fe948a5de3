------------------------------- MODULE AvroTest -------------------------------
(***************************************************************************)
(* avro_serialization_test.  The encoder asks memoryOutputStream() for one *)
(* chunk after the other and the stream counts every chunk it hands out as *)
(* written.  encoder->flush(), which gives the unused end of the last one  *)
(* back, is never called: the decoder gets by with that, byteCount() does  *)
(* not.                                                                    *)
(***************************************************************************)
EXTENDS SerializationTest

CONSTANT
  Chunk   \* the bytes of a chunk; the bytes of an image are a field of its job

VARIABLES
  out,       \* the output stream: the number of its image, the bytes the
             \* encoder has put into it and those it counts
  in,        \* the output stream the input stream reads: its number
  size       \* serialized_size

vars == <<job, pc, i, out, in, decoded, size, result>>

Init ==
  /\ job \in Jobs
  /\ pc = "stream" /\ i = 0
  /\ out = [number |-> 0, encoded |-> 0, byteCount |-> 0]
  /\ in = 0 /\ decoded = 0 /\ size = 0
  /\ result = <<>>

\* memoryOutputStream(), binaryEncoder() and init.
NewStream ==
  /\ pc = "stream"
  /\ out' = [number |-> i + 1, encoded |-> 0, byteCount |-> 0]
  /\ pc' = "encode"
  /\ UNCHANGED <<job, i, in, decoded, size, result>>

Least(m, n) == IF m < n THEN m ELSE n

\* avro::encode(*encoder, r1): the encoder fills one more chunk.
Encode_Early ==
  /\ pc = "encode" /\ out.encoded < job.bytes
  /\ out' = [out EXCEPT !.encoded = Least(@ + Chunk, job.bytes), !.byteCount = @ + Chunk]
  /\ pc' = IF i = 0 THEN "count" ELSE "input"
  /\ UNCHANGED <<job, i, in, decoded, size, result>>
Encode ==
  /\ pc = "encode" /\ out.encoded < job.bytes
  /\ out' = [out EXCEPT !.encoded = Least(@ + Chunk, job.bytes), !.byteCount = @ + Chunk]
  /\ UNCHANGED <<job, pc, i, in, decoded, size, result>>

Encoded ==
  /\ pc = "encode" /\ out.encoded = job.bytes
  /\ pc' = IF i = 0 THEN "count" ELSE "input"
  /\ UNCHANGED <<job, i, out, in, decoded, size, result>>

\* serialized_size = out->byteCount(), for the check's image only.
Count ==
  /\ pc = "count"
  /\ size' = out.byteCount
  /\ pc' = "input"
  /\ UNCHANGED <<job, i, out, in, decoded, result>>

\* memoryInputStream(*out), binaryDecoder() and init.
NewInput_Outer ==
  /\ pc = "input"
  /\ in' = 1
  /\ pc' = "decode"
  /\ UNCHANGED <<job, i, out, decoded, size, result>>
NewInput ==
  /\ pc = "input"
  /\ in' = out.number
  /\ pc' = "decode"
  /\ UNCHANGED <<job, i, out, decoded, size, result>>

\* avro::decode(*decoder, r2): as many bytes as the record needs, not those
\* the stream counts.
Decode ==
  /\ pc = "decode"
  /\ decoded' = IF out.encoded = job.bytes THEN in ELSE 0
  /\ pc' = IF i = 0 THEN "check" ELSE "head"
  /\ UNCHANGED <<job, i, out, in, size, result>>

\* The check compares both lists, and their lengths once more.
Ok == decoded # 0 /\ job.ids = "same" /\ job.strings = "same"

Pass ==
  /\ pc = "check" /\ Ok
  /\ pc' = "head"
  /\ UNCHANGED <<job, i, out, in, decoded, size, result>>

Reject ==
  /\ pc = "check" /\ ~Ok
  /\ pc' = "rejected"
  /\ UNCHANGED <<job, i, out, in, decoded, size, result>>

Iterate ==
  /\ pc = "head" /\ i < Iterations
  /\ i' = i + 1
  /\ pc' = "stream"
  /\ UNCHANGED <<job, out, in, decoded, size, result>>

Return_Over ==
  /\ pc = "head" /\ i > Iterations
  /\ result' = <<"avro", size>>
  /\ pc' = "returned"
  /\ UNCHANGED <<job, i, out, in, decoded, size>>
Return ==
  /\ pc = "head" /\ i = Iterations
  /\ result' = <<"avro", size>>
  /\ pc' = "returned"
  /\ UNCHANGED <<job, i, out, in, decoded, size>>

\* The library or the allocator throws.
Throw ==
  /\ pc \in {"stream", "encode", "input", "decode"}
  /\ pc' = "thrown"
  /\ UNCHANGED <<job, i, out, in, decoded, size, result>>

Next == \/ NewStream \/ Encode \/ Encoded \/ Count \/ NewInput \/ Decode
        \/ Pass \/ Reject \/ Iterate \/ Return \/ Throw

Spec == Init /\ [][Next]_vars

-----------------------------------------------------------------------------
(* Properties *)

TypeOK ==
  /\ job \in Jobs
  /\ pc \in {"stream", "encode", "count", "input", "decode", "check", "head"} \cup Ended
  /\ i \in 0 .. Iterations
  /\ out \in [number : 0 .. Iterations + 1, encoded : 0 .. job.bytes, byteCount : Nat]
  /\ in \in 0 .. Iterations + 1
  /\ decoded \in 0 .. Iterations + 1
  /\ size \in Nat
  /\ result \in {<<>>} \cup ({"avro"} \X Nat)

\* The whole chunks an image takes, in bytes.
WholeChunks(j) == ((j.bytes + Chunk - 1) \div Chunk) * Chunk

Trusted == {j \in Jobs : j.ids = "same" /\ j.strings = "same"}
Stage == StageBefore({"head"})

\* The stream never counts less than the encoder has put into it, and less
\* than a chunk more: what byteCount() is off by, and why decoding from the
\* unflushed stream finds every byte of the image.
CountsChunks ==
  /\ out.encoded <= out.byteCount /\ out.byteCount < out.encoded + Chunk
  /\ pc \in {"input", "decode"} => out.encoded = job.bytes

(***************************************************************************)
(* README.md:76 gives the size under the heading "object's size", in bytes *)
(* (README.md:98): a test that returns has reported the bytes of its       *)
(* image.                                                                  *)
(***************************************************************************)
ReportsObjectSize == pc = "returned" => result = <<"avro", job.bytes>>
=============================================================================
