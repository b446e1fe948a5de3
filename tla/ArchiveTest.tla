----------------------------- MODULE ArchiveTest -----------------------------
(***************************************************************************)
(* The tests that encode into a stream or a buffer and decode from memory  *)
(* they own: boost, cereal, yas, yas-compact, msgpack and protobuf, with   *)
(* the to_string and from_string of their records.  They differ in what    *)
(* the loop reuses and in what it decodes from.                            *)
(***************************************************************************)
EXTENDS SerializationTest

Names == {"boost", "cereal", "yas", "yas-compact", "msgpack", "protobuf"}
VARIABLES
  sink,         \* the images in the stream or in sbuf, by number
  serialized    \* the images in the string serialized

vars == <<job, pc, i, sink, serialized, decoded, result>>

\* The tests whose loop goes through to_string and from_string of their record.
ThroughString == job.name \in {"boost", "cereal", "protobuf"}

Init ==
  /\ job \in Jobs
  /\ pc = "encode" /\ i = 0
  /\ sink = <<>> /\ serialized = <<>>
  /\ decoded = 0
  /\ result = <<>>

\* The record goes after what the sink holds: into sbuf, which is one for the
\* whole test, or into a stream made for this encoding.
Encode ==
  /\ pc = "encode"
  /\ sink' = Append(IF job.name = "msgpack" THEN sink ELSE <<>>, i + 1)
  /\ pc' = IF i = 0 \/ ThroughString THEN "store" ELSE "decode"
  /\ UNCHANGED <<job, i, serialized, decoded, result>>

\* data = stream.str(), data.assign, SerializeToString and the string made of
\* sbuf: all replace what the string held.
Store ==
  /\ pc = "store"
  /\ serialized' = sink
  /\ pc' = "decode"
  /\ UNCHANGED <<job, i, sink, decoded, result>>

\* The loops of yas and msgpack decode from the stream or buffer itself.  An
\* image that cannot be read makes the library throw, but ParseFromString
\* return false.
Source == IF i = 0 \/ ThroughString THEN serialized ELSE sink
Decode ==
  /\ pc = "decode" /\ (job.readable \/ job.name = "protobuf")
  /\ decoded' = IF Source = <<>> THEN 0 ELSE Source[1]
  /\ pc' = IF i = 0 THEN "check" ELSE "head"
  /\ UNCHANGED <<job, i, sink, serialized, result>>

\* protobuf only asks whether the string could be parsed, which an empty one
\* can; the others compare r1 and r2.
Ok == IF job.name = "protobuf"
        THEN job.readable
        ELSE decoded # 0 /\ job.ids = "same" /\ job.strings = "same"

Pass ==
  /\ pc = "check" /\ Ok
  /\ pc' = "head"
  /\ UNCHANGED <<job, i, sink, serialized, decoded, result>>

Reject ==
  /\ pc = "check" /\ ~Ok
  /\ pc' = "rejected"
  /\ UNCHANGED <<job, i, sink, serialized, decoded, result>>

\* The loop: serialized.clear() or sbuf.clear(); local streams are new.
Iterate_Append ==
  /\ pc = "head" /\ i < Iterations
  /\ i' = i + 1
  /\ serialized' = IF ThroughString THEN <<>> ELSE serialized
  /\ pc' = "encode"
  /\ UNCHANGED <<job, sink, decoded, result>>
Iterate ==
  /\ pc = "head" /\ i < Iterations
  /\ i' = i + 1
  /\ serialized' = IF ThroughString THEN <<>> ELSE serialized
  /\ sink' = <<>>
  /\ pc' = "encode"
  /\ UNCHANGED <<job, decoded, result>>

\* The size of a Result is counted in images.
Return ==
  /\ pc = "head" /\ i = Iterations
  /\ result' = <<job.name, Len(serialized)>>
  /\ pc' = "returned"
  /\ UNCHANGED <<job, i, sink, serialized, decoded>>

\* The library or the allocator throws.
Throw ==
  /\ pc \in {"encode", "store", "decode"}
  /\ pc' = "thrown"
  /\ UNCHANGED <<job, i, sink, serialized, decoded, result>>

Next == Encode \/ Store \/ Decode \/ Pass \/ Reject \/ Iterate \/ Return \/ Throw

-----------------------------------------------------------------------------
(* Properties *)

TypeOK ==
  /\ job \in Jobs
  /\ pc \in {"encode", "store", "decode", "check", "head"} \cup Ended
  /\ i \in 0 .. Iterations
  /\ sink \in Seq(Nat) /\ serialized \in Seq(Nat)
  /\ decoded \in 0 .. Iterations + 1
  /\ result \in {<<>>} \cup (Names \X Nat)

\* What the check of the test is able to see.
Trusted ==
  {j \in Jobs : IF j.name = "protobuf"
                  THEN j.readable
                  ELSE j.ids = "same" /\ j.strings = "same"}
Stage == StageBefore({"head"})
=============================================================================
