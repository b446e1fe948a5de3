------------------------------ MODULE ThriftTest ------------------------------
(***************************************************************************)
(* thrift_serialization_test.  buffer1 owns the bytes written; serialized  *)
(* is a copy of them; buffer2 does not own memory but observes that of     *)
(* serialized, which every assignment to serialized frees (generation gen).*)
(***************************************************************************)
EXTENDS SerializationTest

VARIABLES
  buffer1,      \* the images in buffer1: [protocol, number]
  serialized,   \* [gen, images]
  buffer2       \* [gen, images]: the memory it observes and what is unread

vars == <<job, pc, i, buffer1, serialized, buffer2, decoded, result>>

\* The protocol argument main passes, and the four places that dispatch on it.
Proto(name) == IF name = "thrift-binary" THEN "Binary" ELSE "Compact"
Writer(proto) == IF proto = "Binary" THEN "binary" ELSE "compact"
Reader(proto) == IF proto = "Binary" THEN "binary" ELSE "compact"
Tag(proto) == IF proto = "Binary" THEN "thrift-binary" ELSE "thrift-compact"

Init ==
  /\ job \in Jobs
  /\ pc = "write" /\ i = 0
  /\ buffer1 = <<>>
  /\ serialized = [gen |-> 0, images |-> <<>>]
  /\ buffer2 = [gen |-> 0, images |-> <<>>]
  /\ decoded = 0
  /\ result = <<>>

\* r1.write: the bytes go after those already in buffer1.
Write ==
  /\ pc = "write"
  /\ buffer1' = Append(buffer1, [protocol |-> Writer(Proto(job.name)), number |-> i + 1])
  /\ pc' = "assign"
  /\ UNCHANGED <<job, i, serialized, buffer2, decoded, result>>

\* serialized = buffer1->getBufferAsString(): the old memory is gone.
Assign ==
  /\ pc = "assign"
  /\ serialized' = [gen |-> serialized.gen + 1, images |-> buffer1]
  /\ pc' = "observe"
  /\ UNCHANGED <<job, i, buffer1, buffer2, decoded, result>>

\* buffer2->resetBuffer(serialized.data(), serialized.length()).
Observe_Once ==
  /\ pc = "observe"
  /\ buffer2' = IF i = 0 THEN serialized ELSE buffer2
  /\ pc' = "read"
  /\ UNCHANGED <<job, i, buffer1, serialized, decoded, result>>
Observe ==
  /\ pc = "observe"
  /\ buffer2' = serialized
  /\ pc' = "read"
  /\ UNCHANGED <<job, i, buffer1, serialized, decoded, result>>

\* The image a read finds: none in freed memory or for another protocol.
Found(b) ==
  IF /\ b.gen = serialized.gen /\ b.images # <<>>
     /\ b.images[1].protocol = Reader(Proto(job.name))
    THEN b.images[1].number
    ELSE 0

\* r2.read: one struct is consumed.
Read ==
  /\ pc = "read"
  /\ decoded' = Found(buffer2)
  /\ buffer2' = [buffer2 EXCEPT !.images = <<>>]
  /\ pc' = IF i = 0 THEN "check" ELSE "head"
  /\ UNCHANGED <<job, i, buffer1, serialized, result>>

\* if (r1 != r2) throw std::logic_error.
Equal == decoded # 0 /\ job.ids = "same" /\ job.strings = "same"

Pass ==
  /\ pc = "check" /\ Equal
  /\ pc' = "head"
  /\ UNCHANGED <<job, i, buffer1, serialized, buffer2, decoded, result>>

Reject ==
  /\ pc = "check" /\ ~Equal
  /\ pc' = "rejected"
  /\ UNCHANGED <<job, i, buffer1, serialized, buffer2, decoded, result>>

\* The loop: buffer1->resetBuffer() empties it.
Iterate_Append ==
  /\ pc = "head" /\ i < Iterations
  /\ i' = i + 1
  /\ pc' = "write"
  /\ UNCHANGED <<job, buffer1, serialized, buffer2, decoded, result>>
Iterate_Past ==
  /\ pc = "head" /\ i <= Iterations
  /\ i' = i + 1
  /\ buffer1' = <<>>
  /\ pc' = "write"
  /\ UNCHANGED <<job, serialized, buffer2, decoded, result>>
Iterate ==
  /\ pc = "head" /\ i < Iterations
  /\ i' = i + 1
  /\ buffer1' = <<>>
  /\ pc' = "write"
  /\ UNCHANGED <<job, serialized, buffer2, decoded, result>>

\* The size of a Result is counted in images.
Return ==
  /\ pc = "head" /\ i = Iterations
  /\ result' = <<Tag(Proto(job.name)), Len(serialized.images)>>
  /\ pc' = "returned"
  /\ UNCHANGED <<job, i, buffer1, serialized, buffer2, decoded>>

\* Thrift or the allocator throws.
Throw ==
  /\ pc \in {"write", "assign", "observe", "read"}
  /\ pc' = "thrown"
  /\ UNCHANGED <<job, i, buffer1, serialized, buffer2, decoded, result>>

Next == Write \/ Assign \/ Observe \/ Read \/ Pass \/ Reject \/ Iterate \/ Return \/ Throw

-----------------------------------------------------------------------------
(* Properties *)

Image == [protocol : {"binary", "compact"}, number : Nat]
Memory == [gen : Nat, images : Seq(Image)]

TypeOK ==
  /\ job \in Jobs
  /\ pc \in {"write", "assign", "observe", "read", "check", "head"} \cup Ended
  /\ i \in 0 .. Iterations
  /\ buffer1 \in Seq(Image) /\ serialized \in Memory /\ buffer2 \in Memory
  /\ decoded \in 0 .. Iterations + 1
  /\ result \in {<<>>} \cup ({"thrift-binary", "thrift-compact"} \X Nat)

\* What the check of the test is able to see.
Trusted == {j \in Jobs : j.ids = "same" /\ j.strings = "same"}
Stage == StageBefore({"head"})

\* buffer2 is only read while the memory it observes is the one serialized
\* still owns, although the assignment before it has freed the one observed
\* until then.
LiveRead == pc = "read" => buffer2.gen = serialized.gen
=============================================================================
