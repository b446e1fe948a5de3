------------------------------ MODULE CapnpTest ------------------------------
(***************************************************************************)
(* capnproto_serialization_test.  serialized is an array of pointers into  *)
(* the segments of a MallocMessageBuilder.  The builder of the check lives *)
(* until the function returns, the one of an iteration until the iteration *)
(* ends: from there to the next assignment serialized is dangling.         *)
(***************************************************************************)
EXTENDS SerializationTest

VARIABLES
  live,         \* the builders that exist, by the number of their image
  serialized,   \* the builder whose segments it points to, 0 if none
  reader,       \* the builder whose segments the reader at hand reads
  size

vars == <<job, pc, i, live, serialized, reader, decoded, size, result>>

Init ==
  /\ job \in Jobs
  /\ pc = "build" /\ i = 0
  /\ live = {} /\ serialized = 0 /\ reader = 0
  /\ decoded = 0 /\ size = 0
  /\ result = <<>>

\* A MallocMessageBuilder with its root and both lists initialised.
Build ==
  /\ pc = "build"
  /\ live' = live \cup {i + 1}
  /\ pc' = "segments"
  /\ UNCHANGED <<job, i, serialized, reader, decoded, size, result>>

\* serialized = message.getSegmentsForOutput().
Segments ==
  /\ pc = "segments"
  /\ serialized' = i + 1
  /\ pc' = "open"
  /\ UNCHANGED <<job, i, live, reader, decoded, size, result>>

\* SegmentArrayMessageReader reader(serialized) copies nothing.
Open ==
  /\ pc = "open"
  /\ reader' = serialized
  /\ pc' = "read"
  /\ UNCHANGED <<job, i, live, serialized, decoded, size, result>>

\* The image in the memory of builder b, none if it is gone.
ImageOf(b) == IF b \in live THEN b ELSE 0

\* getRoot and the sizes of the lists.
Read ==
  /\ pc = "read"
  /\ decoded' = ImageOf(reader)
  /\ pc' = IF i = 0 THEN "check" ELSE "end"
  /\ UNCHANGED <<job, i, live, serialized, reader, size, result>>

\* The check compares the number of ids and nothing else.
Ok == decoded # 0 /\ job.ids # "count"

Pass_Scoped ==
  /\ pc = "check" /\ Ok
  /\ live' = {}
  /\ pc' = "size"
  /\ UNCHANGED <<job, i, serialized, reader, decoded, size, result>>
Pass ==
  /\ pc = "check" /\ Ok
  /\ pc' = "size"
  /\ UNCHANGED <<job, i, live, serialized, reader, decoded, size, result>>

Reject ==
  /\ pc = "check" /\ ~Ok
  /\ live' = {}
  /\ pc' = "rejected"
  /\ UNCHANGED <<job, i, serialized, reader, decoded, size, result>>

\* The segments of serialized are summed up, before the loop.
Measure ==
  /\ pc = "size"
  /\ size' = IF serialized \in live THEN 1 ELSE 0
  /\ pc' = "head"
  /\ UNCHANGED <<job, i, live, serialized, reader, decoded, result>>

Iterate_Past ==
  /\ pc = "head" /\ i <= Iterations
  /\ i' = i + 1
  /\ pc' = "build"
  /\ UNCHANGED <<job, live, serialized, reader, decoded, size, result>>
Iterate ==
  /\ pc = "head" /\ i < Iterations
  /\ i' = i + 1
  /\ pc' = "build"
  /\ UNCHANGED <<job, live, serialized, reader, decoded, size, result>>

\* The iteration's builder and reader are destroyed.
EndIteration ==
  /\ pc = "end"
  /\ live' = live \ {i + 1}
  /\ reader' = 0
  /\ pc' = "head"
  /\ UNCHANGED <<job, i, serialized, decoded, size, result>>

\* The size of a Result is counted in images.
Return ==
  /\ pc = "head" /\ i = Iterations
  /\ result' = <<"capnproto", size>>
  /\ live' = {}
  /\ pc' = "returned"
  /\ UNCHANGED <<job, i, serialized, reader, decoded, size>>

\* The library or the allocator throws: the stack is unwound.
Throw ==
  /\ pc \in {"build", "segments", "open", "read"}
  /\ live' = {}
  /\ pc' = "thrown"
  /\ UNCHANGED <<job, i, serialized, reader, decoded, size, result>>

Next == \/ Build \/ Segments \/ Open \/ Read \/ Pass \/ Reject \/ Measure
        \/ Iterate \/ EndIteration \/ Return \/ Throw

-----------------------------------------------------------------------------
(* Properties *)

TypeOK ==
  /\ job \in Jobs
  /\ pc \in {"build", "segments", "open", "read", "check", "size", "head", "end"} \cup Ended
  /\ i \in 0 .. Iterations
  /\ live \subseteq 1 .. Iterations + 1
  /\ serialized \in 0 .. Iterations + 1 /\ reader \in 0 .. Iterations + 1
  /\ decoded \in 0 .. Iterations + 1
  /\ size \in {0, 1}
  /\ result \in {<<>>} \cup ({"capnproto"} \X {0, 1})

\* What the check is able to see.
Trusted == {j \in Jobs : j.ids # "count"}
Stage == StageBefore({"size", "head"})

\* Wherever segments are read, through serialized or through a reader of it,
\* the builder that owns them exists; and no builder outlives its scope.
LiveSegments ==
  /\ pc \in {"open", "size"} => serialized \in live
  /\ pc \in {"read", "check"} => reader \in live
  /\ pc = "head" => live = {1}
  /\ pc \in Ended => live = {}

=============================================================================
