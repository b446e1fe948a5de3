--------------------------- MODULE FlatbuffersTest ---------------------------
(***************************************************************************)
(* flatbuffers_serialization_test.  Every builder has a memory of its own; *)
(* an Offset is a position in it and says nothing of the builder it came   *)
(* from.  The vector of offsets, strings, is shared by the builder of the  *)
(* check and those of all iterations.                                      *)
(***************************************************************************)
EXTENDS SerializationTest, Functions

CONSTANT
  StringsCount   \* kStringsCount

VARIABLES
  builder,   \* the builder at hand: its number and how far it has come:
             \* "open", "vectors", "finished" or "released"
  strings,   \* the vector of offsets, each as the number of its builder
  vector,    \* the vector CreateVector(strings) has put into the builder
  buf,       \* the image copied out of the builder: its number and its strings
  size

vars == <<job, pc, i, builder, strings, vector, buf, decoded, size, result>>

NoImage == [number |-> 0, strings |-> <<>>]

Init ==
  /\ job \in Jobs
  /\ pc = "builder" /\ i = 0
  /\ builder = [number |-> 0, state |-> "released"]
  /\ strings = <<>> /\ vector = <<>>
  /\ buf = NoImage
  /\ decoded = 0 /\ size = 0
  /\ result = <<>>

\* A FlatBufferBuilder; in the loop, strings.clear() with it.
NewBuilder_Keep ==
  /\ pc = "builder"
  /\ builder' = [number |-> i + 1, state |-> "open"]
  /\ pc' = "strings"
  /\ UNCHANGED <<job, i, strings, vector, buf, decoded, size, result>>
NewBuilder ==
  /\ pc = "builder"
  /\ builder' = [number |-> i + 1, state |-> "open"]
  /\ strings' = IF i = 0 THEN strings ELSE <<>>
  /\ pc' = "strings"
  /\ UNCHANGED <<job, i, vector, buf, decoded, size, result>>

\* push_back(builder.CreateString(kStringValue)), StringsCount times.
CreateStrings ==
  /\ pc = "strings"
  /\ strings' = strings \o [k \in 1 .. StringsCount |-> builder.number]
  /\ pc' = "vectors"
  /\ UNCHANGED <<job, i, builder, vector, buf, decoded, size, result>>

\* CreateVector of the ids and of the offsets.
CreateVectors ==
  /\ pc = "vectors"
  /\ vector' = strings
  /\ builder' = [builder EXCEPT !.state = "vectors"]
  /\ pc' = "finish"
  /\ UNCHANGED <<job, i, strings, buf, decoded, size, result>>

\* CreateRecord and Finish.
Finish ==
  /\ pc = "finish"
  /\ builder' = [builder EXCEPT !.state = "finished"]
  /\ pc' = "copy"
  /\ UNCHANGED <<job, i, strings, vector, buf, decoded, size, result>>

\* buf is built from GetBufferPointer() and GetSize().
Copy ==
  /\ pc = "copy"
  /\ buf' = IF builder.state = "finished"
              THEN [number |-> builder.number, strings |-> vector]
              ELSE NoImage
  /\ pc' = "read"
  /\ UNCHANGED <<job, i, builder, strings, vector, decoded, size, result>>

\* GetRecord(buf.data()): r2 points into buf.
Read ==
  /\ pc = "read"
  /\ decoded' = IF Range(buf.strings) \subseteq {buf.number} THEN buf.number ELSE 0
  /\ pc' = IF i = 0 THEN "check" ELSE "release"
  /\ UNCHANGED <<job, i, builder, strings, vector, buf, size, result>>

\* The check compares the lengths of the two vectors.
Ok == decoded # 0 /\ job.ids # "count" /\ job.strings # "count" /\ Len(buf.strings) = StringsCount

Pass ==
  /\ pc = "check" /\ Ok
  /\ pc' = "size"
  /\ UNCHANGED <<job, i, builder, strings, vector, buf, decoded, size, result>>

Reject ==
  /\ pc = "check" /\ ~Ok
  /\ pc' = "rejected"
  /\ UNCHANGED <<job, i, builder, strings, vector, buf, decoded, size, result>>

\* builder.GetSize(), before the buffer is released.
Measure ==
  /\ pc = "size"
  /\ size' = IF builder.state = "finished" THEN 1 ELSE 0
  /\ pc' = "release"
  /\ UNCHANGED <<job, i, builder, strings, vector, buf, decoded, result>>

\* builder.ReleaseBufferPointer(): the detached buffer is discarded.
Release ==
  /\ pc = "release"
  /\ builder' = [builder EXCEPT !.state = "released"]
  /\ pc' = "head"
  /\ UNCHANGED <<job, i, strings, vector, buf, decoded, size, result>>

Iterate ==
  /\ pc = "head" /\ i < Iterations
  /\ i' = i + 1
  /\ pc' = "builder"
  /\ UNCHANGED <<job, builder, strings, vector, buf, decoded, size, result>>

\* The size of a Result is counted in images.
Return ==
  /\ pc = "head" /\ i = Iterations
  /\ result' = <<"flatbuffers", size>>
  /\ pc' = "returned"
  /\ UNCHANGED <<job, i, builder, strings, vector, buf, decoded, size>>

\* The allocator throws.
Throw ==
  /\ pc \in {"builder", "strings", "vectors", "finish", "copy"}
  /\ pc' = "thrown"
  /\ UNCHANGED <<job, i, builder, strings, vector, buf, decoded, size, result>>

Next == \/ NewBuilder \/ CreateStrings \/ CreateVectors \/ Finish \/ Copy \/ Read
        \/ Pass \/ Reject \/ Measure \/ Release \/ Iterate \/ Return \/ Throw

-----------------------------------------------------------------------------
(* Properties *)

TypeOK ==
  /\ job \in Jobs
  /\ pc \in {"builder", "strings", "vectors", "finish", "copy", "read", "check", "size",
             "release", "head"} \cup Ended
  /\ i \in 0 .. Iterations
  /\ builder \in [number : 0 .. Iterations + 1,
                  state : {"open", "vectors", "finished", "released"}]
  /\ strings \in Seq(1 .. Iterations + 1) /\ vector \in Seq(1 .. Iterations + 1)
  /\ buf \in [number : 0 .. Iterations + 1, strings : Seq(1 .. Iterations + 1)]
  /\ decoded \in 0 .. Iterations + 1
  /\ size \in {0, 1}
  /\ result \in {<<>>} \cup ({"flatbuffers"} \X {0, 1})

\* What the check is able to see.
Trusted == {j \in Jobs : j.ids # "count" /\ j.strings # "count"}
Stage == StageBefore({"size", "release", "head"})

\* What goes into a builder was made by it: when the vector of strings is
\* built, every offset in it is one of the builder at hand and there are as
\* many as the record has strings, however often the vector has been reused.
OwnOffsets ==
  pc = "vectors" => strings = [k \in 1 .. StringsCount |-> builder.number]

=============================================================================
