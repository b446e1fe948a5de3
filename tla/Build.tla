-------------------------------- MODULE Build --------------------------------
(***************************************************************************)
(* The build of CMakeLists.txt, which make runs in any order the           *)
(* dependencies allow, again and again: libraries are installed, code is   *)
(* generated by their generators from the schemas, all is compiled.  In    *)
(* between schemas are edited and libraries upgraded; a build may fail or  *)
(* be interrupted anywhere.  The generated files lie in the source tree.   *)
(***************************************************************************)
EXTENDS Naturals, FiniteSets

CONSTANTS
  Libraries,    \* the external projects built
  Versions,     \* of a library
  MaxEdits,     \* bound: edits of schemas
  MaxFailures   \* bound: builds that fail

ASSUME BoundsAssumption == MaxEdits \in Nat /\ MaxFailures \in Nat /\ Versions \subseteq Nat \ {0}

\* Those with a generator.
Generators == Libraries \cap {"thrift", "protobuf", "capnproto", "avro", "flatbuffers"}

\* avro writes one header, which is the OUTPUT of its command; flatbuffers too.
HeaderOnly == {"avro", "flatbuffers"}

DEPENDS(l) == IF l \in {"thrift", "avro"} THEN Libraries \cap {"boost"} ELSE {}

VARIABLES
  wanted,      \* the version of each library CMakeLists.txt asks for
  installed,   \* and the one installed, 0 if none
  schema,      \* how often each schema has been edited
  newer,       \* the schemas newer than the OUTPUT generated from them
  output,      \* the OUTPUT of each command: what it was generated from, and by,
  header,      \* and the header that comes with it, <<>> if there is none
  build,       \* "running", "failed", "done", or "out of date" after a change
  failures     \* builds failed so far

vars == <<wanted, installed, schema, newer, output, header, build, failures>>
tree == <<wanted, schema>>

\* A fresh checkout: the generated files are those committed, current, with
\* times in any order.
Init ==
  /\ wanted \in [Libraries -> Versions]
  /\ installed = [l \in Libraries |-> 0]
  /\ schema = [g \in Generators |-> 0]
  /\ newer \in SUBSET Generators
  /\ output = [g \in Generators |-> <<0, wanted[g]>>] /\ header = output
  /\ build = "running" /\ failures = 0

Ready(l) == installed[l] = wanted[l]
Install(l) ==
  /\ build = "running" /\ ~Ready(l) /\ \A d \in DEPENDS(l) : Ready(d)
  /\ installed' = [installed EXCEPT ![l] = wanted[l]]
  /\ UNCHANGED <<tree, newer, output, header, build, failures>>

\* add_dependencies: the commands of the target come after all libraries.
AllReady == \A l \in Libraries : Ready(l)

\* add_custom_command: run when the OUTPUT is missing or older than the schema,
\* whatever the generator.
Outdated_Always(g) == TRUE
Outdated_Missing(g) == output[g] = <<>>
Outdated(g) == output[g] = <<>> \/ g \in newer
Generate_First(g) ==
  /\ build = "running" /\ Outdated(g)
  /\ output' = [output EXCEPT ![g] = <<schema[g], installed[g]>>]
  /\ header' = [header EXCEPT ![g] = <<schema[g], installed[g]>>]
  /\ newer' = newer \ {g}
  /\ UNCHANGED <<tree, installed, build, failures>>
Generate(g) ==
  /\ build = "running" /\ AllReady /\ Outdated(g)
  /\ output' = [output EXCEPT ![g] = <<schema[g], installed[g]>>]
  /\ header' = [header EXCEPT ![g] = <<schema[g], installed[g]>>]
  /\ newer' = newer \ {g}
  /\ UNCHANGED <<tree, installed, build, failures>>

\* What the generated headers say to the compiler: that of capnproto wants the
\* library of its generator, that of protobuf none older, and none so new that
\* it no longer takes the header, which the library says; the others do not ask.
Accepts_Newer(g) ==
  /\ header[g] # <<>>
  /\ g \in {"capnproto", "protobuf"} => installed[g] >= header[g][2]
Accepts(g) ==
  /\ header[g] # <<>>
  /\ g = "capnproto" => installed[g] = header[g][2]
  /\ g = "protobuf" => installed[g] >= header[g][2]
TooNew(g) == header[g] # <<>> /\ g = "protobuf" /\ installed[g] > header[g][2]

Compile ==
  /\ build = "running" /\ AllReady /\ \A g \in Generators : ~Outdated(g)
  /\ \A g \in Generators : Accepts(g)
  /\ build' = "done"
  /\ UNCHANGED <<tree, installed, newer, output, header, failures>>

\* A step fails for a reason of its own, or the code does not compile.
Fail ==
  /\ build = "running" /\ failures < MaxFailures
  /\ build' = "failed" /\ failures' = failures + 1
  /\ UNCHANGED <<tree, installed, newer, output, header>>
CompileError ==
  /\ build = "running" /\ AllReady /\ \A g \in Generators : ~Outdated(g)
  /\ \E g \in Generators : ~Accepts(g) \/ TooNew(g)
  /\ build' = "failed"
  /\ UNCHANGED <<tree, installed, newer, output, header, failures>>

\* A generator is interrupted, by a signal that make handles: make removes its
\* OUTPUT, not another header.
Interrupt(g) ==
  /\ build = "running" /\ AllReady /\ Outdated(g) /\ failures < MaxFailures
  /\ output' = [output EXCEPT ![g] = <<>>]
  /\ header' \in {[header EXCEPT ![g] = h] :
                   h \in IF g \in HeaderOnly THEN {<<>>} ELSE {header[g], <<schema[g], installed[g]>>}}
  /\ build' = "failed" /\ failures' = failures + 1
  /\ UNCHANGED <<tree, installed, newer>>

Step == (\E l \in Libraries : Install(l)) \/ (\E g \in Generators : Generate(g)) \/ Compile \/ CompileError

\* Between builds.
Edit(g) ==
  /\ build # "running" /\ schema[g] < MaxEdits
  /\ schema' = [schema EXCEPT ![g] = @ + 1]
  /\ newer' = newer \cup {g} /\ build' = "out of date"
  /\ UNCHANGED <<wanted, installed, output, header, failures>>

Upgrade(l, v) ==
  /\ build # "running" /\ wanted[l] # v
  /\ wanted' = [wanted EXCEPT ![l] = v]
  /\ build' = "out of date"
  /\ UNCHANGED <<installed, schema, newer, output, header, failures>>

Run ==
  /\ build # "running"
  /\ build' = "running"
  /\ UNCHANGED <<tree, installed, newer, output, header, failures>>

Next ==
  \/ Step \/ Fail \/ Run
  \/ \E g \in Generators : Interrupt(g) \/ Edit(g)
  \/ \E l \in Libraries, v \in Versions : Upgrade(l, v)

\* make does what it can; nobody has to edit, upgrade or run it again.
Spec == Init /\ [][Next]_vars /\ WF_vars(Step)

-----------------------------------------------------------------------------
(* Properties *)

TypeOK ==
  /\ wanted \in [Libraries -> Versions] /\ installed \in [Libraries -> Versions \cup {0}]
  /\ schema \in [Generators -> 0 .. MaxEdits] /\ newer \subseteq Generators
  /\ {output, header} \subseteq [Generators -> {<<>>} \cup ((0 .. MaxEdits) \X Versions)]
  /\ build \in {"running", "failed", "done", "out of date"} /\ failures \in 0 .. MaxFailures

(***************************************************************************)
(* A program that was built was built from the schemas as they are, both   *)
(* the OUTPUT and the header beside it, which no rule names: however often *)
(* builds have failed or generators were interrupted before.               *)
(***************************************************************************)
CurrentSchema ==
  build = "done" => \A g \in Generators : output[g][1] = schema[g] /\ header[g][1] = schema[g]

(***************************************************************************)
(* No command depends on its generator: after an upgrade the code stays    *)
(* that of the old one.  Where its header asks, "you must use the same     *)
(* version of the Cap'n Proto compiler and library", none is built that    *)
(* way, and the two files are always of one generator.                     *)
(***************************************************************************)
VersionsAgree ==
  build = "done" => \A g \in Generators :
    /\ output[g] = header[g]
    /\ g = "capnproto" => output[g][2] = installed[g]
    /\ g = "protobuf" => output[g][2] <= installed[g]

(* Every build ends: no library waits for itself. *)
BuildEnds == build = "running" ~> build # "running"
=============================================================================
