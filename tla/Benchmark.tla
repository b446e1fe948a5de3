------------------------------ MODULE Benchmark ------------------------------
(***************************************************************************)
(* One execution of src/benchmark.cpp: parse_args, the chain of            *)
(* conditional tests of main, print_results and the exit.  A serialization *)
(* test is one step that either returns its Result or throws; RoundTrip    *)
(* and the modules that implement it open that step.                       *)
(***************************************************************************)
EXTENDS Naturals, Sequences, Functions

CONSTANT
  CommandLines   \* the command lines the program may be started with

(***************************************************************************)
(* A command line as cxxopts leaves it: whether parsing it throws, the     *)
(* flags, every value given to -i and to -s (a value of -s is the sequence *)
(* of its comma-separated pieces, never empty), and the arguments that     *)
(* belong to no option, which the program never looks at.                  *)
(***************************************************************************)
IsCommandLine(c) ==
  /\ c.malformed \in BOOLEAN /\ c.help \in BOOLEAN
  /\ c.list \in BOOLEAN /\ c.csv \in BOOLEAN
  /\ c.iterations \in Seq(Nat)
  /\ c.serializers \in Seq(Seq(STRING) \ {<<>>})
  /\ c.positional \in Seq(STRING)

ASSUME CommandLinesAssumption == \A c \in CommandLines : IsCommandLine(c)

\* parsed_opts[name].as<T>(): the value given last.
As(values) == values[Len(values)]

valid_serializers_Short ==
  { "thrift-binary", "thrift-compact", "protobuf", "boost", "msgpack",
    "cereal", "avro", "capnproto", "flatbuffers", "yas" }
valid_serializers_Long ==
  valid_serializers_Short \cup {"yas-compact", "json"}

\* The names -s accepts and -l lists; the tests below are a list of their own.
valid_serializers ==
  { "thrift-binary", "thrift-compact", "protobuf", "boost", "msgpack",
    "cereal", "avro", "capnproto", "flatbuffers", "yas", "yas-compact" }

\* The tag thrift_serialization_test reports for the protocol it is given.
ThriftTag(proto) == IF proto = "Binary" THEN "thrift-binary" ELSE "thrift-compact"

\* The tag yas_serialization_test reports for its template argument.
YasTag(opts) == IF "compacted" \in opts THEN "yas-compact" ELSE "yas"

\* The if chain of main: the name each test is run for, the name it reports.
Tests == <<
  [key |-> "thrift-binary",  name |-> ThriftTag("Binary")],
  [key |-> "thrift-compact", name |-> ThriftTag("Compact")],
  [key |-> "protobuf",       name |-> "protobuf"],
  [key |-> "capnproto",      name |-> "capnproto"],
  [key |-> "boost",          name |-> "boost"],
  [key |-> "msgpack",        name |-> "msgpack"],
  [key |-> "cereal",         name |-> "cereal"],
  [key |-> "avro",           name |-> "avro"],
  [key |-> "flatbuffers",    name |-> "flatbuffers"],
  [key |-> "yas",            name |-> YasTag({"binary", "no_header"})],
  [key |-> "yas-compact",    name |-> YasTag({"binary", "no_header", "compacted"})] >>

Order == [k \in DOMAIN Tests |-> Tests[k].key]
Names == Range(Order)

VARIABLES
  cmd,       \* the command line
  pc,        \* "verify", "parse", "run", "print", "shutdown" or "exited"
  args,      \* the Args that parse_args returns
  next,      \* the test of the chain control is at, 0 before main's try block
  results,   \* main's vector of results
  out,       \* standard output: csv header, rows, help or list
  status     \* "running", "success" or "failure"

vars == <<cmd, pc, args, next, results, out, status>>

Init ==
  /\ cmd \in CommandLines
  /\ pc = "verify"
  /\ args = [iterations |-> 0, serializers |-> {}, csv |-> FALSE]
  /\ next = 0
  /\ results = <<>>
  /\ out = [header |-> FALSE, rows |-> <<>>, text |-> "none"]
  /\ status = "running"

Exit(s) == pc' = "exited" /\ status' = s

(***************************************************************************)
(* GOOGLE_PROTOBUF_VERIFY_VERSION: the linked library accepts the headers  *)
(* or the process dies before it looks at its arguments.                   *)
(***************************************************************************)
VerifyVersion ==
  /\ pc = "verify"
  /\ pc' = "parse"
  /\ UNCHANGED <<cmd, args, next, results, out, status>>

VersionMismatch ==
  /\ pc = "verify"
  /\ Exit("failure")
  /\ UNCHANGED <<cmd, args, next, results, out>>

(***************************************************************************)
(* parse_args, in the order of its early exits.                            *)
(***************************************************************************)
Unparsable == pc = "parse" /\ cmd.malformed
Parsed == pc = "parse" /\ ~cmd.malformed

\* cxxopts throws: an unknown option, a missing or an unreadable value.
ParseError ==
  /\ Unparsable
  /\ Exit("failure")
  /\ UNCHANGED <<cmd, args, next, results, out>>

ShowHelp ==
  /\ Parsed /\ cmd.help
  /\ out' = [out EXCEPT !.text = "help"]
  /\ Exit("success")
  /\ UNCHANGED <<cmd, args, next, results>>

ListSerializers ==
  /\ Parsed /\ ~cmd.help /\ cmd.list
  /\ out' = [out EXCEPT !.text = "list"]
  /\ Exit("success")
  /\ UNCHANGED <<cmd, args, next, results>>

ToMeasure == Parsed /\ ~cmd.help /\ ~cmd.list

MissingIterations ==
  /\ ToMeasure /\ cmd.iterations = <<>>
  /\ Exit("failure")
  /\ UNCHANGED <<cmd, args, next, results, out>>

\* boost::split into a set: {} only when -s was not given at all.
Split_Compress(c) ==
  IF c.serializers = <<>> THEN {} ELSE Range(As(c.serializers)) \ {""}
Split(c) == IF c.serializers = <<>> THEN {} ELSE Range(As(c.serializers))

\* An unknown piece: the list of the supported ones goes to standard output.
RejectSerializer ==
  /\ ToMeasure /\ cmd.iterations # <<>>
  /\ ~(Split(cmd) \subseteq valid_serializers)
  /\ out' = [out EXCEPT !.text = "list"]
  /\ Exit("failure")
  /\ UNCHANGED <<cmd, args, next, results>>

AcceptArgs ==
  /\ ToMeasure /\ cmd.iterations # <<>>
  /\ Split(cmd) \subseteq valid_serializers
  /\ args' = [iterations |-> As(cmd.iterations), serializers |-> Split(cmd), csv |-> cmd.csv]
  /\ pc' = "run" /\ next' = 1
  /\ UNCHANGED <<cmd, results, out, status>>

(***************************************************************************)
(* main's try block: the tests one after the other.                        *)
(***************************************************************************)
Selected(k) == args.serializers = {} \/ Tests[k].key \in args.serializers

AtTest == pc = "run" /\ next <= Len(Tests)

\* The test returns; its Result is appended.
RunTest_Front ==
  /\ AtTest /\ Selected(next)
  /\ results' = <<Tests[next].name>> \o results
  /\ next' = next + 1
  /\ UNCHANGED <<cmd, pc, args, out, status>>
RunTest ==
  /\ AtTest /\ Selected(next)
  /\ results' = Append(results, Tests[next].name)
  /\ next' = next + 1
  /\ UNCHANGED <<cmd, pc, args, out, status>>

SkipTest_Stay ==
  /\ AtTest /\ ~Selected(next)
  /\ UNCHANGED vars
SkipTest ==
  /\ AtTest /\ ~Selected(next)
  /\ next' = next + 1
  /\ UNCHANGED <<cmd, pc, args, results, out, status>>

\* What print_results shows of the results.
Rows == [i \in DOMAIN results |-> [name |-> results[i], iterations |-> args.iterations]]

\* The test throws: main reports the exception and drops every result so far.
TestThrows_Print ==
  /\ AtTest /\ Selected(next)
  /\ out' = [out EXCEPT !.rows = Rows]
  /\ Exit("failure")
  /\ UNCHANGED <<cmd, args, next, results>>
TestThrows ==
  /\ AtTest /\ Selected(next)
  /\ Exit("failure")
  /\ UNCHANGED <<cmd, args, next, results, out>>

EndOfTests ==
  /\ pc = "run" /\ next > Len(Tests)
  /\ pc' = "print"
  /\ UNCHANGED <<cmd, args, next, results, out, status>>

\* print_results(args, results).
PrintResults ==
  /\ pc = "print"
  /\ out' = [out EXCEPT !.header = args.csv, !.rows = Rows]
  /\ pc' = "shutdown"
  /\ UNCHANGED <<cmd, args, next, results, status>>

\* ShutdownProtobufLibrary, then main returns.
Return ==
  /\ pc = "shutdown"
  /\ Exit("success")
  /\ UNCHANGED <<cmd, args, next, results, out>>

Next ==
  \/ VerifyVersion \/ VersionMismatch
  \/ ParseError \/ ShowHelp \/ ListSerializers
  \/ MissingIterations \/ RejectSerializer \/ AcceptArgs
  \/ RunTest \/ SkipTest \/ TestThrows \/ EndOfTests
  \/ PrintResults \/ Return

\* A single thread that is never blocked: it keeps taking steps.
Spec == Init /\ [][Next]_vars /\ WF_vars(Next)

-----------------------------------------------------------------------------
(* Properties *)

TypeOK ==
  /\ cmd \in CommandLines
  /\ pc \in {"verify", "parse", "run", "print", "shutdown", "exited"}
  /\ args \in [iterations : Nat, serializers : SUBSET Names, csv : BOOLEAN]
  /\ next \in 0 .. Len(Tests) + 1
  /\ results \in Seq(Names)
  /\ out \in [header : BOOLEAN, rows : Seq([name : Names, iterations : Nat]),
              text : {"none", "help", "list"}]
  /\ status \in {"running", "success", "failure"}

\* What the user of command line c wants measured: the pieces of the last -s,
\* everything when there is no -s.
Request(c) ==
  IF c.serializers = <<>> THEN Names ELSE Range(c.serializers[Len(c.serializers)])

B == INSTANCE BenchmarkSpec WITH
       wanted <- IF next = 0 THEN {} ELSE Request(cmd),
       shown <- [i \in DOMAIN out.rows |-> out.rows[i].name]

(***************************************************************************)
(* Whenever rows have been printed they answer the command line: one row   *)
(* per requested serializer, in the order of the chain, each naming itself *)
(* and the requested number of iterations, under a header exactly in csv   *)
(* mode.  It relates the two lists of names, the splitting of -s and the   *)
(* tags computed inside the tests.                                         *)
(***************************************************************************)
ReportMatchesRequest ==
  pc = "shutdown" \/ (status = "success" /\ next # 0) =>
    /\ B!IsReport([i \in DOMAIN out.rows |-> out.rows[i].name], Request(cmd))
    /\ \A i \in DOMAIN out.rows :
         out.rows[i].iterations = cmd.iterations[Len(cmd.iterations)]
    /\ out.header = cmd.csv

(***************************************************************************)
(* While the tests run, the results are those of exactly the requested     *)
(* tests already passed: nothing that was not asked for is ever measured,  *)
(* not even in an execution that fails later.                              *)
(***************************************************************************)
OnlyRequestedMeasured ==
  next # 0 =>
    B!IsReport(results, {Order[k] : k \in {j \in DOMAIN Tests : j < next}} \cap Request(cmd))

(***************************************************************************)
(* parse_args refuses a request to measure only when an -i is missing or   *)
(* a piece of the last -s names no test: every serializer a test exists    *)
(* for can be asked for.                                                   *)
(***************************************************************************)
RefusalIsJustified ==
  [][pc = "parse" /\ status' = "failure" =>
       \/ cmd.malformed
       \/ cmd.iterations = <<>>
       \/ ~(Request(cmd) \subseteq Names)]_vars

\* An execution refines the promise made to the user: in particular a failure,
\* at whatever test it happens, has shown no row.
Implements == B!Spec

\* Every execution exits.
Terminates == <>(pc = "exited")

(***************************************************************************)
(* images/graphs.R:7 documents `./benchmark 1 $t` as the command that      *)
(* prints serializer t: a line with these two arguments and no option      *)
(* does not fail.                                                          *)
(***************************************************************************)
DocumentedInvocation ==
  [][pc = "parse" /\ ~cmd.malformed /\ (\E t \in Names : cmd.positional = <<"1", t>>)
       => status' # "failure"]_vars
=============================================================================
