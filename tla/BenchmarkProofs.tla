--------------------------- MODULE BenchmarkProofs ---------------------------
(* Theorems about Benchmark, for every set of command lines. *)
EXTENDS Benchmark, TLAPS

\* The chain of main and the list of valid serializers name the same tests,
\* each once, and each test reports the name it is run for.
LEMMA TestsFacts ==
  /\ Len(Tests) = 11 /\ DOMAIN Tests = 1 .. 11
  /\ \A k \in 1 .. 11 : Tests[k].name = Order[k] /\ Tests[k].key = Order[k]
  /\ Order \in Seq(Names) /\ DOMAIN Order = 1 .. 11
  /\ \A k, l \in 1 .. 11 : Order[k] = Order[l] => k = l
  /\ valid_serializers = Names
<1> DEFINE T(n) == [key |-> n, name |-> n]
<1>1. Tests = << T("thrift-binary"), T("thrift-compact"), T("protobuf"), T("capnproto"),
                 T("boost"), T("msgpack"), T("cereal"), T("avro"), T("flatbuffers"),
                 T("yas"), T("yas-compact") >>
  BY DEF Tests, ThriftTag, YasTag
<1>2. Len(Tests) = 11 /\ DOMAIN Tests = 1 .. 11
  BY <1>1
<1>3. DOMAIN Order = 1 .. 11 /\ \A k \in 1 .. 11 : Order[k] = Tests[k].key
  BY <1>2 DEF Order
<1>4. /\ Tests[1] = T("thrift-binary") /\ Tests[2] = T("thrift-compact")
      /\ Tests[3] = T("protobuf") /\ Tests[4] = T("capnproto")
      /\ Tests[5] = T("boost") /\ Tests[6] = T("msgpack") /\ Tests[7] = T("cereal")
      /\ Tests[8] = T("avro") /\ Tests[9] = T("flatbuffers") /\ Tests[10] = T("yas")
      /\ Tests[11] = T("yas-compact")
  BY <1>1
<1>5. \A k \in 1 .. 11 : k = 1 \/ k = 2 \/ k = 3 \/ k = 4 \/ k = 5 \/ k = 6
                         \/ k = 7 \/ k = 8 \/ k = 9 \/ k = 10 \/ k = 11
  OBVIOUS
<1> HIDE DEF T
<1>6. \A n : T(n).key = n /\ T(n).name = n
  BY DEF T
<1>7. /\ Order[1] = "thrift-binary" /\ Order[2] = "thrift-compact"
      /\ Order[3] = "protobuf" /\ Order[4] = "capnproto"
      /\ Order[5] = "boost" /\ Order[6] = "msgpack" /\ Order[7] = "cereal"
      /\ Order[8] = "avro" /\ Order[9] = "flatbuffers" /\ Order[10] = "yas"
      /\ Order[11] = "yas-compact"
  BY <1>3, <1>4, <1>6
<1>8. \A k \in 1 .. 11 : Tests[k].name = Order[k] /\ Tests[k].key = Order[k]
  <2>1. TAKE k \in 1 .. 11
  <2>2. \E n : Tests[k] = T(n)
    BY <1>4, <1>5
  <2> QED
    BY <2>2, <1>6, <1>3
<1>10. \A k, l \in 1 .. 11 : Order[k] = Order[l] => k = l
  BY <1>7, <1>5
<1>11. valid_serializers = Names
  <2>1. Names = {Order[k] : k \in 1 .. 11}
    BY <1>3 DEF Names, Range
  <2>2. \A n \in valid_serializers : n \in Names
    BY <2>1, <1>7 DEF valid_serializers
  <2>3. \A k \in 1 .. 11 : Order[k] \in valid_serializers
    BY <1>7, <1>5 DEF valid_serializers
  <2> QED
    BY <2>1, <2>2, <2>3
<1>12. Order \in Seq(Names)
  <2>1. Order = [k \in 1 .. 11 |-> Tests[k].key]
    BY <1>2 DEF Order
  <2>2. \A k \in 1 .. 11 : Tests[k].key \in Names
    BY <1>3 DEF Names, Range
  <2> QED
    BY <2>1, <2>2
<1> QED
  BY <1>2, <1>3, <1>8, <1>10, <1>11, <1>12
(***************************************************************************)
(* The inductive invariant: once the arguments are accepted they are the   *)
(* request of the command line, and rows exist only after the whole chain. *)
(***************************************************************************)
Printed == pc = "shutdown" \/ (status = "success" /\ next # 0)

Accepted ==
  /\ pc \in {"run", "print", "shutdown", "exited"}
  /\ cmd.iterations # <<>>
  /\ Split(cmd) \subseteq valid_serializers
  /\ args = [iterations |-> As(cmd.iterations), serializers |-> Split(cmd), csv |-> cmd.csv]

IInv ==
  /\ TypeOK
  /\ status = "running" <=> pc # "exited"
  /\ next = 0 => pc \in {"verify", "parse", "exited"} /\ results = <<>>
  /\ next # 0 => Accepted
  /\ OnlyRequestedMeasured
  /\ pc = "print" => next = 12
  /\ Printed => next = 12 /\ out.rows = Rows /\ out.header = args.csv
  /\ ~Printed => out.rows = <<>>

\* The last value given to an option is one of its values.
LEMMA AsValue ==
  ASSUME NEW S, NEW values \in Seq(S), values # <<>>
  PROVE  As(values) \in S
BY DEF As

\* A nonempty sequence has an element.
LEMMA RangeNonempty ==
  ASSUME NEW S, NEW q \in Seq(S), q # <<>>
  PROVE  Range(q) # {}
<1>1. Len(q) \in Nat /\ Len(q) # 0 /\ DOMAIN q = 1 .. Len(q)
  OBVIOUS
<1>2. q[1] \in Range(q)
  BY <1>1 DEF Range
<1> QED
  BY <1>2

\* A test is run exactly when its name is requested.
LEMMA SelectedIsRequested ==
  ASSUME next # 0, Accepted, cmd \in CommandLines, NEW k \in 1 .. 11
  PROVE  Selected(k) <=> Order[k] \in Request(cmd)
<1>1. Tests[k].key = Order[k] /\ Order[k] \in Names
  BY TestsFacts DEF Names, Range
<1>2. args.serializers = Split(cmd)
  BY DEF Accepted
<1>3. CASE cmd.serializers = <<>>
  BY <1>1, <1>2, <1>3 DEF Selected, Split, Request
<1>4. CASE cmd.serializers # <<>>
  <2>1. cmd.serializers \in Seq(Seq(STRING) \ {<<>>})
    BY CommandLinesAssumption DEF IsCommandLine
  <2>2. As(cmd.serializers) \in Seq(STRING) \ {<<>>}
    BY <1>4, <2>1, AsValue
  <2>3. Range(As(cmd.serializers)) # {}
    BY <2>2, RangeNonempty
  <2> QED
    BY <1>1, <1>2, <1>4, <2>3 DEF Selected, Split, Request, As
<1> QED
  BY <1>3, <1>4

\* An accepted request asks for at least one test, and only for tests.
LEMMA RequestIsNamed ==
  ASSUME cmd \in CommandLines, Split(cmd) \subseteq valid_serializers
  PROVE  Request(cmd) # {} /\ Request(cmd) \subseteq Names
<1>1. CASE cmd.serializers = <<>>
  <2>1. Order[1] \in Names
    BY TestsFacts DEF Names, Range
  <2> QED
    BY <1>1, <2>1 DEF Request
<1>2. CASE cmd.serializers # <<>>
  <2>1. cmd.serializers \in Seq(Seq(STRING) \ {<<>>})
    BY CommandLinesAssumption DEF IsCommandLine
  <2>2. As(cmd.serializers) \in Seq(STRING) \ {<<>>}
    BY <1>2, <2>1, AsValue
  <2>3. Range(As(cmd.serializers)) # {}
    BY <2>2, RangeNonempty
  <2> QED
    BY <1>2, <2>3, TestsFacts DEF Split, Request, As
<1> QED
  BY <1>1, <1>2

\* Appending the next test of the chain keeps the results a report.
LEMMA ReportGrows ==
  ASSUME NEW s \in Seq(Names), NEW W, NEW n \in 1 .. 11,
         B!IsReport(s, {Order[k] : k \in {j \in 1 .. 11 : j < n}} \cap W),
         Order[n] \in W
  PROVE  B!IsReport(Append(s, Order[n]), {Order[k] : k \in {j \in 1 .. 11 : j < n + 1}} \cap W)
<1> DEFINE V == {Order[k] : k \in {j \in 1 .. 11 : j < n}} \cap W
           V2 == {Order[k] : k \in {j \in 1 .. 11 : j < n + 1}} \cap W
           t == Append(s, Order[n])
<1>1. Order[n] \in Names /\ DOMAIN Order = 1 .. 11
  BY TestsFacts DEF Names, Range
<1>2. /\ t \in Seq(Names) /\ Len(t) = Len(s) + 1 /\ t[Len(s) + 1] = Order[n]
      /\ \A i \in 1 .. Len(s) : t[i] = s[i]
      /\ DOMAIN s = 1 .. Len(s) /\ DOMAIN t = 1 .. Len(s) + 1
  BY <1>1
<1>3. V2 = V \cup {Order[n]}
  OBVIOUS
<1>4. /\ Range(s) = V
      /\ \A i, j \in DOMAIN s : \A k, l \in DOMAIN Order :
           i < j /\ s[i] = Order[k] /\ s[j] = Order[l] => k < l
  BY DEF B!IsReport, B!Range, Range
<1>5. Range(t) = Range(s) \cup {Order[n]}
  BY <1>2 DEF Range
<1>6. ASSUME NEW i \in DOMAIN t, NEW j \in DOMAIN t, NEW k \in DOMAIN Order, NEW l \in DOMAIN Order,
             i < j, t[i] = Order[k], t[j] = Order[l]
      PROVE  k < l
  <2>1. i \in 1 .. Len(s) /\ t[i] = s[i] /\ Len(s) \in Nat
    BY <1>2, <1>6
  <2>2. CASE j \in 1 .. Len(s)
    BY <1>2, <1>4, <1>6, <2>1, <2>2
  <2>3. CASE j = Len(s) + 1
    <3>1. l = n
      BY <1>1, <1>2, <1>6, <2>3, TestsFacts
    <3>2. s[i] \in V
      BY <1>4, <1>2, <2>1 DEF Range
    <3>3. PICK m \in 1 .. 11 : m < n /\ s[i] = Order[m]
      BY <3>2
    <3>4. k = m
      <4>1. k \in 1 .. 11 /\ Order[k] = Order[m]
        BY <1>1, <1>6, <2>1, <3>3
      <4> QED
        BY <4>1, <3>3, TestsFacts
    <3> QED
      BY <3>1, <3>3, <3>4
  <2> QED
    BY <1>2, <2>1, <2>2, <2>3
<1> QED
  BY <1>3, <1>4, <1>5, <1>6 DEF B!IsReport, B!Range, Range

\* The inductive invariant holds initially.
LEMMA InitIInv == Init => IInv
<1> SUFFICES ASSUME Init PROVE IInv
  OBVIOUS
<1>1. TypeOK
  BY TestsFacts DEF Init, TypeOK
<1> QED
  BY <1>1 DEF Init, IInv, OnlyRequestedMeasured, Printed

\* The rows of well-typed results are well typed.
LEMMA RowsType ==
  ASSUME TypeOK
  PROVE  Rows \in Seq([name : Names, iterations : Nat])
<1>1. DOMAIN results = 1 .. Len(results) /\ Len(results) \in Nat /\ args.iterations \in Nat
  BY DEF TypeOK
<1>2. \A i \in 1 .. Len(results) : results[i] \in Names
  BY DEF TypeOK
<1>3. \A i \in 1 .. Len(results) :
        [name |-> results[i], iterations |-> args.iterations] \in [name : Names, iterations : Nat]
  BY <1>1, <1>2
<1>4. Rows = [i \in 1 .. Len(results) |-> [name |-> results[i], iterations |-> args.iterations]]
  BY <1>1 DEF Rows
<1> QED
  BY <1>1, <1>3, <1>4

\* At a test of the chain, it reports the name in its place.
LEMMA AtTestFacts ==
  ASSUME IInv, AtTest
  PROVE  /\ next \in 1 .. 11 /\ next # 0 /\ next + 1 # 0
         /\ next + 1 \in 0 .. Len(Tests) + 1
         /\ Tests[next].name = Order[next] /\ Order[next] \in Names
<1>1. next # 0
  BY DEF IInv, AtTest
<1>2. Len(Tests) = 11 /\ DOMAIN Tests = 1 .. 11
  BY TestsFacts
<1>3. next \in 0 .. Len(Tests) + 1 /\ next <= Len(Tests)
  BY DEF IInv, TypeOK, AtTest
<1>4. next \in 1 .. 11 /\ next + 1 # 0 /\ next + 1 \in 0 .. Len(Tests) + 1
  BY <1>1, <1>2, <1>3
<1>5. Tests[next].name = Order[next] /\ DOMAIN Order = 1 .. 11
  BY <1>4, TestsFacts
<1>6. Order[next] \in Names
  BY <1>4, <1>5 DEF Names, Range
<1> QED
  BY <1>1, <1>4, <1>5, <1>6

\* Type correctness is kept by every step.
LEMMA StepType ==
  ASSUME IInv, [Next]_vars
  PROVE  TypeOK'
<1> USE TestsFacts DEF IInv, TypeOK, Exit, Parsed, ToMeasure
<1>1. CASE VerifyVersion BY <1>1 DEF VerifyVersion
<1>2. CASE VersionMismatch BY <1>2 DEF VersionMismatch
<1>3. CASE ParseError BY <1>3 DEF ParseError
<1>4. CASE ShowHelp BY <1>4 DEF ShowHelp
<1>5. CASE ListSerializers BY <1>5 DEF ListSerializers
<1>6. CASE MissingIterations BY <1>6 DEF MissingIterations
<1>7. CASE RejectSerializer BY <1>7 DEF RejectSerializer
<1>8. CASE AcceptArgs
  <2>1. cmd.iterations \in Seq(Nat) /\ cmd.csv \in BOOLEAN
    BY CommandLinesAssumption DEF IsCommandLine
  <2>2. As(cmd.iterations) \in Nat
    BY <1>8, <2>1, AsValue DEF AcceptArgs
  <2>3. args' \in [iterations : Nat, serializers : SUBSET Names, csv : BOOLEAN]
    BY <1>8, <2>1, <2>2 DEF AcceptArgs
  <2> QED
    BY <1>8, <2>3 DEF AcceptArgs
<1>9. CASE RunTest
  <2>1. AtTest
    BY <1>9 DEF RunTest
  <2>2. next' \in 0 .. Len(Tests) + 1 /\ results' = Append(results, Order[next])
    BY <1>9, <2>1, AtTestFacts DEF RunTest
  <2>3. results' \in Seq(Names)
    BY <2>1, <2>2, AtTestFacts
  <2> QED
    BY <1>9, <2>2, <2>3 DEF RunTest
<1>10. CASE SkipTest BY <1>10, AtTestFacts DEF SkipTest
<1>11. CASE TestThrows BY <1>11 DEF TestThrows
<1>12. CASE EndOfTests BY <1>12 DEF EndOfTests
<1>13. CASE PrintResults
  <2>1. out' \in [header : BOOLEAN, rows : Seq([name : Names, iterations : Nat]),
                   text : {"none", "help", "list"}]
    BY <1>13, RowsType DEF PrintResults
  <2> QED
    BY <1>13, <2>1 DEF PrintResults
<1>14. CASE Return BY <1>14 DEF Return
<1>15. CASE UNCHANGED vars BY <1>15 DEF vars
<1> QED
  BY <1>1, <1>2, <1>3, <1>4, <1>5, <1>6, <1>7, <1>8, <1>9, <1>10, <1>11, <1>12, <1>13,
     <1>14, <1>15 DEF Next

\* The next result is the one of a requested test, in its place in the chain.
LEMMA RunTestReports ==
  ASSUME IInv, RunTest
  PROVE  OnlyRequestedMeasured'
<1>1. next \in 1 .. 11 /\ next # 0 /\ next' = next + 1 /\ next' # 0
  BY AtTestFacts DEF RunTest
<1>2. Order[next] \in Request(cmd) /\ Tests[next].name = Order[next]
  BY <1>1, AtTestFacts, TestsFacts, SelectedIsRequested DEF IInv, TypeOK, RunTest
<1>3. B!IsReport(results, {Order[k] : k \in {j \in 1 .. 11 : j < next}} \cap Request(cmd))
  BY <1>1, TestsFacts DEF IInv, OnlyRequestedMeasured
<1>4. results \in Seq(Names)
  BY DEF IInv, TypeOK
<1>5. B!IsReport(Append(results, Order[next]),
                 {Order[k] : k \in {j \in 1 .. 11 : j < next + 1}} \cap Request(cmd))
  BY <1>1, <1>2, <1>3, <1>4, ReportGrows
<1>6. results' = Append(results, Order[next]) /\ cmd' = cmd
  BY <1>2 DEF RunTest
<1>7. B!IsReport(results', {Order[k] : k \in {j \in 1 .. 11 : j < next'}} \cap Request(cmd'))
  BY <1>1, <1>5, <1>6
<1> QED
  BY <1>1, <1>7, TestsFacts DEF OnlyRequestedMeasured, B!IsReport

\* Skipping a test that is not requested leaves the results a report.
LEMMA SkipTestReports ==
  ASSUME IInv, SkipTest
  PROVE  OnlyRequestedMeasured'
<1>1. next \in 1 .. 11 /\ next # 0 /\ next' = next + 1 /\ next' # 0
  BY AtTestFacts DEF SkipTest
<1>2. Order[next] \notin Request(cmd)
  BY <1>1, TestsFacts, SelectedIsRequested DEF IInv, TypeOK, SkipTest
<1>3. {Order[k] : k \in {j \in 1 .. 11 : j < next + 1}} \cap Request(cmd)
        = {Order[k] : k \in {j \in 1 .. 11 : j < next}} \cap Request(cmd)
  BY <1>1, <1>2
<1>4. B!IsReport(results, {Order[k] : k \in {j \in 1 .. 11 : j < next + 1}} \cap Request(cmd))
  BY <1>1, <1>3, TestsFacts DEF IInv, OnlyRequestedMeasured
<1>5. results' = results /\ cmd' = cmd
  BY DEF SkipTest
<1>6. B!IsReport(results', {Order[k] : k \in {j \in 1 .. 11 : j < next'}} \cap Request(cmd'))
  BY <1>1, <1>4, <1>5
<1>7. DOMAIN Tests = 1 .. 11
  BY TestsFacts
<1> QED
  BY <1>6, <1>7 DEF OnlyRequestedMeasured, B!IsReport

\* The inductive invariant is kept by every step.
LEMMA StepIInv == IInv /\ [Next]_vars => IInv'
<1> SUFFICES ASSUME IInv, [Next]_vars PROVE IInv'
  OBVIOUS
<1>0. TypeOK'
  BY StepType
<1> USE <1>0 DEF IInv, Exit, Parsed, ToMeasure, Printed, Accepted, Rows
<1>1. CASE VerifyVersion
  BY <1>1 DEF VerifyVersion, OnlyRequestedMeasured
<1>2. CASE VersionMismatch
  BY <1>2 DEF VersionMismatch, OnlyRequestedMeasured
<1>3. CASE ParseError
  BY <1>3 DEF ParseError, Unparsable, OnlyRequestedMeasured
<1>4. CASE ShowHelp
  BY <1>4 DEF ShowHelp, OnlyRequestedMeasured, TypeOK
<1>5. CASE ListSerializers
  BY <1>5 DEF ListSerializers, OnlyRequestedMeasured, TypeOK
<1>6. CASE MissingIterations
  BY <1>6 DEF MissingIterations, OnlyRequestedMeasured
<1>7. CASE RejectSerializer
  BY <1>7 DEF RejectSerializer, OnlyRequestedMeasured, TypeOK
<1>8. CASE AcceptArgs
  <2>1. next = 0 /\ results = <<>> /\ out.rows = <<>> /\ next' = 1 /\ results' = <<>> /\ pc' = "run"
    BY <1>8 DEF AcceptArgs
  <2>2. B!IsReport(<<>>, {})
    BY DEF B!IsReport, B!Range
  <2>3. {Order[k] : k \in {j \in 1 .. 11 : j < 1}} = {}
    OBVIOUS
  <2>4. OnlyRequestedMeasured'
    BY <2>1, <2>2, <2>3, TestsFacts DEF OnlyRequestedMeasured, B!IsReport
  <2> QED
    BY <1>8, <2>1, <2>4 DEF AcceptArgs, Split
<1>9. CASE RunTest
  <2>1. next # 0 /\ pc = "run" /\ next' # 0
    BY <1>9 DEF RunTest, AtTest, TypeOK
  <2> QED
    BY <1>9, <2>1, RunTestReports DEF RunTest, Split
<1>10. CASE SkipTest
  <2>1. next # 0 /\ pc = "run" /\ next' # 0
    BY <1>10 DEF SkipTest, AtTest, TypeOK
  <2> QED
    BY <1>10, <2>1, SkipTestReports DEF SkipTest, Split
<1>11. CASE TestThrows
  BY <1>11 DEF TestThrows, AtTest, OnlyRequestedMeasured, Split
<1>12. CASE EndOfTests
  <2>1. next = 12
    BY <1>12, TestsFacts DEF EndOfTests, TypeOK
  <2> QED
    BY <1>12, <2>1 DEF EndOfTests, OnlyRequestedMeasured, Split
<1>13. CASE PrintResults
  <2>1. out'.rows = Rows /\ out'.header = args.csv
    BY <1>13 DEF PrintResults, TypeOK
  <2> QED
    BY <1>13, <2>1 DEF PrintResults, OnlyRequestedMeasured, Split
<1>14. CASE Return
  BY <1>14 DEF Return, OnlyRequestedMeasured, Split
<1>15. CASE UNCHANGED vars
  BY <1>15 DEF vars, OnlyRequestedMeasured, Split
<1> QED
  BY <1>1, <1>2, <1>3, <1>4, <1>5, <1>6, <1>7, <1>8, <1>9, <1>10, <1>11, <1>12, <1>13,
     <1>14, <1>15 DEF Next

\* The inductive invariant holds in every reachable state.
THEOREM Inductive == Spec => []IInv
BY InitIInv, StepIInv, PTL DEF Spec

\* Type correctness: no step leaves the value sets of the variables; next never
\* runs past the end of the chain and only names of real tests are stored.
THEOREM TypeCorrect == Spec => []TypeOK
<1>1. IInv => TypeOK
  BY DEF IInv
<1> QED
  BY <1>1, Inductive, PTL

\* In every state of every execution the results are those of exactly the
\* requested tests the chain has passed.
THEOREM MeasuresRequested == Spec => []OnlyRequestedMeasured
<1>1. IInv => OnlyRequestedMeasured
  BY DEF IInv
<1> QED
  BY <1>1, Inductive, PTL

\* The rows printed carry the names of the results.
LEMMA RowNames ==
  ASSUME IInv, Printed
  PROVE  [i \in DOMAIN out.rows |-> out.rows[i].name] = results
<1>1. DOMAIN out.rows = DOMAIN results /\ \A i \in DOMAIN results : out.rows[i].name = results[i]
  BY DEF IInv, Rows
<1>2. results = [i \in DOMAIN results |-> results[i]]
  BY DEF IInv, TypeOK
<1> QED
  BY <1>1, <1>2

\* What is printed is a report of the request.
LEMMA PrintedIsReport ==
  ASSUME IInv, next = 12
  PROVE  B!IsReport(results, Request(cmd))
<1>1. B!IsReport(results, {Order[k] : k \in {j \in 1 .. 11 : j < 12}} \cap Request(cmd))
  BY TestsFacts DEF IInv, OnlyRequestedMeasured
<1>2. {Order[k] : k \in {j \in 1 .. 11 : j < 12}} = Names
  BY TestsFacts DEF Names, Range
<1>3. Request(cmd) \subseteq Names
  BY RequestIsNamed DEF IInv, TypeOK, Accepted
<1>4. {Order[k] : k \in {j \in 1 .. 11 : j < 12}} \cap Request(cmd) = Request(cmd)
  BY <1>2, <1>3
<1> QED
  BY <1>1, <1>4

\* The report answers the command line, for every set of command lines.
THEOREM AnswersRequest == Spec => []ReportMatchesRequest
<1>1. IInv => ReportMatchesRequest
  <2> SUFFICES ASSUME IInv, Printed PROVE
         /\ B!IsReport([i \in DOMAIN out.rows |-> out.rows[i].name], Request(cmd))
         /\ \A i \in DOMAIN out.rows :
              out.rows[i].iterations = cmd.iterations[Len(cmd.iterations)]
         /\ out.header = cmd.csv
    BY DEF ReportMatchesRequest, Printed
  <2>1. next = 12 /\ out.rows = Rows /\ out.header = args.csv /\ Accepted
    BY DEF IInv
  <2>2. B!IsReport([i \in DOMAIN out.rows |-> out.rows[i].name], Request(cmd))
    BY <2>1, RowNames, PrintedIsReport
  <2>3. \A i \in DOMAIN out.rows : out.rows[i].iterations = args.iterations
    BY <2>1 DEF Rows
  <2> QED
    BY <2>1, <2>2, <2>3 DEF Accepted, As
<1> QED
  BY <1>1, Inductive, PTL

\* A refusal of a request to measure is justified.
THEOREM RefusesJustly == Spec => RefusalIsJustified
<1>1. ASSUME IInv, [Next]_vars
      PROVE  [pc = "parse" /\ status' = "failure" =>
                \/ cmd.malformed \/ cmd.iterations = <<>>
                \/ ~(Request(cmd) \subseteq Names)]_vars
  <2> SUFFICES ASSUME Next, pc = "parse", status' = "failure", ~cmd.malformed, cmd.iterations # <<>>
               PROVE  ~(Request(cmd) \subseteq Names)
    BY <1>1
  <2>1. status = "running"
    BY <1>1 DEF IInv
  <2>2. RejectSerializer
    BY <2>1 DEF Next, VerifyVersion, VersionMismatch, ParseError, Unparsable, ShowHelp, ListSerializers,
       MissingIterations, AcceptArgs, RunTest, SkipTest, TestThrows, AtTest, EndOfTests, PrintResults,
       Return, Exit
  <2>3. ~(Split(cmd) \subseteq Names)
    BY <2>2, TestsFacts DEF RejectSerializer
  <2> QED
    BY <2>3 DEF Split, Request, As
<1> QED
  BY <1>1, Inductive, PTL DEF Spec, RefusalIsJustified

\* The initial states are initial states of the promise.
LEMMA RefinesInit == Init => B!Init
<1> SUFFICES ASSUME Init PROVE B!Init
  OBVIOUS
<1>1. [i \in DOMAIN out.rows |-> out.rows[i].name] = <<>>
  BY DEF Init
<1> QED
  BY <1>1 DEF Init, B!Init

\* A step that prints nothing leaves what is shown alone.
LEMMA SameRows ==
  ASSUME out'.rows = out.rows
  PROVE  [i \in DOMAIN out'.rows |-> out'.rows[i].name] = [i \in DOMAIN out.rows |-> out.rows[i].name]
OBVIOUS

\* Every step of the program is a step of the promise or leaves it alone.
LEMMA RefinesNext == IInv /\ IInv' /\ [Next]_vars => [B!Next]_B!vars
<1> DEFINE W == IF next = 0 THEN {} ELSE Request(cmd)
           S == [i \in DOMAIN out.rows |-> out.rows[i].name]
<1> SUFFICES ASSUME IInv, IInv', [Next]_vars PROVE [B!Next]_B!vars
  OBVIOUS
<1>0. /\ next = 0 => W = {} /\ S = <<>>
      /\ ~Printed => S = <<>>
      /\ B!Names = Names
  BY DEF IInv, Printed, B!Names, Names, B!Range, Range
<1>1. CASE VerifyVersion
  <2>1. W' = W /\ S' = S /\ status' = status
    BY <1>1 DEF VerifyVersion
  <2> QED BY <2>1 DEF B!vars
<1>2. CASE VersionMismatch \/ ParseError \/ MissingIterations \/ TestThrows
  <2>1. W' = W /\ S' = S /\ status = "running" /\ status' = "failure" /\ S = <<>>
    BY <1>0, <1>2 DEF VersionMismatch, ParseError, MissingIterations, TestThrows, Unparsable,
       ToMeasure, Parsed, AtTest, Exit, IInv, Printed
  <2> QED BY <2>1 DEF B!Next, B!Refuse
<1>3. CASE RejectSerializer
  <2>1. out'.rows = out.rows
    BY <1>3 DEF RejectSerializer, IInv, TypeOK
  <2>2. W' = W /\ S' = S /\ status = "running" /\ status' = "failure" /\ S = <<>>
    BY <1>0, <1>3, <2>1 DEF RejectSerializer, ToMeasure, Parsed, Exit, IInv, Printed
  <2> QED BY <2>2 DEF B!Next, B!Refuse
<1>4. CASE ShowHelp \/ ListSerializers
  <2>1. out'.rows = out.rows
    BY <1>4 DEF ShowHelp, ListSerializers, IInv, TypeOK
  <2>2. next = 0
    BY <1>4 DEF ShowHelp, ListSerializers, Parsed, IInv, Accepted
  <2>3. W = {} /\ W' = W /\ S' = S /\ status = "running" /\ status' = "success"
    BY <1>0, <1>4, <2>1, <2>2 DEF ShowHelp, ListSerializers, Parsed, Exit, IInv
  <2> QED BY <2>3 DEF B!Next, B!Inform
<1>5. CASE AcceptArgs
  <2>1. W = {} /\ W' = Request(cmd) /\ S' = S /\ status = "running" /\ status' = status
    BY <1>0, <1>5 DEF AcceptArgs, ToMeasure, Parsed, IInv, Accepted
  <2>2. Request(cmd) \in (SUBSET Names) \ {{}}
    BY <1>5, RequestIsNamed DEF AcceptArgs, IInv, TypeOK
  <2> QED BY <1>0, <2>1, <2>2 DEF B!Next, B!Understand
<1>6. CASE RunTest \/ SkipTest \/ EndOfTests
  <2>1. next # 0 /\ next' # 0
    BY <1>6 DEF RunTest, SkipTest, EndOfTests, AtTest, IInv, TypeOK
  <2>2. W' = W /\ S' = S /\ status' = status
    BY <1>6, <2>1 DEF RunTest, SkipTest, EndOfTests
  <2> QED BY <2>2 DEF B!vars
<1>7. CASE PrintResults
  <2>1. next = 12 /\ W' = W /\ W = Request(cmd) /\ status = "running" /\ status' = status /\ S = <<>>
    BY <1>0, <1>7 DEF PrintResults, IInv, Printed
  <2>2. Request(cmd) # {}
    BY <2>1, RequestIsNamed DEF IInv, TypeOK, Accepted
  <2>3. Printed' /\ results' = results
    BY <1>7 DEF PrintResults, Printed
  <2>4. DOMAIN out'.rows = DOMAIN results /\ \A i \in DOMAIN results : out'.rows[i].name = results[i]
    BY <2>3 DEF IInv, Rows
  <2>5. S' = results
    <3>1. results = [i \in DOMAIN results |-> results[i]]
      BY DEF IInv, TypeOK
    <3> QED BY <2>4, <3>1
  <2>6. results \in Seq(Names) /\ B!IsReport(results, Request(cmd))
    BY <2>1, PrintedIsReport DEF IInv, TypeOK
  <2> QED BY <1>0, <2>1, <2>2, <2>5, <2>6 DEF B!Next, B!Report
<1>8. CASE Return
  <2>1. next = 12 /\ W' = W /\ S' = S /\ status = "running" /\ status' = "success"
    BY <1>8 DEF Return, Exit, IInv, Printed
  <2>2. S = results
    BY <1>8, RowNames DEF Return, Printed
  <2>3. B!IsReport(results, Request(cmd)) /\ Request(cmd) # {}
    BY <2>1, PrintedIsReport, RequestIsNamed DEF IInv, TypeOK, Accepted
  <2>4. S # <<>>
    BY <2>2, <2>3 DEF B!IsReport, B!Range
  <2> QED BY <2>1, <2>4 DEF B!Next, B!Succeed
<1>9. CASE UNCHANGED vars
  <2>1. W' = W /\ S' = S /\ status' = status
    BY <1>9 DEF vars
  <2> QED BY <2>1 DEF B!vars
<1> QED
  BY <1>1, <1>2, <1>3, <1>4, <1>5, <1>6, <1>7, <1>8, <1>9 DEF Next

\* The program keeps its promise to the user, for every set of command lines.
THEOREM KeepsPromise == Spec => Implements
BY RefinesInit, RefinesNext, Inductive, PTL DEF Spec, B!Spec, Implements
=============================================================================
