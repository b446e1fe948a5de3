---------------------------- MODULE MCBenchmark ----------------------------
(* Instance of Benchmark: every flag, up to two pieces per -s, one name that *)
(* does not exist and the empty piece, repeated -i and -s, positionals.      *)
EXTENDS Benchmark

Pieces == Names \cup {"json", ""}
Values == {<<p>> : p \in Pieces} \cup (Pieces \X Pieces)

\* One -s at most, every flag.
Flagged ==
  [malformed : BOOLEAN, help : BOOLEAN, list : BOOLEAN, csv : BOOLEAN,
   iterations : {<<>>, <<0>>, <<2>>},
   serializers : {<<>>} \cup {<<<<p>>>> : p \in Pieces}, positional : {<<>>}]

\* Requests to measure: two pieces, or options given twice.
Requests ==
  [malformed : {FALSE}, help : {FALSE}, list : {FALSE}, csv : BOOLEAN,
   iterations : {<<1>>, <<2, 0>>},
   serializers : {<<v>> : v \in Values} \cup
                 {<<<<p>>, <<q>>>> : p, q \in {"yas-compact", "avro", "json", ""}},
   positional : {<<>>}]

\* images/graphs.R: the number of iterations and the serializer, no option.
Legacy ==
  [malformed : {FALSE}, help : {FALSE}, list : {FALSE}, csv : {FALSE},
   iterations : {<<>>}, serializers : {<<>>},
   positional : {<<"1", t>> : t \in Names}]

MCCommandLines == Flagged \cup Requests \cup Legacy

\* The documented lines among the ones with options.
MCLegacyLines == Legacy \cup Flagged
=============================================================================
