---------------------------- MODULE BenchmarkSpec ----------------------------
(***************************************************************************)
(* What one execution of the benchmark program promises its user, without  *)
(* saying how: it either informs (help, list), refuses, or reports; the    *)
(* report has exactly one row per wanted serializer in the program's fixed *)
(* order, and an execution that fails has shown no row at all.             *)
(***************************************************************************)
EXTENDS Naturals, Sequences, Functions

CONSTANT
  Order   \* the serializers, without repetition, in the order their rows are shown

\* The serializers the program can be asked for.
Names == Range(Order)

VARIABLES
  wanted,   \* the serializers asked for, {} until the request is understood
  shown,    \* the rows on standard output
  status    \* "running", "success" or "failure"

vars == <<wanted, shown, status>>

\* s has one row per member of W, in the order of Order.
IsReport(s, W) ==
  /\ Range(s) = W
  /\ \A i, j \in DOMAIN s : \A k, l \in DOMAIN Order :
       i < j /\ s[i] = Order[k] /\ s[j] = Order[l] => k < l

Init ==
  /\ wanted = {}
  /\ shown = <<>>
  /\ status = "running"

\* The command line asks for a benchmark of a nonempty set of serializers.
Understand ==
  /\ wanted = {} /\ status = "running"
  /\ wanted' \in (SUBSET Names) \ {{}}
  /\ UNCHANGED <<shown, status>>

\* Help or the list of serializers: a success that measures nothing.
Inform ==
  /\ wanted = {} /\ status = "running"
  /\ status' = "success"
  /\ UNCHANGED <<wanted, shown>>

\* A bad command line or a failed measurement: only while nothing is shown.
Refuse ==
  /\ status = "running" /\ shown = <<>>
  /\ status' = "failure"
  /\ UNCHANGED <<wanted, shown>>

\* The whole report appears at once.
Report ==
  /\ status = "running" /\ shown = <<>> /\ wanted # {}
  /\ shown' \in Seq(Names)
  /\ IsReport(shown', wanted)
  /\ UNCHANGED <<wanted, status>>

Succeed ==
  /\ status = "running" /\ shown # <<>>
  /\ status' = "success"
  /\ UNCHANGED <<wanted, shown>>

Next == Understand \/ Inform \/ Refuse \/ Report \/ Succeed

Spec == Init /\ [][Next]_vars
=============================================================================
