------------------------------ MODULE RoundTrip ------------------------------
(***************************************************************************)
(* What every *_serialization_test promises main, whatever the library:    *)
(* the record is encoded and decoded once and the outcome checked; then    *)
(* exactly Iterations times the record is encoded again and that very      *)
(* encoding, the image, is decoded; the Result names the test and gives    *)
(* the size of one image.  A test that throws has returned no Result.      *)
(***************************************************************************)
EXTENDS Naturals, Sequences

CONSTANTS
  Iterations,   \* the argument of the test
  Jobs,         \* the tests that may be run, each with the codec it meets
  Trusted,      \* the jobs whose codec the check of the test accepts
  Size(_)       \* the size the test gives of one image of a job

VARIABLES
  job,       \* the test and its codec
  stage,     \* "checking", "timing", "returned", "rejected" or "thrown"
  decoded,   \* the number of the image decoded last; the check's is 1
  result     \* <<>>, or <<name, size>> once returned

vars == <<job, stage, decoded, result>>

Init ==
  /\ job \in Jobs
  /\ stage = "checking"
  /\ decoded = 0
  /\ result = <<>>

\* The image made for the check is decoded.
Decode ==
  /\ stage = "checking" /\ decoded = 0
  /\ decoded' = 1
  /\ UNCHANGED <<job, stage, result>>

Accept ==
  /\ stage = "checking" /\ decoded = 1 /\ job \in Trusted
  /\ stage' = "timing"
  /\ UNCHANGED <<job, decoded, result>>

\* The test throws its own logic_error: only if the codec is at fault.
Reject ==
  /\ stage = "checking" /\ decoded = 1 /\ job \notin Trusted
  /\ stage' = "rejected"
  /\ UNCHANGED <<job, decoded, result>>

\* One iteration: its own image is decoded.
Round ==
  /\ stage = "timing" /\ decoded <= Iterations
  /\ decoded' = decoded + 1
  /\ UNCHANGED <<job, stage, result>>

Return ==
  /\ stage = "timing" /\ decoded = Iterations + 1
  /\ stage' = "returned"
  /\ result' = <<job.name, Size(job)>>
  /\ UNCHANGED <<job, decoded>>

\* The library throws.
Throw ==
  /\ stage \in {"checking", "timing"}
  /\ stage' = "thrown"
  /\ UNCHANGED <<job, decoded, result>>

Next == Decode \/ Accept \/ Reject \/ Round \/ Return \/ Throw

Spec == Init /\ [][Next]_vars
=============================================================================
