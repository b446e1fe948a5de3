--------------------------- MODULE SerializationTest ---------------------------
(* What the *_serialization_test functions have in common. *)
EXTENDS Naturals, Sequences

CONSTANTS
  Iterations,   \* how often their loop runs
  Jobs          \* [name, ids, strings] and more: a test, and what its codec does
                \* to each list: "same", other "values" or another "count"

ASSUME IterationsAssumption == Iterations \in Nat

VARIABLES
  job,
  pc,        \* the next statement, or how the test ended
  i,         \* the iteration at hand, 0 before the loop
  decoded,   \* the number of the image r2 was decoded from last, 0 if none
  result     \* <<>>, or the Result: its name and size, counted in images

Ended == {"returned", "rejected", "thrown"}

\* The stage of RoundTrip a test is in: "checking" up to these statements.
StageBefore(timing) ==
  IF pc \in Ended THEN pc ELSE IF i = 0 /\ pc \notin timing THEN "checking" ELSE "timing"
=============================================================================
