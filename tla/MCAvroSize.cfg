SPECIFICATION Spec
CONSTANTS
  Iterations = 1
  Chunk = 3
  Jobs <- MCJobs
INVARIANT ReportsObjectSize
CHECK_DEADLOCK FALSE
