SPECIFICATION Spec
CONSTANTS
  Iterations = 3
  StringsCount = 2
  Chunk = 3
  Jobs <- MCJobs
  Requests <- MCRequests
INVARIANTS TypeOK LiveRead LiveSegments OwnOffsets CountsChunks CollectsAsked
PROPERTIES Implements RunsAsOneStep Ends
CHECK_DEADLOCK FALSE
