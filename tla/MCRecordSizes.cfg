SPECIFICATION Spec
CONSTANTS
  Published <- MCPublished
  Chunk = 4096
  SegmentWords = 1024
INVARIANTS SizesAsPublished
CHECK_DEADLOCK FALSE
