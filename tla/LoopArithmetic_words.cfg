SPECIFICATION FairSpec
CONSTANTS
  Half = 8
  LoopBounds <- NonNegative
  ChunkSizes <- Positive
INVARIANTS
  RunsAsSigned
PROPERTIES
  Termination
