SPECIFICATION Spec
CONSTANTS
  Half = 8
  LoopBounds <- Word
  ChunkSizes <- Positive
INVARIANTS
  RunsAsSigned
