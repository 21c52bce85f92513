SPECIFICATION FairSpec
CONSTANTS
  Undef = Undef
  Leaf = 2
  Bounds <- Planes
  ChunkSizes = {1, 3}
  MaxForks = 3
INVARIANTS
  IInv
  NothingLost
  PollsEveryChunk
  AreaExclusive
  ContextReadable
  OutermostFirst
PROPERTIES
  ForksOnce
  ImplementsParallelNest
  Termination
