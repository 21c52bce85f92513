SPECIFICATION Spec
CONSTANTS
  t0 = t0
  t1 = t1
  t2 = t2
  t3 = t3
  t4 = t4
  Main = Main
  Root = t0
  Task <- FiveTasks
  Lo = 1
  Hi = 8
  ChunkSizes = {1, 2, 3}
  InitialValue <- MCInitialValue
  Garbage <- MCGarbage
SYMMETRY FreshTasks
INVARIANTS
  SerialResult
  AllJoined
  ContextExclusive
  SplitCovers
  IInv
PROPERTIES
  ImplementsParallelLoop
