SPECIFICATION Spec
CONSTANTS
  t0 = t0
  t1 = t1
  t2 = t2
  t3 = t3
  t4 = t4
  w0 = w0
  w1 = w1
  Worker <- TwoWorkers
  Task <- FiveTasks
  Root = t0
  HeartbeatInterval = 1
  Minimal = TRUE
  DefaultWindow = 1
  DefaultRatio = 2
  Window = 2
  Ratio = 1
  InitialChunk = 2
  Int64Max = 100
  MaxClock = 3
  MaxPolls = 2
  MaxStarts = 2
SYMMETRY Symmetry
INVARIANTS
  OwnTimer
  MeasuredAtChunk
  WindowExtreme
  IInv
PROPERTIES
  HeartbeatRate
  AdaptsByWindow
