SPECIFICATION FairSpec
CONSTANTS
  File <- SliceFile
  Slices = {"outer", "leaf"}
  Promotion <- HandlerBlocks
  MaxHandlers = 2
  MaxSignals = 6
INVARIANTS
  IInv
  NeverExits
PROPERTIES
  ImplementsPolled
  SignalAnswered
