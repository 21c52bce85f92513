SPECIFICATION Spec
CONSTANTS
  File <- SliceFile
  Slices = {"outer", "leaf"}
  Promotion <- HandlerBlocks
  MaxHandlers = 1
  MaxSignals = 2
PROPERTIES
  BreaksOut
