SPECIFICATION PassSpec
CONSTANTS
  N = 2
  Programs <- AnyLiveOuts
  OptionSets <- PlainBuild
INVARIANTS
  NoAssertFails
