SPECIFICATION PassSpec
CONSTANTS
  N = 2
  Programs <- LeafLiveOuts
  OptionSets <- PlainBuild
INVARIANTS
  ModifiedReported
