SPECIFICATION PassSpec
CONSTANTS
  N = 4
  Programs <- LeafLiveOuts
  OptionSets <- AllOptions
INVARIANTS
  PassInv
  NoAssertFails
  TablesDescribeNest
  HandlersLinked
  CallsFollowNest
  PhisMatchPredecessors
