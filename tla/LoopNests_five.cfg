SPECIFICATION Spec
CONSTANTS
  N = 5
  Programs <- AnyNests
INVARIANTS
  LevelsAreDepth
  NestsPartition
  IInv
