SPECIFICATION Spec
CONSTANTS
  Depth = 3
  Arity = 2
  Bounds <- ThreeBounds
  Doubles <- SecondArgument
INVARIANTS
  LiveInsInv
  BodySeesProgram
  BoundsAreProgram
  ConstantsInArray
