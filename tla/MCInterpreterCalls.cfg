SPECIFICATION Spec
CONSTANTS
  native = native
  script = script
  Functions <- MCFunctions
  Argc <- MCArgc
  Native <- MCNative
  Constructors <- MCNative
  Destructors <- MCFunctions
  CallstackCapacity = 2
  MaxDepth = 4
  MaxTemps = 2
  MaxBuffer = 2
  MaxLocals = 1
  MaxElements = 2
  NestedLists = FALSE
INVARIANTS
  StacksBalanced
  FramesAreSound
  BuffersOfOuterEvals
  TemporariesReclaimed
  ListHoldsItsElements
PROPERTIES
  CallsAreTransparent
  ImplementsCallDiscipline
