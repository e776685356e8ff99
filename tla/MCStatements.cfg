SPECIFICATION Spec
CONSTANTS
  Bodies <- MCBodies
  Kinds = {"function", "script"}
  Argc = 1
INVARIANTS
  NamesAreInPlace
  PopsItsVariable
  BreakpointsShowTheStack
