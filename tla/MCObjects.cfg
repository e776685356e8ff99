SPECIFICATION Spec
CONSTANTS
  Sources <- MCSources
  MaxOperations = 3
INVARIANTS VtablesAreRight MembersInPlace BodiesSeeWholeObjects LifetimesAreRight CopiesAreEqual
CHECK_DEADLOCK FALSE
