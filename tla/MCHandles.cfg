SPECIFICATION Spec
CONSTANTS
  a = a
  b = b
  c = c
  x = x
  y = y
  l = l
  m = m
  t1 = t1
  t2 = t2
  t3 = t3
  Static = Static
  Void = Void
  Null = Null
  Arguments = Arguments
  Values <- MCValues
  Variables <- MCVariables
  Lists <- MCLists
  MaxSlots = 2
  Temporaries <- MCTemporaries
  MaxStatements = 5
SYMMETRY Symmetric
INVARIANTS
  LivesWhileHeld
  NoHandleIsLost
