SPECIFICATION Spec
CONSTANTS
  a = a
  b = b
  m = m
  n = n
  Null = Null
  Scripts <- MCScripts
  Modules <- MCModules
  Programs <- MCPrograms
  Made <- MCMade
  MaxCompiles = 2
INVARIANTS
  AllOrNothing
  SessionsAreSeparate
  
PROPERTIES
  Terminates
CHECK_DEADLOCK FALSE
