SPECIFICATION Spec
CONSTANTS
  Classes = {"C"}
  Functions = {"f"}
  Spaces = {"foo"}
  ClassAliases = {"T"}
  SpaceAliases = {"fs"}
  Builtins = {"int"}
  Given <- MCGiven
  Modules <- MCModules
  MaxDeclarations = 4
  MaxStatements = 2
  MaxBlocks = 1
  Ids <- MCIds
INVARIANT SeesEarlierDeclarations
INVARIANT NamespacesImportAlike
PROPERTY DirectivesStayPut
\* The compilation ends.
CHECK_DEADLOCK FALSE
