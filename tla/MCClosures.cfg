SPECIFICATION Spec
CONSTANTS
  Ints = {"x", "y"}
  Arrays = {"a", "b"}
  Functors = {"f"}
  Texts <- MCTexts
  MaxStatements = 5
INVARIANTS CopiesAreIndependent NamesDenoteCaptures VisibleAreAlive
CHECK_DEADLOCK FALSE
