CONSTANTS
  None = None
  NoCandidate = NoCandidate
  Classes <- MCClasses
  Enums <- MCEnums
  Opaque <- MCOpaque
  Parent <- MCParent
  Copyable <- MCCopyable
  Constructors <- MCConstructors
  Casts <- MCCasts
  ElementOf <- MCElementOf
  Requests <- MCRequests
  Declarations <- MCDeclarations
  MemberFunctions <- MCMemberFunctions
  Operators <- MCOperators
  NamespaceOperators <- MCNamespaceOperators
  PrototypeOf <- MCPrototypeOf
  CandidateSets <- MCCandidateSets
  Better <- BetterCandidate
SPECIFICATION Spec
INVARIANTS ArgumentsFit NeverBeaten BestIsResolved
CHECK_DEADLOCK FALSE
