SPECIFICATION Spec
CONSTANTS
  Objects = {a, b, c, d}
  Namespaces = {script}
  Fourth = d
  First = p
  Prototypes = {p, q, r}
  Transactions = {t, u}
  MaxTypes = 3
  Requests = {1}
  NoOwner = NoOwner
  NoObject = NoObject
  Null = Null
  Reserved = Reserved
  NoTransaction = NoTransaction
SYMMETRY Symmetry
CONSTRAINT Bound
\* The behaviour ends where it becomes undefined.
CHECK_DEADLOCK FALSE
INVARIANTS
  IdsNameEntries
  FoundUnderItsId
  OneTypePerPrototype
  TransactionsAreSound
PROPERTY ImplementsTransactions
