CONSTANTS
  Clients = {c1, c2, c3}
  MaxTime = 2
  MaxCalls = 4
  Never = Never
  NoDocument = NoDocument
  MaxRetryCount = 3
  Resolution = 2
SPECIFICATION Spec
SYMMETRY Symmetry
CHECK_DEADLOCK FALSE
INVARIANTS TypeOK ConflictJustified
PROPERTY ImplementsCell
