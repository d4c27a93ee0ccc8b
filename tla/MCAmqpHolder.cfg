CONSTANTS
  Flows = {f1, f2}
  Chains = {j1, j2}
  MaxConns = 3
  MaxRetry = 1
  MaxPublish = 2
  MaxTags = 2
  NoConn = NoConn
SPECIFICATION Spec
SYMMETRY Symmetry
INVARIANTS TypeOK PublishedInOrder NothingStranded ConsumersMatch LastCloseReleases
PROPERTY ImplementsOutbox
\* The holder is dropped and its flows are closed in the end.
CHECK_DEADLOCK FALSE
