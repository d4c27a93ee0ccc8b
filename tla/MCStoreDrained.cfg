CONSTANTS
  Clients = {c1, c2, c3}
  Frames = {1}
  Values = {v1, v2}
  NoDoc = NoDoc
  NoObject = NoObject
  NoClient = NoClient
  ArchiveAfterDrain = TRUE
SPECIFICATION Spec
SYMMETRY Symmetry
INVARIANTS TypeOK ReadSeesArchive
PROPERTY ImplementsPlaylog
