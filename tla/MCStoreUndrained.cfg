CONSTANTS
  Clients = {c1, c2}
  Frames = {1}
  Values = {v1}
  NoDoc = NoDoc
  NoObject = NoObject
  NoClient = NoClient
  ArchiveAfterDrain = FALSE
SPECIFICATION FairSpec
INVARIANT ArchiveComplete
PROPERTIES ArchiveFrozen CallsEnd
