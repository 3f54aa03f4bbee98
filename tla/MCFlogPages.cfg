SPECIFICATION Spec
CONSTANTS
  Blocks = 3
  Block <- MCBlock
  Slots = 2
  First = 0
  Inode0Max = 3
  PagesPerBlock = 2
  Bad <- NoBad
  Backends <- Proper
  MaxFiles = 3
  MaxChain = 2
  MaxFaults = 1
  PageRules <- Written
INVARIANTS
  PagesTypeOK
  PageMeant
  PendingIsBlank
  FilesKept
  MountFindsFormat
PROPERTIES
  ImplementsFlash
