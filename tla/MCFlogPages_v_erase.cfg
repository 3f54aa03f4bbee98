SPECIFICATION Spec
CONSTANTS
  Blocks = 3
  Block <- MCBlock
  Slots = 2
  First = 0
  Inode0Max = 3
  PagesPerBlock = 2
  Bad <- NoBad
  Backends <- CardErase
  MaxFiles = 2
  MaxChain = 1
  MaxFaults = 0
  PageRules <- Written
INVARIANTS
  FilesKept
