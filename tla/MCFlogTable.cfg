SPECIFICATION Spec
CONSTANTS
  Blocks = 5
  Inode0 = 1
  PagesPerBlock = 2
  EraseZero = TRUE
  Name = {n1, n2}
  Lister = {l1}
  MaxFiles = 5
  TableRules <- StopFirst
  NoName = NoName
CHECK_DEADLOCK FALSE
INVARIANTS
  TableTypeOK
  IteratorStays
  ListingComplete
  ViewsAgree
PROPERTIES
  ImplementsDir
