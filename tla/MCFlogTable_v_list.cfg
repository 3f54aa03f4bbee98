SPECIFICATION Spec
CONSTANTS
  Blocks = 5
  Inode0 = 0
  PagesPerBlock = 2
  EraseZero = FALSE
  Name = {n1, n2}
  Lister = {l1}
  MaxFiles = 5
  TableRules <- NoRules
  NoName = NoName
CHECK_DEADLOCK FALSE
INVARIANTS
  IteratorStays
