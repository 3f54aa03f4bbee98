SPECIFICATION Spec
CONSTANTS
  SectorSize = 3
  InitHeader = 1
  TailHeader = 2
  SectorsPerPage = 4
  SectorsPerBlock = 5
  Garbage = {0, 5}
  MaxBlocks = 3
  MaxBytes = 10
  MaxRead = 2
  ClientRules <- NotClosing
CHECK_DEADLOCK FALSE
INVARIANT CloseStores
