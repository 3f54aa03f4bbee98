SPECIFICATION Spec
CONSTANTS
  SectorSize = 3
  InitHeader = 1
  TailHeader = 2
  SectorsPerPage = 4
  SectorsPerBlock = 5
  Garbage = {0, 5}
  MaxBlocks = 3
  MaxBytes = 12
  MaxRead = 3
  ClientRules <- AllRules
CHECK_DEADLOCK FALSE
INVARIANTS
  FileTypeOK
  TailsCount
  WriterSize
  ReaderSize
PROPERTIES
  ImplementsLog
