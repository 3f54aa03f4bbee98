SPECIFICATION Spec
CONSTANTS
  b0 = b0
  b1 = b1
  b2 = b2
  b3 = b3
  Block <- Flash4
  Slots = 2
  Zero = b0
  Inode0 = b0
  Name = {n1, n2}
  Handle = {h1, h2}
  LastPos = 2
  EntriesPerBlock = 2
  MaxFiles = 2
  MaxCrashes = 1
  ClientRules <- Careful
  None = None
SYMMETRY Symmetric
CHECK_DEADLOCK FALSE
INVARIANTS
  TypeOK
  InodeRoom
  IdsInOrder
  OneLiveEntryPerName
PROPERTIES
  UsesPrealloc
