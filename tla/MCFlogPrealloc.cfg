SPECIFICATION PreSpec
CONSTANTS
  Block = {b1, b2, b3, b4, b5}
  Slots = 4
INVARIANTS
  PreTypeOK
  SlotsConserved
  ListedOnce
