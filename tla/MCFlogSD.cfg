SPECIFICATION Spec
CONSTANTS
  SdBlock <- MCSdBlock
  Value <- MCValue
  Erased = "e"
  Cards <- MCCards
  Period = 6
  Starts <- MCStarts
  MaxFaults = 2
  MaxResets = 1
  CardRules <- Holding
INVARIANTS
  SdTypeOK
  Deselected
  AddressAgrees
  HoldsWhatWasTold
PROPERTIES
  NoHastyTimeout
  CallReturns
