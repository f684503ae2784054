CONSTANTS
  NumItems = 2
  Kinds = {"delegated"}
  ClaimLimit = 2
  NoClaim = NoClaim  NoReceipt = NoReceipt  NoRecord = NoRecord
  MaxLosses = 0
  MaxUpsets = 0
  MaxControls = 0
SPECIFICATION FairSpec
PROPERTY BatchOutboxDrains
CHECK_DEADLOCK FALSE
