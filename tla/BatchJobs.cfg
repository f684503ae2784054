CONSTANTS
  NumItems = 2
  Kinds = {"delegated", "capture"}
  ClaimLimit = 2
  NoClaim = NoClaim  NoReceipt = NoReceipt  NoRecord = NoRecord
  MaxLosses = 1
  MaxUpsets = 1
  MaxControls = 1
SPECIFICATION FairSpec
INVARIANTS TypeOK ChangesOnce RecordTruth FinishedIsQuiet
PROPERTIES ControlStands CompletionKept ClaimSettles
CHECK_DEADLOCK FALSE
