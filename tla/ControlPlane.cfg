CONSTANTS
  MaxLooks = 1
  MaxApplies = 2
  MaxGen = 2
SPECIFICATION FairSpec
INVARIANTS
  NoneIsSafe
  AppliedIsReal
  OneChangePerTurn
PROPERTIES
  DrainsEnd
CHECK_DEADLOCK FALSE
