CONSTANTS
  MaxLooks = 1
  MaxApplies = 2
  MaxGen = 2
SPECIFICATION Spec
INVARIANT AppliedOnce
CHECK_DEADLOCK FALSE
