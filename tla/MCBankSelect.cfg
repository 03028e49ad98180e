SPECIFICATION FairSpec
CONSTANTS
  BYTE = 3
  LIMIT = 4
  REFRESH = 1
  MAX_GAP = 1
INVARIANT OnlyHeldKeyCounts
PROPERTIES ImplementsButtons HoldHonouredUntorn HoldServed
