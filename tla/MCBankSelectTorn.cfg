SPECIFICATION Spec
CONSTANTS
  BYTE = 4
  LIMIT = 6
  REFRESH = 2
  MAX_GAP = 4
PROPERTY HoldHonoured
