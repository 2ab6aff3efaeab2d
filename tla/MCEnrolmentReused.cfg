CONSTANTS
  c1 = c1
  c2 = c2
  MaxBoots = 1
  MaxRequests = 2
  MaxExits = 0
  Keys = {1}
  Claims = {c1, c2}
SPECIFICATION Spec
CHECK_DEADLOCK FALSE
INVARIANT HandedOutOnce
