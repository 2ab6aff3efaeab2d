CONSTANTS
  c1 = c1
  c2 = c2
  MaxBoots = 2
  MaxRequests = 1
  MaxExits = 1
  Keys = {1}
  Claims = {}
SPECIFICATION Spec
CHECK_DEADLOCK FALSE
INVARIANT RegisteredMeansPublished
