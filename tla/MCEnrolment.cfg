CONSTANTS
  c1 = c1
  c2 = c2
  MaxBoots = 2
  MaxRequests = 3
  MaxExits = 1
  Keys = {1}
  Claims = {}
SPECIFICATION FairSpec
CHECK_DEADLOCK FALSE
INVARIANTS RegisteredIsNewest KeepsIdentity
PROPERTY RegistrationEnds
