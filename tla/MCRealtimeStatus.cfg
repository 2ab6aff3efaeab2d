CONSTANTS
  Attempts = {a1, a2, a3}
  None = None
  MaxRefreshes = 2
SPECIFICATION Spec
INVARIANT OpenIsConnected
