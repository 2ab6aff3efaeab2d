CONSTANTS
  Attempts = {a1, a2, a3}
  None = None
  MaxRefreshes = 2
SPECIFICATION FairSpec
INVARIANTS ConnectedIsUsable NeverStranded WaitingMeansTrying
PROPERTIES QuietAfterDisconnect HandshakeEnds
