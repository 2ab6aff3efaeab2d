CONSTANTS
  ann = ann
  ben = ben
  c1 = c1
  c2 = c2
  tok = tok
  MaxBoots = 2
  MaxRequests = 2
  MaxExits = 0
  Keys = {1, 2}
  Claims = {c1, c2}
  Phones = {"alice", "bob"}
  Invites = {"i"}
  From <- MCFrom
  MaxOut = 2
  Pair = {ann, ben}
  Skew = 1
  Fresh = 1
  MaxTime = 2
  MaxNonces = 2
  MaxLine = 1
  Tokens = {tok}
  Expiry <- MCExpiry
  Limit = 2
  Span = 2
  Lag = 1
  MaxCalls = 2
  LastTime = 5
  People = {ann, ben}
  KeyIds = {1}
  MaxSends = 3
  MaxStops = 1
SPECIFICATION PeersSpec
SYMMETRY Symmetry
CHECK_DEADLOCK FALSE
INVARIANTS PeersTypeOK RowGrantedOnce Consent AgreeUnlessMissed RevokeIsFinal RateBounded OutlivesByLagOnly Readable
PROPERTIES VerifiedByAnswer PresenceIsLive
