CONSTANTS
  ann = ann
  ben = ben
  thr = thr
  Window = 1
  LockFor = 2
  MaxFailures = 2
  MaxTries = 2
  Pins = {"p"}
  NoPin = "none"
  Peers = {ann, ben}
  Threads = {thr}
  ThreadPeer <- MCThreadPeer
  Texts = {m}
  MaxSearching = 1
  Nobody = Nobody
  Surface = Surface
  Hidden = {thr}
  Nowhere = Nowhere
  Offset = 10
  Changes = {"delete"}
  MaxIn = 3
  MaxShadow = 1
  MaxGot = 3
  MaxTyped = 1
  Rows = {r1, r2}
  Lives = {1, 2}
  EndOfTime = 3
  Vaults = {v}
  Updates = {u1, u2}
  MaxLoads = 2
  MaxKeys = 2
SPECIFICATION PhoneSpec
CHECK_DEADLOCK FALSE
INVARIANTS PhoneTypeOK Kept GuessesBounded InvitesFollowLock ShadowNeverListed ShownIsStored GapsExplained  DueIsWatched
PROPERTY TargetFollowsOpen
