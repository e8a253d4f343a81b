SPECIFICATION PFairSpec
CONSTANTS
  k1 = k1
  k2 = k2
  Kids = {k1, k2}
  TTL = 2
  MaxFetch = 2
  MaxTime = 4
  r1 = r1
  r2 = r2
  Requests = {r1, r2}
  Asks <- MCAsks
  Tokens <- MCTokens
  NoToken = NoToken
  NotRSA = {}
  Leeway = 1
  Settings <- MCSettings
INVARIANTS
  PInv
  TrustedKeysAreRecent
  PublishedKeysAreFound
  CacheInv
  KnownIdsReachTheClient
PROPERTIES
  HandledMeansEntitled
  EntitledAreLetIn
  NearerToTheAnswer
  EveryRequestAnswered
CHECK_DEADLOCK FALSE
