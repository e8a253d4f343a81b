SPECIFICATION PSpec
CONSTANTS
  k1 = k1
  k2 = k2
  Kids = {k1, k2}
  TTL = 2
  MaxFetch = 2
  MaxTime = 4
  r1 = r1
  r2 = r2
  Requests = {r1, r2}
  Asks <- GoodAsks
  Tokens <- MCTokens
  NoToken = NoToken
  NotRSA = {}
  Leeway = 1
  Settings <- Deployed
INVARIANT
  ErrorsKeepTheContract
