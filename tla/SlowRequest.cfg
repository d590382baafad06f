SPECIFICATION Spec
CONSTANTS
  key = key
  r1 = r1
  r2 = r2
  r3 = r3
  Null = Null
  Scopes <- MCScopes
  Hashes <- MCHashes
  MaxDeaths = 0
  BoundedLatency = FALSE
  Requests <- MCTwins
  ScopeOf <- MCTwinsScopeOf
  HashOf <- MCTwinsHashOf
  BodyOf <- MCTwinsBodyOf
  Json <- MCJson
  DepthOf <- MCDepthOf
  MaxDepth = 2
INVARIANT AtMostOnce
