SPECIFICATION FairSpec
CONSTANTS
  key = key
  r1 = r1
  r2 = r2
  r3 = r3
  Null = Null
  Scopes <- MCScopes
  Hashes <- MCHashes
  MaxDeaths = 2
  BoundedLatency = TRUE
  Requests <- MCRequests
  ScopeOf <- MCScopeOf
  HashOf <- MCHashOf
  BodyOf <- MCBodyOf
  Json <- MCJson
  DepthOf <- MCDepthOf
  MaxDepth = 2
INVARIANTS TypeOK AtMostOnce SuccessMeansMoved ReplaysLastMovement RetriesAreRecognised
PROPERTIES CompletedIsFinal OrphansAreTakenOver
