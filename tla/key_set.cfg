SPECIFICATION FairSpec
CONSTANTS
  Requests = {r1, r2}
  Kids = {k1, k2}
  Cooldown = 2
  Timeout = 2
INVARIANTS
  TypeOK
  CacheIsOneFetch
  WaitsForFewRequests
PROPERTIES
  FetchesAreSpaced
  RefusedKeysWereNotServed
  EveryCallEnds
