SPECIFICATION CacheSpec
CONSTANTS
  Readers = {r1, r2}
  NoHash = NoHash
  MaxCached = 3
  MaxVersion = 4
INVARIANTS
  CacheIsFresh
