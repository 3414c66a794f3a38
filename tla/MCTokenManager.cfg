\* Three goroutines, two issued tokens, four clock values.
SPECIFICATION Spec
CONSTANTS
  g1 = g1
  g2 = g2
  g3 = g3
  NoOne = NoOne
  Callers <- ThreeCallers
  Expiries <- MCExpiries
  Margin = 1
  DefaultTTL = 2
  MaxTime = 3
  MaxFetches = 2
SYMMETRY AnyCaller
INVARIANTS
  TypeOK
  OneRefreshAtATime
  NoWastedFetch
  CachedReplyWasFresh
  InvalidatedIsGone
PROPERTIES
  CacheMovesForward
