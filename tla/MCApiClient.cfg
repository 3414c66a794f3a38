\* Two goroutines, two issued tokens, two clock values; no symmetry, for
\* liveness.
SPECIFICATION ClientFairSpec
CONSTANTS
  g1 = g1
  g2 = g2
  NoOne = NoOne
  Callers <- MCCallers
  Expiries = {}
  Margin = 0
  DefaultTTL = 1
  MaxTime = 1
  MaxFetches = 2
INVARIANTS
  ClientTypeOK
  RetryUsesNewToken
  AppliedAtMostOnce
  OkMeansApplied
PROPERTIES
  UsesTokenManager
  EveryRequestEnds
