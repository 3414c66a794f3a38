\* As MCApiClient, for what a retry sends: no fairness.
SPECIFICATION ClientSpec
CONSTANTS
  g1 = g1
  g2 = g2
  NoOne = NoOne
  Callers <- MCCallers
  Expiries = {}
  Margin = 0
  DefaultTTL = 1
  MaxTime = 1
  MaxFetches = 2
INVARIANTS
  RetryIsWhole
