SPECIFICATION StoreSpec
CONSTANTS
  k1 = k1
  k2 = k2
  k3 = k3
  k4 = k4
  k5 = k5
  w1 = w1
  w2 = w2
  Keys <- MCKeys
  Rewrites <- MCRewrites
  NoKey = NoKey
  NoRewrite = NoRewrite
  Capacity = 3
INVARIANTS
  Consistent
  NeverStale
  Retention
PROPERTIES
  EvictsOldestOnly
