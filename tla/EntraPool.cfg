SPECIFICATION FairSpec
CONSTANTS
  Slots = {s1, s2}
  SkewSettings = {0, 4}
  LifetimeSetting = 7
  RecycleSetting = 5
  Guard = 2
  MinSkew = 1
  MinLifetime = 4
  MinRecycle = 2
  Lifetimes = {5, 7}
  MaxLogin = 2
  MaxTime = 7
CHECK_DEADLOCK FALSE
INVARIANTS
  PoolInv
  NoRefusal
PROPERTIES
  CheckoutsGetNearer
  EveryCheckoutEnds
