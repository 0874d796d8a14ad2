CONSTANTS
  s1 = s1 s2 = s2 k1 = k1 k2 = k2
  Holders = {w1}
  Stores = {s1}
  Keys = {k1}
  StoreOf <- OneStore
  Gens = {g1, g2}
  Legacy = Legacy NoPath = NoPath NoKey = NoKey NoOne = NoOne Collector = Collector
  Faults = {"io", "unlinkTemp"}
  MaxCrashes = 0
  StartSizes <- TwoBytes
  MaxBytes = 4
  MinFreeBytes = 0
  HighBasisPoints = 9000
  LowBasisPoints = 2500
  MaxInt = 5
  Sizes <- TwoBytes
  FreeReadings <- LiveFreeReadings
SPECIFICATION FairCollectionSpec
INVARIANT NoOrphanBodies
PROPERTIES CollectionEnds ImplementsEntryCache
