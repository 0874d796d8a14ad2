CONSTANTS
  s1 = s1 s2 = s2 k1 = k1 k2 = k2
  Holders = {w1}
  Stores = {s1, s2}
  Keys = {k1, k2}
  StoreOf <- TwoStores
  Gens = {g1, g2}
  Legacy = Legacy NoPath = NoPath NoKey = NoKey NoOne = NoOne Collector = Collector
  Faults = {"unlink", "replace", "walk"}
  MaxCrashes = 1
  StartSizes <- OneByte
  MaxBytes = 3
  MinFreeBytes = 0
  HighBasisPoints = 9000
  LowBasisPoints = 2500
  MaxInt = 6
  Sizes <- TwoBytes
  FreeReadings <- MCFreeReadings
SYMMETRY Symmetry
VIEW Observed
SPECIFICATION CollectionSpec
INVARIANTS LedgerMatchesStores CommitNeverRefused
PROPERTIES OnlyCollectedEntriesGo
