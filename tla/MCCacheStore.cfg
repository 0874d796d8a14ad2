CONSTANTS
  s1 = s1 s2 = s2 k1 = k1 k2 = k2
  Holders = {w1, w2}
  Stores = {s1}
  Keys = {k1}
  StoreOf <- OneStore
  Gens = {g1, g2, g3}
  Legacy = Legacy NoPath = NoPath NoKey = NoKey NoOne = NoOne Collector = Collector
  Faults = {"io", "unlink"}
  MaxCrashes = 1
  StartSizes <- MCSizes
  MaxBytes = 4
  MinFreeBytes = 0
  HighBasisPoints = 9000
  LowBasisPoints = 7500
  MaxInt = 8
  Sizes <- MCSizes
  FreeReadings <- MCFreeReadings
SYMMETRY Symmetry
VIEW Observed
SPECIFICATION StoreSpec
INVARIANTS HitsServeOneWrite CountersMatchDisk CommitNeverRefused ActiveTempsSurvive DiskUseIsAccounted
PROPERTIES EntryNeverLost
