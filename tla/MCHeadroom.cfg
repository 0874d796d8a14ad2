\* Two writers of up to two bytes each on a filesystem with up to four free
\* bytes, one of which must stay free, and a byte budget of three.
CONSTANTS
  Holders = {h1, h2}
  MaxBytes = 3
  MinFreeBytes = 1
  HighBasisPoints = 9000
  LowBasisPoints = 7500
  MaxInt = 4
  Sizes <- MCSizes
  FreeReadings <- MCFreeReadings
SYMMETRY Symmetry
SPECIFICATION HeadroomSpec
INVARIANTS ReservedIsOutstanding HeadroomKeptOnFreshReadings
PROPERTIES UsageGrowsWithinBudget
