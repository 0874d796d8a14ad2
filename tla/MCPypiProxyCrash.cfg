CONSTANTS
  c1 = c1 c2 = c2
  Holders = {u1, u2}
  Readers = {}
  Files = {f1, f2}
  Contents = {c1, c2}
  SizeOf <- OneOrTwoBytes
  NoFile = NoFile Torn = Torn NoDigest = NoDigest Index = Index NoEntry = NoEntry
  Links <- MCLinks
  Faults = {}
  Clients <- MCClients
  Varies <- MCVaries
  Budgets <- CrashBudgets
  MaxBytes = 6
  MinFreeBytes = 0
  HighBasisPoints = 9000
  LowBasisPoints = 7500
  MaxInt = 9
  Sizes <- MCSizes
  FreeReadings <- MCFreeReadings
SYMMETRY Symmetry
VIEW Observed
SPECIFICATION PypiSpec
INVARIANT ProjectStaysListable
