\* Three requests for two keys; as many lock objects as requests.  No symmetry, for
\* the sake of liveness.
CONSTANTS
  Procs = {p1, p2, p3}
  Keys = {k1, k2}
  Items = {i1, i2, i3}
  NoItem = NoItem
  NoProc = NoProc
SPECIFICATION FairLockerSpec
INVARIANTS MutualExclusion MapHoldsKeysInUse
PROPERTIES ImplementsMutex WaitersEnter
