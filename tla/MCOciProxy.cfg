\* Two requests at a time, three in all, for a tag and a blob, with one token.
\* It stops when no request is left: MaxRequests is a bound of the instance.
CONSTANTS
  Procs = {p1, p2}
  Tags = {latest}
  Manifests = {}
  Blobs = {layer}
  Tokens = {t1}
  NoEntry = NoEntry
  NoAnswer = NoAnswer
  MaxRequests = 3
  MaxVersions = 1
  MaxExpiries = 1
SYMMETRY Symmetry
SPECIFICATION OciSpec
INVARIANTS HitsAreConfirmed CacheHoldsVerified ColdKeyFetchedOnce
PROPERTIES TagsNeverGoBack
CHECK_DEADLOCK FALSE
