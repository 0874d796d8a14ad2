\* Two requests for two keys, so that a client that stops reading holds up one
\* key and not the other; the repository forwards credentials.  It stops when
\* no request is left: MaxRequests is a bound of the instance.
CONSTANTS
  Procs = {p1, p2}
  Keys = {k1, k2}
  Users = {alice}
  Anonymous = Anonymous
  ForwardAuthorization = TRUE
  NoEntry = NoEntry
  NoAnswer = NoAnswer
  MaxRequests = 2
  MaxVersions = 1
  MaxExpiries = 1
SPECIFICATION FairNpmSpec
INVARIANTS OneFetcherPerKey ColdKeyFetchedOnce AnswersStayPrivate RequestsAreCounted
PROPERTIES EntriesNeverGoBack RequestsFinish
CHECK_DEADLOCK FALSE
