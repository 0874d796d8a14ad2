\* Two operators, the loop and the startup run, with up to three ticks and
\* requests in all.
CONSTANTS
  Operators = {o1, o2}
  Startup = Startup
  Loop = Loop
  NoOne = NoOne
  MaxAge = 1
  MaxEvents = 3
SPECIFICATION FairCoordinatorSpec
INVARIANTS RunsDoNotOverlap SnapshotsAreCoherent
PROPERTIES RunsAreRecordedInOrder TicksAreHonoured
