SPECIFICATION FairSpec
CONSTANTS
  c1 = c1
  Clients = {c1}
  MaxQueueSize = 2
  CancelAt = {"idle", "saving", "stored"}
  MaxEvents = 4
  MaxTurns = 2
  MaxChunks = 1
  MaxDrops = 1
  MaxFaults = 1
  MaxCrashes = 1
INVARIANTS TypeOK
PROPERTIES GaplessFeed CaughtUp
CHECK_DEADLOCK FALSE
