SPECIFICATION FairSpec
CONSTANTS
  None = None
  p1 = p1
  p2 = p2
  p3 = p3
  a = a
  Procs = {p1, p2, p3}
  Kinds <- TurnAndCanceller
  Stored <- IdleConversation
  Cancellable = {p1}
  CancelAt = {"locking", "read", "opening", "writing", "written", "replacing", "replaced", "failed"}
  Puts = {"idle", "working"}
  Orgs = {"own"}
  Contexts = {a}
  Inodes = {1, 2, 3}
  MaxCalls = 4
  MaxFaults = 0
  MaxCrashes = 0
INVARIANTS DiskIsJson
CHECK_DEADLOCK FALSE
