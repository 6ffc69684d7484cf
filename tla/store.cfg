SPECIFICATION FairSpec
CONSTANTS
  None = None
  p1 = p1
  p2 = p2
  p3 = p3
  a = a
  Procs = {p1, p2, p3}
  Kinds <- TurnAndSenders
  Stored <- IdleConversation
  Cancellable = {p1}
  CancelAt = {"locking", "read", "written", "replaced", "failed"}
  Puts = {"idle", "working"}
  Orgs = {"own"}
  Contexts = {a}
  Inodes = {1, 2}
  MaxCalls = 5
  MaxFaults = 1
  MaxCrashes = 1
INVARIANTS TypeOK DiskIsJson OneClaimPerStamp
PROPERTIES Atomic EveryCallEnds
CHECK_DEADLOCK FALSE
