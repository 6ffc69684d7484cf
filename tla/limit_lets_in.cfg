SPECIFICATION FairSpec
CONSTANTS
  None = None
  c0 = c0
  s1 = s1
  s2 = s2
  k1 = k1
  k2 = k2
  Orgs = {"own", ""}
  Contexts <- Logs
  Creator = c0
  Senders = {s1, s2}
  Cancels = {}
  WithFiles = {s1}
  BadUpload = {}
  BadStart = {}
  Limited = {c0}
  Cleanups = {}
  FaultAt = {}
  MaxEvents = 0
  MaxFaults = 0
  MaxLates = 0
  MaxCrashes = 0
INVARIANTS OneRunner
CHECK_DEADLOCK FALSE
