SPECIFICATION FairSpec
CONSTANTS
  None = None
  c0 = c0
  s1 = s1
  s2 = s2
  k1 = k1
  k2 = k2
  Orgs = {"own", ""}
  Contexts <- Logs
  Creator = c0
  Senders = {s1, s2}
  Cancels = {}
  WithFiles = {s1}
  BadUpload = {s1}
  BadStart = {s1}
  Limited = {}
  Cleanups = {c0}
  FaultAt = {}
  MaxEvents = 1
  MaxFaults = 0
  MaxLates = 0
  MaxCrashes = 0
INVARIANTS WorkingHasOwner
CHECK_DEADLOCK FALSE
