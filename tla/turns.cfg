SPECIFICATION FairSpec
CONSTANTS
  None = None
  c0 = c0
  s1 = s1
  s2 = s2
  k1 = k1
  k2 = k2
  Orgs = {"own", ""}
  Contexts <- Logs
  Creator = c0
  Senders = {s1, s2}
  Cancels = {}
  WithFiles = {s1}
  BadUpload = {s1}
  BadStart = {}
  Limited = {}
  Cleanups = {c0}
  FaultAt <- TurnFaults
  MaxEvents = 1
  MaxFaults = 2
  MaxLates = 0
  MaxCrashes = 0
INVARIANTS TypeOK StatusIsTrue EndedTurnsAreClosed
PROPERTIES LogGrows ComesToRest
CHECK_DEADLOCK FALSE
