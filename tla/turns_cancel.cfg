SPECIFICATION FairSpec
CONSTANTS
  None = None
  c0 = c0
  s1 = s1
  s2 = s2
  k1 = k1
  k2 = k2
  Orgs = {"own", ""}
  Contexts <- Logs
  Creator = c0
  Senders = {s1}
  Cancels = {k1, k2}
  WithFiles = {c0, s1}
  BadUpload = {c0, s1}
  BadStart = {s1}
  Limited = {s1}
  Cleanups = {}
  FaultAt = {"seeding", "marking"}
  MaxEvents = 0
  MaxFaults = 1
  MaxLates = 1
  MaxCrashes = 1
INVARIANTS StatusIsTrue
PROPERTIES LogGrows EveryRequestEnds
CHECK_DEADLOCK FALSE
