SPECIFICATION FairSpec
CONSTANTS
  None = None
  k1 = k1
  k2 = k2
  k3 = k3
  t1 = t1
  t2 = t2
  Keys <- AllKeys
  Texts <- AllTexts
  Paths <- AllPaths
  Batches <- SomeBatches
  Dir = Dir
  Part = Part
  Torn = Torn
  Foreign = Foreign
  MaxBatch = 2
  MaxFiles = 2
  MaxCancels = 0
  MaxLates = 0
  MaxTouches = 0
  MaxTurns = 1
  MaxMessages = 1
  MaxCrashes = 0
PROPERTIES KilledInTime
CHECK_DEADLOCK FALSE
