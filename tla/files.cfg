SPECIFICATION FairSpec
CONSTANTS
  None = None
  k1 = k1
  k2 = k2
  k3 = k3
  t1 = t1
  t2 = t2
  Keys <- AllKeys
  Texts <- AllTexts
  Paths <- AllPaths
  Batches <- SomeBatches
  Dir = Dir
  Part = Part
  Torn = Torn
  Foreign = Foreign
  MaxBatch = 2
  MaxFiles = 2
  MaxCancels = 1
  MaxLates = 1
  MaxTouches = 1
  MaxTurns = 2
  MaxMessages = 2
  MaxCrashes = 1
INVARIANTS TypeOK FilesKept NumbersMatch OkHolds
PROPERTIES CallsEnd
CHECK_DEADLOCK FALSE
