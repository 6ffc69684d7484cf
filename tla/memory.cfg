SPECIFICATION FairSpec
CONSTANTS
  None = None
  Empty = Empty
  Torn = Torn
  c1 = c1
  c2 = c2
  u = u
  v = v
  Convs = {c1, c2}
  Slots = {1, 2}
  Segments = {"a", "b"}
  Values = {u, v}
  Keys <- Named
  Batches <- Messages
  MaxEdits = 3
  MaxTurns = 3
  MaxFaults = 1
  MaxCancels = 1
  MaxCrashes = 1
INVARIANTS TypeOK LastNoteWins PadIsSound
PROPERTIES OneKeyAtATime Recalled EverySaveEnds
CHECK_DEADLOCK FALSE
