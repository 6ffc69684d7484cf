SPECIFICATION Spec
CONSTANTS
  s1 = s1
  s2 = s2
  Skills = {s1, s2}
  OneTurn = {s1}
  Size <- Sizes
  SkillBudget = 2
  Batches <- AllBatches
  MaxToolCalls = 2
  MaxActive = 2
  KeepLastTurns = 1
  MaxPersisted = 6
  MaxTurns = 3
  MaxCalls = 4
  MaxStops = 1
  MaxErrors = 1
INVARIANTS TypeOK CallsAnswered CallsClosed ContextShown SkillsShown LoopGuard
PROPERTIES NothingForgotten
CHECK_DEADLOCK FALSE
