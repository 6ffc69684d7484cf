SPECIFICATION FairSpec
CONSTANTS
  None = None
  t1 = t1
  t2 = t2
  a = a
  b = b
  Turns <- SomeTurns
  Clients <- SomeClients
  Wanted <- SomeWanted
  Offers <- SomeOffers
  Builtins = {"post"}
  Http = "post"
  MaxCalls = 2
INVARIANTS TypeOK NothingLeaks ConnectedIsOpen ShownIsRun ShownIsReady
PROPERTIES CancelEnds
CHECK_DEADLOCK FALSE
