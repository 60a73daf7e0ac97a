SPECIFICATION AdvisorySpec
CONSTANTS
  None = None
  Boards <- SomeBoards
  Chains <- SomeChains
  MaxSymbols = 2
  RiskCap = 300
  Tables = {}
  Manual = {}
  Operators = {}
  MaxReviews = 0
  NoteSets <- SomeNotes
  Overrides <- SomeOverrides
  PrivateNotes <- SomePrivate
  SpyTables <- SomeSpy
  MaxChanges = 2
INVARIANTS
  ActionFollowsCause
  RegimesAgree
  ReadinessFollowsNotes
PROPERTIES
  ReadyIsFounded
  WatchIsBacked
CHECK_DEADLOCK FALSE
