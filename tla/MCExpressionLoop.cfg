SPECIFICATION Spec
SYMMETRY OperatorSymmetry
CONSTANTS
  None = None
  Boards <- SomeBoards
  Chains <- SomeChains
  MaxSymbols = 1
  RiskCap = 300
  Tables <- SomeTables
  Manual <- SomeManual
  Operators = {o1, o2}
  MaxReviews = 1
INVARIANTS
  MarksFollowTheRanking
  AuditIsFounded
  ApprovedIsUnrivalled
  ReadyReviewsAreSound
CHECK_DEADLOCK FALSE
