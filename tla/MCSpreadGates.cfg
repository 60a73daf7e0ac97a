CONSTANTS
  None = None
  Boards <- SomeBoards
  MaxRisks = {150, 350}
  Quantities = {0, 2}
  SpreadPct = 25
SPECIFICATION Spec
INVARIANT TypeOK
INVARIANT ReadyRowsAreSound
INVARIANT ReadyRowsClearPolicy
INVARIANT ReadyRowsPriceTheirLegs
