SPECIFICATION Spec
CONSTANTS
  None = None
  Session = 2
  Days <- TwoDays
  Packets <- SomePackets
  Stagings <- SomeStagings
  Exports <- SomeExports
  Trees <- SomeTrees
  Samples <- SomeSamples
  MaxArrivals = 1
INVARIANTS
  TypeOK
  LabelsAreExact
  RawFillsGapsOnce
  CandidatesAreTheStaged
  ReplayKnowsAsMuch
  CsvKeepsCandidates
CHECK_DEADLOCK FALSE
