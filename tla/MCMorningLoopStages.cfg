CONSTANTS
  None = None
  a = a
  b = b
  x = x
  Run = {r1, r2}
  Name = {a}
  Accepted = {a}
  Normal <- Normals
  Rank <- Ranks
  CommandLine <- Loops
SPECIFICATION FairSpec
INVARIANT NamedArtifactsExist
INVARIANT LatestIsASnapshot
INVARIANT EndsAreRecorded
PROPERTY SnapshotsAdvance
PROPERTY HaltWindow
PROPERTY RunEnds
