CONSTANTS
  None = None
  a = a
  b = b
  x = x
  Run = {r1, r2}
  Name = {a, b, x}
  Accepted = {a, b}
  Normal <- Normals
  Rank <- Ranks
  CommandLine <- Wakes
SPECIFICATION Spec
SYMMETRY Symmetry
INVARIANT StagedFilesThere
