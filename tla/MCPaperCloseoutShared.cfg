CONSTANTS
  x = x
  y = y
  p1 = p1
  p2 = p2
  l = l
  s = s
  Payload = {x, y}
  Leg = {l, s}
  LongLeg <- Long
  ShortLeg <- Short
  Qty <- One
  Proc = {p1}
  PayloadFiles <- MixedShapes
  Limits <- NoLimit
  Explicit = {0}
  MaxAttempt = 1
SPECIFICATION Spec
SYMMETRY PayloadSymmetry
INVARIANT ClosesFollowFills
INVARIANT FilledRowsReal
INVARIANT SubmittedClosesReal
