CONSTANTS
  x = x
  y = y
  p1 = p1
  p2 = p2
  l = l
  s = s
  Payload = {x}
  Leg = {l, s}
  LongLeg <- Long
  ShortLeg <- Short
  Qty <- One
  Proc = {p1, p2}
  PayloadFiles <- AllSound
  Limits = {1}
  Explicit = {0, 2}
  MaxAttempt = 2
SPECIFICATION Spec
SYMMETRY CloserSymmetry
PROPERTY CloseWindow
PROPERTY CloseHaltWindow
