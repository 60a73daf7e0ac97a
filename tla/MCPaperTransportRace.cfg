CONSTANTS
  a = a
  b = b
  t1 = t1
  t2 = t2
  p1 = p1
  p2 = p2
  r1 = r1
  r2 = r2
  None = None
  Payload = {a}
  Terms = {t1, t2}
  Proc = {p1, p2}
  Reviewer = {r1}
  Files <- RaceFiles
  Limits = {2}
  LiveSources = {"none"}
  WriteModes = {FALSE}
SPECIFICATION Spec
SYMMETRY RunSymmetry
INVARIANT OneOrderPerPayload
PROPERTY ApprovalWindow
PROPERTY HaltWindow
PROPERTY DecisionWindow
PROPERTY ImplementsApprovedOnce
