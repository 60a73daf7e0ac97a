CONSTANTS
  a = a
  b = b
  t1 = t1
  t2 = t2
  p1 = p1
  p2 = p2
  r1 = r1
  r2 = r2
  None = None
  Payload = {a}
  Terms = {t1}
  Proc = {p1}
  Reviewer = {r1, r2}
  Files <- EnvFiles
  Limits = {2}
  LiveSources = {"none", "dotenv", "exported"}
  WriteModes = {TRUE, FALSE}
SPECIFICATION FairSpec
PROPERTY LiveEnvNeverOrders
PROPERTY RunEnds
