\* The instance of Routing.cfg; no service has to crash.
CONSTANTS
  c1 = c1
  s = s
  t = t
  None = None
  Service = {s, t}
  Client = {c1}
  Calls <- Mutual
  Traced <- Marked
SPECIFICATION FairSpec
PROPERTIES ChecksRecur
