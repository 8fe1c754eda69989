\* A client calls two services, which may crash, and their handlers call each
\* other; the requests of t to s have a trace id.
CONSTANTS
  c1 = c1
  s = s
  t = t
  None = None
  Service = {s, t}
  Client = {c1}
  Calls <- Mutual
  Traced <- Marked
SPECIFICATION FairSpec
INVARIANTS TypeOK FailureMeansDown OnlyCirclesHoldUp
PROPERTIES CallsEnd ChecksEnd CircleHolds ImplementsCalls
