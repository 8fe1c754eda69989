\* Two processes, each with its own name, scheduled fairly; the handlers of both
\* make calls of their own, and somebody may deregister a.
CONSTANTS
  a = a
  b = b
  p1 = p1
  p2 = p2
  Name = {a, b}
  Port = {p1, p2}
  None = None
  Zero = Zero
  Serves <- Own
  Retired = {a}
  Wanted = {}
  Calling = {p1, p2}
  Unreliable = {}
SPECIFICATION FairSpec
PROPERTIES DeadIsPurged DelegateReturns
