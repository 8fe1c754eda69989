\* Two processes that share the name a, one of which serves b too and makes calls
\* of its own; ICE and Atreus may stop at any time, and somebody may deregister a.
CONSTANTS
  a = a
  b = b
  p1 = p1
  p2 = p2
  Name = {a, b}
  Port = {p1, p2}
  None = None
  Zero = Zero
  Serves <- Shared
  Retired = {a}
  Wanted = {a}
  Calling = {p2}
  Unreliable = {"ice", "atreus"}
SPECIFICATION Spec
INVARIANTS TypeOK LocalIsDiscoverable VerdictFresh NobodyForgotten
