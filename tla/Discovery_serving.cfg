\* One process with one name; nothing but the process ever fails.
CONSTANTS
  a = a
  b = b
  p1 = p1
  p2 = p2
  Name = {a}
  Port = {p1}
  None = None
  Zero = Zero
  Serves <- Everyone
  Retired = {}
  Wanted = {a}
  Calling = {}
  Unreliable = {}
SPECIFICATION FairSpec
PROPERTIES ServingIsAvailable
