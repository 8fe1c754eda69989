\* Two services; nothing ever fails.
CONSTANTS
  Name = {a, b}
  Payload = {1, 6}
  Unreliable = {}
  MaxEvents = 3
  None = None
SPECIFICATION Spec
INVARIANTS NothingLost
