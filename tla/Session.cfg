\* The four parties of a call are processes of their own, and all of them may stop.
CONSTANTS
  client = client
  near = near
  far = far
  server = server
  None = None
  Process = {client, near, far, server}
  Home <- Hosts
  Unreliable = {client, near, far, server}
SPECIFICATION FairSpec
INVARIANTS TypeOK ObjectInHand BrokenForAReason NeverStuck
PROPERTIES ImplementsCall SessionsEnd NearerToTheEnd
