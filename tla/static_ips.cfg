SPECIFICATION Spec
CONSTANTS
  s1 = s1
  s2 = s2
  n1 = n1
  n2 = n2
  h1 = h1
  h2 = h2
  None = None
  Services = {s1, s2}
  Nodes = {n1, n2}
  Handlers = {h1, h2}
  MaxIP = 3
  MaxRequests = 4
  Replicas = 1
  MaxReplicas = 2
  MaxTries = 2
  MaxEvents = 1
SYMMETRY Symmetric
INVARIANTS TypeOK MembersOwnTheirIPs CreatedIsReady
CHECK_DEADLOCK FALSE
