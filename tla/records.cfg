SPECIFICATION FairSpec
CONSTANTS
  Backends = {"dynamodb", "k8s", "mem"}
  Tables = {"device", "service", "attr", "member", "file", "ip"}
  Clients = {c1, c2}
  Keys = {1, 2, 3}
  PageSize = 1
  MaxWrites = 4
  None = None
INVARIANTS TypeOK AckedUpdatesKept ListComplete
PROPERTIES KeepsPromise ClientsStart
CHECK_DEADLOCK FALSE
