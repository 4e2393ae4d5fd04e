SPECIFICATION FairSpec
CONSTANTS
  h1 = h1
  h2 = h2
  u1 = u1
  u2 = u2
  c1 = c1
  c2 = c2
  None = None
  Platforms = {"ecs", "swarm", "k8s"}
  Handlers = {h1, h2}
  UUIDs = {u1, u2}
  Changes = {c1, c2}
  HasJournal = TRUE
  Counts = {2}
  Replicas = 1
  MaxRequests = 2
  MaxFaults = 1
  MaxCrashes = 1
INVARIANTS
  TypeOK
  AckedChangesKept
  OwnObjects
PROPERTY DeletionEnds
CHECK_DEADLOCK FALSE
