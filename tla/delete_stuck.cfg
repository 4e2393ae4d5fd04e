SPECIFICATION FairSpec
CONSTANTS
  s1 = s1
  u1 = u1
  u2 = u2
  h1 = h1
  None = None
  Services = {s1}
  UUIDs = {u1, u2}
  Handlers = {h1}
  MaxDevice = 1
  HasJournal = FALSE
  Replicas = 1
  ScaleTargets = {}
  Ops = {"create", "delete"}
  Overlaps <- NoOverlap
  MaxDeviceRetry = 1
  MaxFaults = 0
  MaxCrashes = 1
PROPERTY DeletionCompletes
