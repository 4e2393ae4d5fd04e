SPECIFICATION FairSpec
CONSTANTS
  s1 = s1
  s2 = s2
  u1 = u1
  u2 = u2
  h1 = h1
  h2 = h2
  None = None
  Services = {s1, s2}
  UUIDs = {u1, u2}
  Handlers = {h1, h2}
  MaxDevice = 4
  HasJournal = TRUE
  Replicas = 1
  ScaleTargets = {}
  Ops = {"create"}
  Overlaps <- CreateOverlap
  MaxDeviceRetry = 2
  MaxFaults = 1
  MaxCrashes = 0
PROPERTY CreationCompletes
INVARIANTS
  DeviceUnique
  MembersComplete
