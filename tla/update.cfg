SPECIFICATION Spec
CONSTANTS
  s1 = s1
  s2 = s2
  u1 = u1
  h1 = h1
  h2 = h2
  None = None
  Services = {s1, s2}
  UUIDs = {u1}
  Handlers = {h1, h2}
  MaxDevice = 1
  HasJournal = FALSE
  Replicas = 1
  ScaleTargets = {2}
  Ops = {"create", "init", "scale", "stop", "start", "resource", "delete"}
  Overlaps <- UpdateOverlap
  MaxDeviceRetry = 1
  MaxFaults = 0
  MaxCrashes = 1
SYMMETRY Symmetric
INVARIANTS
  TypeOK
  NoOrphanMember
  TasksHaveMembers
PROPERTY NoLostUpdate
CHECK_DEADLOCK FALSE
