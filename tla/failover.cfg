SPECIFICATION Spec
CONSTANTS
  n1 = n1
  n2 = n2
  m1 = m1
  t1 = t1
  t2 = t2
  None = None
  Nodes = {n1, n2}
  Members = {m1}
  Tasks = {t1, t2}
  Kinds = {"primary", "journal"}
  Zone <- OneZone
  NamedMembers = FALSE
  RegisterDNS = TRUE
  RequireStaticIP = FALSE
  MaxFaults = 1
  MaxCrashes = 1
SYMMETRY NodeSymmetry
INVARIANTS
  TypeOK
  MountedWhereAttached
  ConnectionsCoverRefs
PROPERTY ImplementsPromise
