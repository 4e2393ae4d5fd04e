SPECIFICATION Spec
CONSTANTS
  n1 = n1
  n2 = n2
  m1 = m1
  m2 = m2
  t1 = t1
  t2 = t2
  t3 = t3
  None = None
  Nodes = {n1, n2}
  Members = {m1, m2}
  Tasks = {t1, t2, t3}
  Kinds = {"primary"}
  Zone <- OneZone
  NamedMembers = FALSE
  RegisterDNS = TRUE
  RequireStaticIP = TRUE
  MaxFaults = 0
  MaxCrashes = 0
SYMMETRY ClusterSymmetry
INVARIANTS
  NoStrayIP
  OwnerIsLatest
  ServedByItsMember
