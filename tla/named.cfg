SPECIFICATION FairSpec
CONSTANTS
  n1 = n1
  n2 = n2
  m1 = m1
  m2 = m2
  t1 = t1
  t2 = t2
  None = None
  Nodes = {n1, n2}
  Members = {m1, m2}
  Tasks = {t1, t2}
  Kinds = {"primary"}
  Zone <- OneZone
  NamedMembers = TRUE
  RegisterDNS = FALSE
  RequireStaticIP = FALSE
  MaxFaults = 1
  MaxCrashes = 1
INVARIANTS
  CachedIsMounted
PROPERTY RequestsReturn
