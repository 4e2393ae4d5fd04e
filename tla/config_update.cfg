SPECIFICATION Spec
CONSTANTS
  a = a
  b = b
  p1 = p1
  q1 = q1
  q2 = q2
  None = None
  Contents = {a, b}
  CreateContents = {a, b}
  Creators = {p1}
  Updaters = {q1, q2}
  MaxVersion = 2
  MaxOther = 1
  MaxFaults = 1
SYMMETRY Symmetric
INVARIANTS
  TypeOK
  CurrentFileKept
PROPERTY MountServesRecord
