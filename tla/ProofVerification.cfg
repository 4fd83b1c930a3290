\* One spin, up to two corruptions.
CONSTANTS
  None = None
  s1 = s1
  s2 = s2
  k1 = k1
  k2 = k2
  c1 = c1
  c2 = c2
  Space = 8
  MaxWeight = 3
  MaxValue = 2
  Seeds = {s1, s2}
  ClientSeeds = {k1, k2}
  SpinConfigs = {c1, c2}
  Maps <- MCMaps
  Value <- MCValue
  Attempts = 2
  MaxTime = 1
  MaxChanges = 2
SPECIFICATION Spec
CHECK_DEADLOCK FALSE
INVARIANTS
  TypeOK
  VerifiedIsGenuine
  GenuineVerifies
PROPERTIES
  SchemaAdmits
