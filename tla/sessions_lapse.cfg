SPECIFICATION Spec
CONSTANTS
  t1 = t1
  t2 = t2
  a1 = a1
  a2 = a2
  b1 = b1
  Tabs = {t1}
  Calls = {a1, a2}
  TabOf <- OneTab
  Keys = {k1, k2, k3}
  Grants = {g1, g2, g3}
  Kinds = {"key", "session", "clearSession", "clearInstallation"}
  None = None
  Corrupt = Corrupt
  Dead = Dead
  MayLapse = TRUE
  Repeat = TRUE
SYMMETRY Symmetry
INVARIANTS
  BoundToLoadedKey
