SPECIFICATION Spec
CONSTANTS
  t1 = t1
  t2 = t2
  a1 = a1
  a2 = a2
  b1 = b1
  Tabs = {t1, t2}
  Calls = {a1, b1}
  TabOf <- OneCallEach
  Keys = {k1, k2}
  Grants = {g1, g2, g3}
  Kinds = {"key", "session", "refresh", "clearSession", "clearInstallation"}
  None = None
  Corrupt = Corrupt
  Dead = Dead
  MayLapse = FALSE
  Repeat = TRUE
SYMMETRY Symmetry
INVARIANTS
  ManagerInv
  SubmittedTokenIsStored
  StoredTokenLives
PROPERTIES
  FirstUseKept
  ReturnsCommittedSession
