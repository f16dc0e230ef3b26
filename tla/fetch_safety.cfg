SPECIFICATION Spec
CONSTANTS
  Requests = {r1, r2}
  MaxTokens = 3
  Nonces = {n1, n2}
  None = None
  Unusable = Unusable
SYMMETRY Symmetry
INVARIANTS
  FetchInv
  AtMostOneDispatch
  RetriesWithFreshToken
PROPERTIES
  ClearsOnlyRevoked
