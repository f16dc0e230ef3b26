CONSTANTS
    N = 2
    Bytes <- MCBytes
    Malformed <- MCMalformed
    Unusable <- MCUnusable
    Builds <- MCBuilds
    NRuns = 2
    NAttempts = 2
    NDocs = 1
    Foreign = Foreign
    None = None
SPECIFICATION Spec
INVARIANTS PubInv RecordsTrue RefusesOnlyForCause
PROPERTIES PreflightsWholeSet
CHECK_DEADLOCK FALSE
