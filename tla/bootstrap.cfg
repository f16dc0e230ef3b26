SPECIFICATION Spec
CONSTANTS
    Runs = {r1, r2}
    NPackages = 2
    MaxAttempts = 2
    MaxChanges = 3
SYMMETRY Symmetry
INVARIANTS
    BootInv
    CompletedIsRight
    ResumesAfterFailure
PROPERTIES
    RemovesOnlyAlias
CHECK_DEADLOCK FALSE
