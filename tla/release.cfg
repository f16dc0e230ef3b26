SPECIFICATION Spec
CONSTANTS
  Runs = {r1, r2}
  Flaky = {r1}
  Fixed = {tarball}
  Packages = {client}
  Stray = Stray
  None = None
  MaxWrites = 1
INVARIANTS
  ReleaseInv
  VerifiedIsRight
  PublishesWhatItVerified
PROPERTIES
  ResumesAfterFailure
CHECK_DEADLOCK FALSE
