CONSTANTS
  Samples <- SampleTexts
  Edits = 2
  MaxDepth = 2
  MaxBytes = 9
  Deviations = 2
  MaxFeatures = 2
  Flaws = 2
SPECIFICATION Spec
INVARIANTS
  ReadsStrictly
  StoredIsKept
  ActsOnCanonicalRefusal
CHECK_DEADLOCK FALSE
