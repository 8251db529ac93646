SPECIFICATION Spec
CONSTANTS
  Sources = {s1, s2, s3}
  MaxFailures = 2
  MaxEmpty = 2
  MaxLow = 1
  MinRuns = 1
  RetiredCooldown = 1
  QualityCooldown = 1
  MaxActive = 2
  MaxProven = 1
  MaxNewActive = 1
  BootstrapNew = 2
  MaxUnchecked = 1
  MaxNew = 2
  MaxRefresh = 1
  MaxRegistry = 2
  MaxCommits = 0
SYMMETRY SourceSymmetry
INVARIANTS
  PruningIsSafe
  SlotsShared
