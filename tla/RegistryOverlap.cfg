SPECIFICATION Spec
CONSTANTS
  Sources = {s1}
  MaxFailures = 5
  MaxEmpty = 3
  MaxLow = 2
  MinRuns = 1
  RetiredCooldown = 1
  QualityCooldown = 2
  MaxActive = 2
  MaxProven = 1
  MaxNewActive = 1
  BootstrapNew = 2
  MaxUnchecked = 1
  MaxNew = 2
  MaxRefresh = 2
  MaxRegistry = 2
  MaxCommits = 1
PROPERTIES
  OnlyOldRunsRevive
