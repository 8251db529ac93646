SPECIFICATION Spec
CONSTANTS
  c1 = c1
  c2 = c2
  c3 = c3
  c4 = c4
  c5 = c5
  c6 = c6
  NoEndpoint = NoEndpoint
  Configs <- MCConfigs
  Endpoint <- MCEndpoint
  Family <- MCFamily
  Rankings <- MCRankings
  Limit = 4
  MaxEndpoint = 1
  MaxFamily = 2
INVARIANTS
  ReturnsSelection
\* the walk ends
CHECK_DEADLOCK FALSE
