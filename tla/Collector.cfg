SPECIFICATION Spec
CONSTANTS
  e1 = e1
  e2 = e2
  e3 = e3
  none = none
  Config <- MCConfig
  NoEndpoint = none
  Bodies <- MCBodies
  Sources = {1, 2}
  MaxRedirects = 2
  Retries = 2
  Downloads = 2
  Latencies = {1, 2}
  Cap = 6
  MaxLight = 4
  MaxVariants = 2
  MaxAll = 4
  MaxPerEndpoint = 3
INVARIANTS
  SourcesAskedSafely VerdictIsOwn SourcesAreCredited ListsHoldTheBest FilesInOrder
PROPERTIES Ends
