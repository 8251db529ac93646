SPECIFICATION FairSpec
CONSTANTS
  c1 = c1
  c2 = c2
  c3 = c3
  c4 = c4
  c5 = c5
  NoEndpoint = NoEndpoint
  Configs <- MCConfigs
  Endpoint <- MCEndpoint
  Family <- MCFamily
  Waves <- MCTwoWaves
  Limit = 2
  MaxEndpoint = 1
  MaxFamily = 2
  RecheckFamily = 2
  RecheckLimit = 3
  MaxAttempts = 2
  StabilityLimit = 4
  StabilityBatchSize = 2
  TransferBatchSizes = {1, 2}
  TransferTestLimit = 3
  StreamLimit = 2
  StreamBatchSize = 1
  ReserveMargin = 1
  ReserveHeadroom = 3
  MinWorkers = 2
  MaxWorkers = 4
INVARIANTS
  TypeOK
  PassesFitTogether
  PublishesEveryStreamPass
  WaveNeverFillsGate
  BudgetsKept
  GatesExhausted
PROPERTIES
  VerdictsAreFinal
  FunnelPromise
  Termination
\* the program ends
CHECK_DEADLOCK FALSE
