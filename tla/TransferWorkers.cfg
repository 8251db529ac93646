SPECIFICATION WorkersSpec
CONSTANTS
  ReserveMargin = 8
  ReserveHeadroom = 120
  TransferTestLimit = 48
  MinWorkers = 2
  MaxWorkers = 8
  InitialWorkers = 4
  BatchSize = 32
  EventsPerTest = 2
INVARIANTS
  RecoversInStep
  BacksOff
\* the test budget ends the gate
CHECK_DEADLOCK FALSE
