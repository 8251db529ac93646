SPECIFICATION FairSpec
CONSTANTS
  NoEndpoint = NoEndpoint
  Calls <- MCCalls
INVARIANTS
  InnocentsJudged
  EachAskedOnce
  CoreStartsBounded
  NoConflictStarted
PROPERTIES
  Termination
\* the call returns
CHECK_DEADLOCK FALSE
