SPECIFICATION Spec
CONSTANTS
  NoEndpoint = NoEndpoint
  Calls <- MCStrict
INVARIANTS
  InnocentsJudged
\* the call returns
CHECK_DEADLOCK FALSE
