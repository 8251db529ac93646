SPECIFICATION PolicySpec
CONSTANTS
  Policies <- MCPolicies
  StrictAttempts = 6
  LateStreak = 2
  SecondaryAttempts = 2
  SecondaryMin = 1
INVARIANTS
  VerdictIsPolicy
\* the verdict ends it
CHECK_DEADLOCK FALSE
