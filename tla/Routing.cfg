SPECIFICATION Spec
CONSTANT Calls <- MCCalls
INVARIANTS
  VerdictsAreJudged
  OutagesAreContained
  OneCoreVerifies
  ScreeningKeepsUsable
  EvidenceComparable
\* a recorded or aborted batch is the end
CHECK_DEADLOCK FALSE
