SPECIFICATION Spec
CONSTANTS
  Functions <- MCFunctions
  Programs <- MCPrograms
  Outcomes <- MCOutcomes
INVARIANT LabelsExact
INVARIANT JumpsReachTarget
INVARIANT HandlersRun
INVARIANT StrictFollowsCode
CHECK_DEADLOCK FALSE
