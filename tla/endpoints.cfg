\* Every provider, every definition of up to two rules, every request.
SPECIFICATION Spec
CONSTANTS
  Names = {n1, n2}
  NoMap = NoMap
  MaxRules = 2
  MaxProduced = 2
INVARIANTS
  CollectAgreesWithEvaluate
  CollectedIsSent
  StatesAreAttributed
  FailuresReported
CHECK_DEADLOCK FALSE
