\* Every provider, with up to two siblings and two rules.
SPECIFICATION Spec
CONSTANTS
  Names = {n1}
  NoMap = NoMap
  Keys = {k1, k2}
  MaxSiblings = 2
  MaxRules = 2
INVARIANTS
  OptionsAreIsolated
  RelatedIsComplete
  PageIsComplete
CHECK_DEADLOCK FALSE
