\* The Ref of the observations of a sibling.
SPECIFICATION Spec
CONSTANTS
  Names = {n1}
  NoMap = NoMap
  Keys = {k1}
  MaxSiblings = 1
  MaxRules = 0
INVARIANTS
  RefMatchesEntry
CHECK_DEADLOCK FALSE
