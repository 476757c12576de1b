\* Two servers and a registration over one definition of two rules, whose
\* builds overlap in any way, with fairness.
SPECIFICATION FairSpec
CONSTANTS
  Builders = {s1, s2, reg}
  Servers = {s1, s2}
  NumRules = 2
  None = None
INVARIANTS
  BuiltIsWhole
  UndisturbedIsWhole
PROPERTIES
  EventuallyWhole
