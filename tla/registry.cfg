\* Any order of registrations of three definitions and three providers.
SPECIFICATION Spec
CONSTANTS
  Defs = {d1, d2, d3}
  Ids = {i1, i2}
  Providers = {p1, p2, p3}
  Keys = {k1, k2}
  None = None
  EmptyId = EmptyId
  Capacity = 2
  MaxOpts = 4
SYMMETRY Symmetry
INVARIANTS
  TypeOK
  LookupIsSound
  EndpointOnce
PROPERTIES
  FirstWins
