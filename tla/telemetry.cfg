\* Two handler goroutines for three arrivals, one /health poll at a time, the
\* sampler and two callers of Close, all interleaved.
SPECIFICATION Spec
CONSTANTS
  Requests = {r1, r2}
  Pollers = {h1}
  Closers = {c1, c2}
  Routes = {"collect", "form"}
  MaxArrivals = 3
  MaxTicks = 2
SYMMETRY Symmetry
INVARIANTS
  TypeOK
  InFlightExact
  PublishedLoadIsBacked
  BoundedSkew
  WholeTickAtRest
PROPERTIES
  StopContract
CHECK_DEADLOCK FALSE
