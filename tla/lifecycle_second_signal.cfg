\* A second signal while the first one is being honoured.
SPECIFICATION LifeSpec
CONSTANTS
  Requests = {r1}
  Pollers = {}
  Closers = {main}
  Main = main
  Routes = {"collect"}
  MaxArrivals = 1
  MaxTicks = 0
  MaxSignals = 2
INVARIANTS
  DrainIsGivenItsTime
CHECK_DEADLOCK FALSE
