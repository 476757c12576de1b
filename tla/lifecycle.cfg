\* ListenAndServe against two signals, two connections, a tick and a concurrent
\* Close, with fairness.
SPECIFICATION FairLifeSpec
CONSTANTS
  Requests = {r1, r2}
  Pollers = {}
  Closers = {main, user}
  Main = main
  Routes = {"collect"}
  MaxArrivals = 1
  MaxTicks = 1
  MaxSignals = 2
INVARIANTS
  LifeTypeOK
  NeverPanics
  CleanReturnIsDrained
  ReturnStopsSampler
PROPERTIES
  SignalStops
  CallersReturn
  WaiterExits
  StopsGracefully
CHECK_DEADLOCK FALSE
