\* The documented meaning of InFlight, against the routes New really tracks.
SPECIFICATION Spec
CONSTANTS
  Requests = {r1, r2}
  Pollers = {}
  Closers = {}
  Routes = {"collect", "evaluate", "precheck", "definition"}
  MaxArrivals = 3
  MaxTicks = 0
INVARIANTS
  InFlightAsDocumented
CHECK_DEADLOCK FALSE
