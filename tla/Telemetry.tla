----------------------------- MODULE Telemetry ------------------------------
(***************************************************************************)
(* The part of a checker server that counts its work and reports it on     *)
(* /health (checker/server/server.go): the TrackWork middleware, the       *)
(* load-average sampler goroutine, the /health handler and Close.          *)
(*                                                                         *)
(* All of it is lock-free: handlers, the sampler and /health share three   *)
(* groups of atomics (inFlight, totalRequests, loadBits), each read and    *)
(* written one word at a time, so one action here is at most one atomic    *)
(* access to a word another goroutine may be writing.                      *)
(*                                                                         *)
(* A load average is represented by the number of samples folded into it:  *)
(* the floating-point value is a function of those samples, and what these *)
(* properties tell apart is only which tick a value belongs to.            *)
(***************************************************************************)
EXTENDS Integers, FiniteSets

CONSTANTS
  Requests,       \* slots of handler goroutines, one request at a time each
  Pollers,        \* goroutines serving GET /health
  Closers,        \* goroutines that may call Close
  Routes,         \* the routes clients use, /health excepted
  MaxArrivals,    \* bound: tracked requests started in one behaviour
  MaxTicks        \* bound: ticks of the sampler's ticker in one behaviour

ASSUME FiniteSlots == IsFiniteSet(Requests)
ASSUME BoundsAreNat == MaxArrivals \in Nat /\ MaxTicks \in Nat

VARIABLES
  stage,          \* where each request slot is inside TrackWork
  route,          \* the route each slot is (or was last) serving
  inFlight,       \* Server.inFlight
  totalRequests,  \* Server.totalRequests
  arrivals,       \* history: tracked requests that entered TrackWork
  poll,           \* each poller's progress and the response it is filling
  loadBits,       \* Server.loadBits, as numbers of folded samples
  nextLoad,       \* the sampler's local next: what it is about to store
  sampler,        \* "select", "store" or "done"
  slot,           \* the sampler's loop index while it stores
  tickC,          \* ticks buffered in ticker.C (capacity 1)
  ticks,          \* history: ticks fired so far
  ctx,            \* the sampler's context: "live" or "canceled"
  closeOnce,      \* state of the sync.Once: "new", "running", "done"
  closer          \* progress of each caller of Close

workVars  == <<stage, route, inFlight, totalRequests, arrivals>>
loadVars  == <<loadBits, nextLoad, sampler, slot, tickC, ticks>>
closeVars == <<ctx, closeOnce, closer>>
vars == <<workVars, poll, loadVars, closeVars>>

Windows == 1..3                        \* the 1, 5 and 15 minute averages

\* Routes whose handler New wraps in TrackWork; the remaining ones ("form" is
\* GET /check, "definition" is GET /definition) are registered bare.
TrackedRoutes == {"collect", "precheck", "evaluate", "report", "check"}

Stages == {"idle", "added", "serving", "returned", "panicked"}

\* The requests that TrackWork has counted in and not yet counted out.
Active == {r \in Requests : stage[r] # "idle" /\ route[r] \in TrackedRoutes}

\* The requests between TrackWork's two increments.
Entering == {r \in Requests : stage[r] = "added"}

NoLoad == [w \in Windows |-> 0]

\* A /health response before anything has been read into it.
NewPoll(step) ==
  [step |-> step, load |-> NoLoad, inFlight |-> 0, total |-> 0]

\* Every state of a response under construction.
Responses ==
  [step : 0..5, load : [Windows -> Nat], inFlight : Int, total : Nat]

Init ==
  /\ stage = [r \in Requests |-> "idle"]
  /\ route \in [Requests -> Routes]
  /\ inFlight = 0
  /\ totalRequests = 0
  /\ arrivals = 0
  /\ poll = [h \in Pollers |-> NewPoll(0)]
  /\ loadBits = NoLoad
  /\ nextLoad = NoLoad
  /\ sampler = "select"
  /\ slot = 1
  /\ tickC = 0
  /\ ticks = 0
  /\ ctx = "live"
  /\ closeOnce = "new"
  /\ closer = [c \in Closers |-> "idle"]

-----------------------------------------------------------------------------
(* Requests.  A handler ends by returning or by panicking (net/http         *)
(* recovers the panic of a handler goroutine); the deferred decrement runs  *)
(* either way, after the handler and in a step of its own.                  *)

\* A tracked request arrives: s.inFlight.Add(1).
BeginTracked(r, p) ==
  /\ stage[r] = "idle"
  /\ p \in TrackedRoutes
  /\ arrivals < MaxArrivals
  /\ stage' = [stage EXCEPT ![r] = "added"]
  /\ route' = [route EXCEPT ![r] = p]
  /\ inFlight' = inFlight + 1
  /\ arrivals' = arrivals + 1
  /\ UNCHANGED <<totalRequests, poll, loadVars, closeVars>>

\* A request for a bare route goes straight to its handler.
BeginBare(r, p) ==
  /\ stage[r] = "idle"
  /\ p \notin TrackedRoutes
  /\ stage' = [stage EXCEPT ![r] = "serving"]
  /\ route' = [route EXCEPT ![r] = p]
  /\ UNCHANGED <<inFlight, totalRequests, arrivals, poll, loadVars, closeVars>>

\* Mutant: totalRequests.Add(1) is dropped.
CountForgotten(r) ==
  /\ stage[r] = "added"
  /\ stage' = [stage EXCEPT ![r] = "serving"]
  /\ UNCHANGED <<route, inFlight, totalRequests, arrivals,
                 poll, loadVars, closeVars>>

\* s.totalRequests.Add(1), after which the wrapped handler runs.
CountRequest(r) ==
  /\ stage[r] = "added"
  /\ stage' = [stage EXCEPT ![r] = "serving"]
  /\ totalRequests' = totalRequests + 1
  /\ UNCHANGED <<route, inFlight, arrivals, poll, loadVars, closeVars>>

\* next.ServeHTTP returns, or panics.
HandlerEnds(r, how) ==
  /\ stage[r] = "serving"
  /\ how \in {"returned", "panicked"}
  /\ stage' = [stage EXCEPT
                 ![r] = IF route[r] \in TrackedRoutes THEN how ELSE "idle"]
  /\ UNCHANGED <<route, inFlight, totalRequests, arrivals,
                 poll, loadVars, closeVars>>

\* Mutant: the decrement follows the call instead of being deferred.
LeaveUnlessPanicked(r) ==
  /\ stage[r] \in {"returned", "panicked"}
  /\ stage' = [stage EXCEPT ![r] = "idle"]
  /\ inFlight' = IF stage[r] = "returned" THEN inFlight - 1 ELSE inFlight
  /\ UNCHANGED <<route, totalRequests, arrivals, poll, loadVars, closeVars>>

\* defer s.inFlight.Add(-1)
Leave(r) ==
  /\ stage[r] \in {"returned", "panicked"}
  /\ stage' = [stage EXCEPT ![r] = "idle"]
  /\ inFlight' = inFlight - 1
  /\ UNCHANGED <<route, totalRequests, arrivals, poll, loadVars, closeVars>>

-----------------------------------------------------------------------------
(* GET /health.  poll[h].step is the next read of handleHealth: 1 to 3 the  *)
(* load averages, 4 inFlight, 5 totalRequests; 0 when the response is sent. *)

PollBegin(h) ==
  /\ poll[h].step = 0
  /\ poll' = [poll EXCEPT ![h] = NewPoll(1)]
  /\ UNCHANGED <<workVars, loadVars, closeVars>>

\* Mutant: the averages are read from the 15 minute one down.
PollLoadDown(h) ==
  /\ poll[h].step \in Windows
  /\ LET w == 4 - poll[h].step
     IN poll' = [poll EXCEPT ![h].step = @ + 1, ![h].load[w] = loadBits[w]]
  /\ UNCHANGED <<workVars, loadVars, closeVars>>

PollLoad(h) ==
  /\ poll[h].step \in Windows
  /\ LET w == poll[h].step
     IN poll' = [poll EXCEPT ![h].step = @ + 1, ![h].load[w] = loadBits[w]]
  /\ UNCHANGED <<workVars, loadVars, closeVars>>

PollInFlight(h) ==
  /\ poll[h].step = 4
  /\ poll' = [poll EXCEPT ![h].step = 5, ![h].inFlight = inFlight]
  /\ UNCHANGED <<workVars, loadVars, closeVars>>

PollTotal(h) ==
  /\ poll[h].step = 5
  /\ poll' = [poll EXCEPT ![h].step = 0, ![h].total = totalRequests]
  /\ UNCHANGED <<workVars, loadVars, closeVars>>

-----------------------------------------------------------------------------
(* The sampler goroutine: runSampler.                                       *)

\* The runtime sends on ticker.C; a tick that finds the channel full is
\* dropped, which changes nothing.
TickerFires ==
  /\ sampler # "done"
  /\ tickC = 0
  /\ ticks < MaxTicks
  /\ tickC' = 1
  /\ ticks' = ticks + 1
  /\ UNCHANGED <<loadBits, nextLoad, sampler, slot, workVars, poll, closeVars>>

\* case <-ticker.C: read the averages and the sample, compute the new ones.
\* Nobody else writes loadBits, so reading the three at once loses nothing.
SamplerTick ==
  /\ sampler = "select"
  /\ tickC = 1
  /\ tickC' = 0
  /\ nextLoad' = [w \in Windows |-> loadBits[w] + 1]
  /\ sampler' = "store"
  /\ slot' = 1
  /\ UNCHANGED <<loadBits, ticks, workVars, poll, closeVars>>

\* Mutant: the loop runs one iteration too many.
SamplerStorePastEnd ==
  /\ sampler = "store"
  /\ loadBits' = [loadBits EXCEPT ![slot] = nextLoad[slot]]
  /\ IF slot = 4 THEN sampler' = "select" /\ UNCHANGED slot
                 ELSE slot' = slot + 1 /\ UNCHANGED sampler
  /\ UNCHANGED <<nextLoad, tickC, ticks, workVars, poll, closeVars>>

\* One s.loadBits[i].Store of the loop over next.
SamplerStore ==
  /\ sampler = "store"
  /\ loadBits' = [loadBits EXCEPT ![slot] = nextLoad[slot]]
  /\ IF slot = 3 THEN sampler' = "select" /\ UNCHANGED slot
                 ELSE slot' = slot + 1 /\ UNCHANGED sampler
  /\ UNCHANGED <<nextLoad, tickC, ticks, workVars, poll, closeVars>>

\* Mutant: cancellation is honoured between two stores.
SamplerExitAnywhere ==
  /\ sampler # "done"
  /\ ctx = "canceled"
  /\ sampler' = "done"
  /\ tickC' = 0
  /\ UNCHANGED <<loadBits, nextLoad, slot, ticks, workVars, poll, closeVars>>

\* case <-ctx.Done(): return, running the deferred ticker.Stop and
\* close(s.samplerDone).  With a tick pending too, select picks either.
SamplerExit ==
  /\ sampler = "select"
  /\ ctx = "canceled"
  /\ sampler' = "done"
  /\ tickC' = 0
  /\ UNCHANGED <<loadBits, nextLoad, slot, ticks, workVars, poll, closeVars>>

samplerDone == sampler = "done"

-----------------------------------------------------------------------------
(* Close.  sync.Once runs the function in one caller and keeps the others   *)
(* blocked until that call has returned.                                    *)

CloseEnter(c) ==
  /\ closer[c] = "idle"
  /\ IF closeOnce = "new"
       THEN /\ closeOnce' = "running"
            /\ closer' = [closer EXCEPT ![c] = "cancel"]
       ELSE /\ closer' = [closer EXCEPT ![c] = "blocked"]
            /\ UNCHANGED closeOnce
  /\ UNCHANGED <<ctx, workVars, poll, loadVars>>

CloseCancel(c) ==
  /\ closer[c] = "cancel"
  /\ ctx' = "canceled"
  /\ closer' = [closer EXCEPT ![c] = "await"]
  /\ UNCHANGED <<closeOnce, workVars, poll, loadVars>>

\* Mutant: Close cancels the sampler and returns without waiting for it.
CloseNoWait(c) ==
  /\ closer[c] = "await"
  /\ closeOnce' = "done"
  /\ closer' = [closer EXCEPT ![c] = "returned"]
  /\ UNCHANGED <<ctx, workVars, poll, loadVars>>

\* Mutant: the first caller never lets the concurrent ones through.
CloseKeepsOnce(c) ==
  /\ closer[c] = "await"
  /\ samplerDone
  /\ closer' = [closer EXCEPT ![c] = "returned"]
  /\ UNCHANGED <<ctx, closeOnce, workVars, poll, loadVars>>

\* <-s.samplerDone, and Do returns.
CloseWait(c) ==
  /\ closer[c] = "await"
  /\ samplerDone
  /\ closeOnce' = "done"
  /\ closer' = [closer EXCEPT ![c] = "returned"]
  /\ UNCHANGED <<ctx, workVars, poll, loadVars>>

\* A caller that lost the race gets through once the function has returned.
CloseUnblock(c) ==
  /\ closer[c] = "blocked"
  /\ closeOnce = "done"
  /\ closer' = [closer EXCEPT ![c] = "returned"]
  /\ UNCHANGED <<ctx, closeOnce, workVars, poll, loadVars>>

-----------------------------------------------------------------------------
RequestStep(r) ==
  \/ \E p \in Routes : BeginTracked(r, p) \/ BeginBare(r, p)
  \/ CountRequest(r)
  \/ \E how \in {"returned", "panicked"} : HandlerEnds(r, how)
  \/ Leave(r)

PollStep(h) == PollBegin(h) \/ PollLoad(h) \/ PollInFlight(h) \/ PollTotal(h)

SamplerStep == SamplerTick \/ SamplerStore \/ SamplerExit

CloseStep(c) ==
  CloseEnter(c) \/ CloseCancel(c) \/ CloseWait(c) \/ CloseUnblock(c)

Next ==
  \/ \E r \in Requests : RequestStep(r)
  \/ \E h \in Pollers : PollStep(h)
  \/ TickerFires
  \/ SamplerStep
  \/ \E c \in Closers : CloseStep(c)

Spec == Init /\ [][Next]_vars

-----------------------------------------------------------------------------
(* Properties.                                                              *)

TypeOK ==
  /\ stage \in [Requests -> Stages]
  /\ route \in [Requests -> Routes]
  /\ inFlight \in Int
  /\ totalRequests \in Nat
  /\ arrivals \in Nat
  /\ poll \in [Pollers -> Responses]
  /\ loadBits \in [Windows -> Nat]
  /\ nextLoad \in [Windows -> Nat]
  /\ sampler \in {"select", "store", "done"}
  /\ slot \in Windows
  /\ tickC \in 0..1
  /\ ticks \in Nat
  /\ ctx \in {"live", "canceled"}
  /\ closeOnce \in {"new", "running", "done"}
  /\ closer \in [Closers -> {"idle", "cancel", "await", "blocked", "returned"}]

\* inFlight is exactly the number of tracked requests being processed, through
\* every interleaving of starts and ends and whether or not handlers panic:
\* the gauge never leaks a request (TrackWork's deferred decrement).
InFlightExact == inFlight = Cardinality(Active)

\* The number of in-flight requests a /health response is about to publish is
\* backed by requests that were really started: the ones counted in
\* totalRequests and the ones between TrackWork's two increments.
PublishedLoadIsBacked ==
  \A h \in Pollers :
    poll[h].step = 5 =>
      poll[h].inFlight <= totalRequests + Cardinality(Entering)

\* A /health response may mix ticks (loadBits is read one word at a time), but
\* a longer window never lags a shorter one by more than one sample, however
\* slowly the response is assembled: both loops go from the 1 minute up.
HasRead(h, w) == poll[h].step = 0 \/ w < poll[h].step
BoundedSkew ==
  \A h \in Pollers : \A v, w \in Windows :
    v < w /\ HasRead(h, w) => poll[h].load[w] >= poll[h].load[v] - 1

\* Whenever the sampler is not in the middle of a tick, the three averages
\* belong to the same one; in particular the averages a closed server keeps
\* reporting are those of one instant.
WholeTickAtRest ==
  sampler # "store" => \A v, w \in Windows : loadBits[v] = loadBits[w]

\* Close returns to any of its callers, the first or a concurrent one, only
\* after the sampler goroutine has returned.
ClosedMeansStopped == \A c \in Closers : closer[c] = "returned" => samplerDone

\* Close and the sampler implement the contract of StopOnce, as far as it says
\* what may happen; what must is in ServerLifecycle, with its scheduling.
Contract == INSTANCE StopOnce WITH
  Callers <- Closers,
  running <- ~samplerDone,
  caller  <- [c \in Closers |->
                CASE closer[c] = "idle"     -> "idle"
                  [] closer[c] = "returned" -> "released"
                  [] OTHER                  -> "waiting"]
StopContract == Contract!Safety

\* What the documentation of HealthResponse says of InFlight (types.go): it
\* counts /collect, /evaluate and /report, and not /definition.
DocumentedRoutes == {"collect", "evaluate", "report"}
InFlightAsDocumented ==
  inFlight = Cardinality({r \in Active : route[r] \in DocumentedRoutes})
=============================================================================
