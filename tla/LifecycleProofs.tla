-------------------------- MODULE LifecycleProofs ---------------------------
(***************************************************************************)
(* Theorems about ServerLifecycle, for any number of requests, callers of  *)
(* Close and signals.  What TelemetryProofs proves of the server carries   *)
(* over, as a step of ServerLifecycle is one of Telemetry or leaves it as  *)
(* it is.                                                                  *)
(***************************************************************************)
EXTENDS ServerLifecycle, TelemetryProofs

-----------------------------------------------------------------------------
(* The server inside the life cycle.                                        *)

\* The steps that do not concern the requests, the sampler and Close.
Beside ==
  \/ Signal
  \/ \E r \in Requests : Accept(r) \/ Hangup(r)
  \/ BindFails \/ AcceptFails
  \/ Notify \/ CheckShutdown \/ Bind \/ ServeClosed \/ StopSignals
  \/ CloseSignals \/ AwaitShutdown \/ Return
  \/ WaiterStep

\* The other ones, which do not concern ListenAndServe and its goroutine.
Inside ==
  \/ \E r \in Requests : Serve(r)
  \/ Background
  \/ CloseServer

\* Every step is of one of these kinds.
LEMMA TwoKinds ==
  [LifeNext]_allVars => Beside \/ Inside \/ UNCHANGED allVars
BY DEF LifeNext, MainStep, Beside, Inside

\* The steps beside the server leave it alone.
LEMMA BesideServer == Beside => UNCHANGED vars
BY DEF Beside, Signal, Accept, Hangup, BindFails, AcceptFails, Notify,
       CheckShutdown, Bind, ServeClosed, StopSignals, CloseSignals,
       AwaitShutdown, Return, WaiterStep, Receive, BeginShutdown, Drain,
       PollTimer, Deadline

\* The steps inside it leave the life cycle alone, and are steps of Telemetry.
LEMMA InsideServer == Inside => Next /\ UNCHANGED lifeVars
BY MainCloses DEF Inside, Serve, Background, CloseServer, Next

\* Telemetry takes a step or none at every step.
LEMMA ServerStep == [LifeNext]_allVars => [Next]_vars
BY TwoKinds, BesideServer, InsideServer DEF allVars

\* Every behaviour of ServerLifecycle is one of Telemetry.
THEOREM ServesAsTelemetry == LifeSpec => Spec
<1>1. LifeInit => Init
  BY DEF LifeInit
<1> QED
  BY <1>1, ServerStep, PTL DEF LifeSpec, Spec

-----------------------------------------------------------------------------
(* Type correctness.                                                        *)

\* LifeTypeOK but for the Boolean variables, and for these.
Ranges ==
  /\ mainPc \in {"notify", "check", "bind", "serving", "stop", "close",
                 "await", "finish", "returned"}
  /\ err \in {"nil", "closed", "fatal", "deadline"}
  /\ waiterPc \in {"none", "receive", "shutdown", "drain", "poll", "exited"}
  /\ sigBuf \in 0..1
  /\ shutdownErr \in {"empty", "nil", "deadline"}
  /\ conn \in [Requests -> {"none", "open"}]
  /\ signals \in Nat
  /\ process \in {"up", "killed", "panicked"}

Flags == notified \in BOOLEAN /\ sigClosed \in BOOLEAN /\ inShutdown \in BOOLEAN

LEMMA RangesStep == Ranges /\ [LifeNext]_allVars => Ranges'
<1> SUFFICES ASSUME Ranges, [LifeNext]_allVars PROVE Ranges'
  OBVIOUS
<1> USE DEF Ranges, Goto, mainVars, chanVars, httpVars, envVars
<1>1. CASE Signal
  BY <1>1 DEF Signal
<1>2. CASE \E r \in Requests : Accept(r) \/ Hangup(r)
  BY <1>2 DEF Accept, Hangup
<1>3. CASE BindFails \/ AcceptFails \/ Notify \/ StopSignals \/ CloseSignals \/ Return
  BY <1>3 DEF BindFails, AcceptFails, Notify, StopSignals, CloseSignals, Return
<1>4. CASE CheckShutdown \/ Bind \/ ServeClosed
  BY <1>4 DEF CheckShutdown, Bind, ServeClosed
<1>5. CASE AwaitShutdown
  BY <1>5 DEF AwaitShutdown
<1>6. CASE Receive \/ BeginShutdown \/ PollTimer \/ Deadline
  BY <1>6 DEF Receive, BeginShutdown, PollTimer, Deadline
<1>7. CASE Drain
  BY <1>7 DEF Drain
<1>8. CASE Inside \/ UNCHANGED allVars
  BY <1>8, InsideServer DEF allVars, lifeVars
<1> QED
  BY <1>1, <1>2, <1>3, <1>4, <1>5, <1>6, <1>7, <1>8, TwoKinds
     DEF Beside, WaiterStep

LEMMA FlagsStep == Flags /\ [LifeNext]_allVars => Flags'
<1> SUFFICES ASSUME Flags, [LifeNext]_allVars PROVE Flags'
  OBVIOUS
<1> USE DEF Flags, chanVars, httpVars
<1>1. CASE Beside
  BY <1>1, Zenon DEF Beside, Signal, Accept, Hangup, BindFails, AcceptFails,
         Notify, CheckShutdown, Bind, ServeClosed, StopSignals, CloseSignals,
         AwaitShutdown, Return, WaiterStep, Receive, BeginShutdown, Drain,
         PollTimer, Deadline
<1>2. CASE Inside \/ UNCHANGED allVars
  BY <1>2, InsideServer, Zenon DEF allVars, lifeVars
<1> QED
  BY <1>1, <1>2, TwoKinds

\* Every variable of ServerLifecycle stays in the range LifeTypeOK gives it.
THEOREM LifeTypeCorrect == LifeSpec => []LifeTypeOK
<1>0. LifeInit => Ranges
  BY DEF LifeInit, Ranges
<1>1. LifeInit => Flags
  BY Zenon DEF LifeInit, Flags
<1>2. Ranges /\ Flags => LifeTypeOK
  BY Zenon DEF Ranges, Flags, LifeTypeOK
<1> QED
  BY <1>0, <1>1, <1>2, RangesStep, FlagsStep, PTL DEF LifeSpec
-----------------------------------------------------------------------------
(* Signals.                                                                 *)

\* sigCh is registered until signal.Stop, and closed only after it.
Registration ==
  /\ notified => mainPc \in {"check", "bind", "serving", "stop"}
  /\ sigClosed => mainPc \in {"await", "finish", "returned"}
  /\ process # "panicked"

LEMMA RegistrationStep == Registration /\ [LifeNext]_allVars => Registration'
<1> SUFFICES ASSUME Registration, [LifeNext]_allVars PROVE Registration'
  OBVIOUS
<1> USE DEF Registration, Goto, Up, mainVars, chanVars, httpVars, envVars
<1>1. CASE Signal
  <2>1. ~(notified /\ sigClosed)
    OBVIOUS
  <2> QED
    BY <1>1, <2>1 DEF Signal
<1>2. CASE \/ \E r \in Requests : Accept(r) \/ Hangup(r)
           \/ Receive \/ BeginShutdown \/ Drain \/ PollTimer \/ Deadline
  BY <1>2 DEF Accept, Hangup, Receive, BeginShutdown, Drain, PollTimer, Deadline
<1>3. CASE \/ BindFails \/ AcceptFails \/ Notify \/ CheckShutdown \/ Bind
           \/ ServeClosed \/ Return
  BY <1>3 DEF BindFails, AcceptFails, Notify, CheckShutdown, Bind, ServeClosed, Return
<1>4. CASE StopSignals
  BY <1>4 DEF StopSignals
<1>5. CASE CloseSignals \/ AwaitShutdown
  BY <1>5 DEF CloseSignals, AwaitShutdown
<1>6. CASE Inside \/ UNCHANGED allVars
  BY <1>6, InsideServer DEF allVars, lifeVars
<1> QED
  BY <1>1, <1>2, <1>3, <1>4, <1>5, <1>6, TwoKinds DEF Beside, WaiterStep

\* No signal is ever sent on the closed sigCh: whatever the interleaving of
\* signals with ListenAndServe and its goroutine, the process never panics.
THEOREM SignalsNeverPanic == LifeSpec => []NeverPanics
<1>1. LifeInit => Registration
  BY DEF LifeInit, Registration
<1>2. Registration => NeverPanics
  BY DEF Registration, NeverPanics
<1> QED
  BY <1>1, <1>2, RegistrationStep, PTL DEF LifeSpec

-----------------------------------------------------------------------------
(* The sampler.                                                             *)

\* ListenAndServe returns after its own call of Close.
ClosedFirst == mainPc = "returned" => closer[Main] = "returned"

\* A call of Close that has returned has returned for good.
LEMMA CloserStays ==
  TypeOK /\ [Next]_vars /\ closer[Main] = "returned" => closer'[Main] = "returned"
<1> SUFFICES ASSUME TypeOK, [Next]_vars, closer[Main] = "returned"
             PROVE  closer'[Main] = "returned"
  OBVIOUS
<1>1. ASSUME NEW c \in Closers, CloseStep(c)
      PROVE  closer'[Main] = "returned"
  BY <1>1, MainCloses
     DEF CloseStep, CloseEnter, CloseCancel, CloseWait, CloseUnblock, TypeOK
<1>2. CASE \/ \E r \in Requests : RequestStep(r)
           \/ \E h \in Pollers : PollStep(h)
           \/ TickerFires \/ SamplerStep \/ UNCHANGED vars
  BY <1>2 DEF RequestStep, BeginTracked, BeginBare, CountRequest, HandlerEnds,
              Leave, PollStep, PollBegin, PollLoad, PollInFlight, PollTotal,
              TickerFires, SamplerStep, SamplerTick, SamplerStore, SamplerExit,
              vars, closeVars
<1> QED
  BY <1>1, <1>2 DEF Next

LEMMA ClosedFirstStep ==
  TypeOK /\ ClosedFirst /\ [LifeNext]_allVars => ClosedFirst'
<1> SUFFICES ASSUME TypeOK, ClosedFirst, [LifeNext]_allVars PROVE ClosedFirst'
  OBVIOUS
<1>1. mainPc' = "returned" => mainPc = "returned" \/ closer[Main] = "returned"
  <2> USE DEF Goto, mainVars, chanVars, httpVars, envVars
  <2>1. CASE Beside
    BY <2>1 DEF Beside, Signal, Accept, Hangup, BindFails, AcceptFails,
         Notify, CheckShutdown, Bind, ServeClosed, StopSignals, CloseSignals,
         AwaitShutdown, Return, WaiterStep, Receive, BeginShutdown, Drain,
         PollTimer, Deadline
  <2>2. CASE Inside \/ UNCHANGED allVars
    BY <2>2, InsideServer DEF allVars, lifeVars
  <2> QED
    BY <2>1, <2>2, TwoKinds
<1> QED
  BY <1>1, ServerStep, CloserStays DEF ClosedFirst

\* However ListenAndServe returns, and whoever else called Close, the sampler
\* goroutine is gone: its own Close has returned, and Close implies that.
THEOREM ReturnStops == LifeSpec => []ReturnStopsSampler
<1>1. LifeInit => ClosedFirst
  BY DEF LifeInit, ClosedFirst
<1>2. ClosedFirst /\ ClosedMeansStopped => ReturnStopsSampler
  BY MainCloses DEF ClosedFirst, ClosedMeansStopped, ReturnStopsSampler
<1> QED
  BY <1>1, <1>2, ClosedFirstStep, ServesAsTelemetry, TypeCorrect,
     CloseStopsSampler, PTL DEF LifeSpec

-----------------------------------------------------------------------------
(* The drain.                                                               *)

\* No request is being processed, and none can start.
Drained == \A r \in Requests : stage[r] = "idle" /\ conn[r] = "none"

\* Requests are processed on open connections.  Until a signal has been received
\* the server is not shutting down and nothing was sent; ErrServerClosed means
\* that it is.  Once the result of a shutdown is nil the server has drained and
\* will not serve, and a nil err is that result.
Stopped ==
  /\ \A r \in Requests : conn[r] = "none" => stage[r] = "idle"
  /\ mainPc = "notify" => waiterPc = "none"
  /\ waiterPc \in {"none", "receive", "shutdown"} => ~inShutdown /\ shutdownErr = "empty"
  /\ waiterPc \in {"drain", "poll"} => inShutdown
  /\ mainPc \in {"stop", "close", "await"} => err \in {"closed", "fatal"}
  /\ mainPc \in {"notify", "check", "bind", "serving"} => err = "nil"
  /\ err = "closed" => inShutdown
  /\ inShutdown /\ shutdownErr = "nil" => mainPc # "serving" /\ Drained
  /\ err = "nil" /\ mainPc \in {"finish", "returned"} => inShutdown /\ Drained

LEMMA StoppedStep ==
  Ranges /\ TypeOK /\ Stopped /\ [LifeNext]_allVars => Stopped'
<1> SUFFICES ASSUME Ranges, TypeOK, Stopped, [LifeNext]_allVars PROVE Stopped'
  OBVIOUS
<1>typ. /\ stage \in [Requests -> Stages]
        /\ conn \in [Requests -> {"none", "open"}]
        /\ shutdownErr \in {"empty", "nil", "deadline"}
  BY DEF Ranges, TypeOK
<1>same. ASSUME Beside PROVE stage' = stage
  BY <1>same, BesideServer DEF vars, workVars
<1> USE DEF Stopped, Drained, Goto, mainVars, chanVars, httpVars
<1>1. CASE Signal
  BY <1>1, <1>same DEF Signal, Beside
<1>a. CASE PollTimer
  BY <1>a, <1>same DEF PollTimer, Beside, WaiterStep
<1>b. CASE Receive
  BY <1>b, <1>same DEF Receive, Beside, WaiterStep
<1>c. CASE BeginShutdown
  BY <1>c, <1>same DEF BeginShutdown, Beside, WaiterStep
<1>d. CASE Deadline
  BY <1>d, <1>same DEF Deadline, Beside, WaiterStep
<1>2. CASE \E r \in Requests : Accept(r) \/ Hangup(r)
  BY <1>2, <1>same, <1>typ DEF Accept, Hangup, Beside
<1>3. CASE BindFails \/ AcceptFails
  BY <1>3, <1>same DEF BindFails, AcceptFails, Beside
<1>e. CASE StopSignals
  BY <1>e, <1>same DEF StopSignals, Beside
<1>f. CASE CloseSignals
  BY <1>f, <1>same DEF CloseSignals, Beside
<1>g. CASE Return
  BY <1>g, <1>same DEF Return, Beside
<1>9. CASE Notify
  BY <1>9, <1>same DEF Notify, Beside
<1>4. CASE CheckShutdown \/ Bind \/ ServeClosed
  BY <1>4, <1>same DEF CheckShutdown, Bind, ServeClosed, Beside
<1>5. CASE AwaitShutdown
  BY <1>5, <1>same, <1>typ DEF AwaitShutdown, Beside
<1>6. CASE Drain
  <2>1. stage' = stage
    BY <1>6, <1>same DEF Beside, WaiterStep
  <2>2. conn' = [r \in Requests |-> IF r \in StillOpen THEN "open" ELSE "none"]
    BY <1>6 DEF Drain
  <2>3. \A r \in Requests : conn'[r] = "none" => stage[r] = "idle"
    BY <2>2, <1>typ DEF StillOpen
  <2>4. StillOpen = {} => Drained'
    BY <2>1, <2>2, <2>3
  <2>5. Drained => Drained'
    BY <2>1, <2>2, <2>3 DEF StillOpen
  <2> QED
    BY <1>6, <2>1, <2>3, <2>4, <2>5 DEF Drain
<1>7. ASSUME NEW r \in Requests, Serve(r) PROVE Stopped'
  <2>1. conn[r] = "open" /\ UNCHANGED lifeVars
    BY <1>7 DEF Serve
  <2>2. \A q \in Requests \ {r} : stage'[q] = stage[q]
    BY <1>7, <1>typ DEF Serve, RequestStep, BeginTracked, BeginBare,
                        CountRequest, HandlerEnds, Leave
  <2>3. ~Drained
    BY <2>1
  <2> QED
    BY <2>1, <2>2, <2>3 DEF lifeVars
<1>8. CASE Background \/ CloseServer \/ UNCHANGED allVars
  <2>1. UNCHANGED lifeVars
    BY <1>8 DEF Background, CloseServer, allVars
  <2>2. stage' = stage
    BY <1>8 DEF Background, CloseServer, PollStep, PollBegin, PollLoad,
                PollInFlight, PollTotal, TickerFires, SamplerStep, SamplerTick,
                SamplerStore, SamplerExit, CloseStep, CloseEnter, CloseCancel,
                CloseWait, CloseUnblock, allVars, vars, workVars
  <2> QED
    BY <2>1, <2>2 DEF lifeVars
<1> QED
  BY <1>1, <1>2, <1>3, <1>4, <1>5, <1>6, <1>7, <1>8, <1>9, <1>a, <1>b, <1>c,
     <1>d, <1>e, <1>f, <1>g, TwoKinds DEF Beside, Inside, WaiterStep

LEMMA StoppedStart == LifeInit => Stopped
BY DEF LifeInit, Init, Stopped

\* When ListenAndServe returns nil, after whatever signals, deadlines and
\* requests, no request is being processed and none can start.
THEOREM CleanReturns == LifeSpec => []CleanReturnIsDrained
<1>1. LifeInit => Ranges
  BY DEF LifeInit, Ranges
<1>2. Stopped => CleanReturnIsDrained
  BY DEF Stopped, Drained, CleanReturnIsDrained
<1> QED
  BY <1>1, <1>2, StoppedStart, StoppedStep, RangesStep, ServesAsTelemetry,
     TypeCorrect, PTL DEF LifeSpec

-----------------------------------------------------------------------------
(* The contract.                                                            *)

\* The phase of GracefulStop and the requests running, as StopsGracefully has
\* them.
Phase ==
  CASE mainPc = "returned" -> IF err = "nil" THEN "clean" ELSE "failed"
    [] mainPc # "returned" /\ ~Up -> "failed"
    [] mainPc # "returned" /\ Up -> IF inShutdown THEN "stopping" ELSE "serving"
Running == {r \in Requests : stage[r] # "idle"}

\* A step of the requests is an arrival, an end, or none; after a clean return
\* there is none.
LEMMA ServeAbstractly ==
  ASSUME TypeOK, Stopped, NEW r \in Requests, Serve(r)
  PROVE  /\ Phase' = Phase
         /\ \/ /\ Phase # "clean"
               /\ r \notin Running
               /\ Running' = Running \cup {r}
            \/ r \in Running /\ Running' = Running \ {r}
            \/ Running' = Running
<1>1. conn[r] = "open" /\ RequestStep(r) /\ UNCHANGED lifeVars
  BY DEF Serve
<1>2. Phase' = Phase
  BY <1>1 DEF Phase, Up, lifeVars, mainVars, envVars, httpVars
<1>3. Phase # "clean"
  BY <1>1 DEF Phase, Stopped, Drained
<1>4. stage \in [Requests -> Stages]
  BY DEF TypeOK
<1>5. ASSUME NEW s \in Stages, stage' = [stage EXCEPT ![r] = s]
      PROVE  \/ r \notin Running /\ Running' = Running \cup {r}
             \/ r \in Running /\ Running' = Running \ {r}
             \/ Running' = Running
  <2>1. \A q \in Requests : q \in Running' <=> IF q = r THEN s # "idle" ELSE q \in Running
    BY <1>4, <1>5 DEF Running
  <2> QED
    BY <2>1 DEF Running
<1>6. \E s \in Stages : stage' = [stage EXCEPT ![r] = s]
  BY <1>1 DEF RequestStep, BeginTracked, BeginBare, CountRequest, HandlerEnds,
              Leave, Stages
<1> QED
  BY <1>2, <1>3, <1>5, <1>6

\* The other steps leave the requests as they are and change the phase along
\* GracefulStop, or not at all.
LEMMA PhaseMoves ==
  ASSUME Ranges, Stopped, Beside
  PROVE  \/ Phase' = Phase
         \/ Phase = "serving" /\ Phase' = "stopping"
         \/ Phase = "stopping" /\ Running = {} /\ Phase' = "clean"
         \/ Phase \in {"serving", "stopping"} /\ Phase' = "failed"
<1> USE DEF Phase, Goto, Up, mainVars, chanVars, httpVars, envVars
<1>1. CASE Signal
  BY <1>1 DEF Signal, Ranges
<1>2. CASE \E r \in Requests : Accept(r) \/ Hangup(r)
  BY <1>2 DEF Accept, Hangup
<1>3. CASE \/ BindFails \/ AcceptFails \/ Notify \/ StopSignals \/ CloseSignals
  BY <1>3 DEF BindFails, AcceptFails, Notify, StopSignals, CloseSignals
<1>4. CASE CheckShutdown \/ Bind \/ ServeClosed
  BY <1>4 DEF CheckShutdown, Bind, ServeClosed
<1>5. CASE AwaitShutdown
  BY <1>5 DEF AwaitShutdown
<1>6. CASE Return
  <2>1. err = "nil" => inShutdown /\ Running = {}
    BY <1>6 DEF Return, Stopped, Drained, Running
  <2> QED
    BY <1>6, <2>1 DEF Return
<1>7. CASE Receive \/ PollTimer \/ Deadline
  BY <1>7 DEF Receive, PollTimer, Deadline
<1>8. CASE BeginShutdown
  BY <1>8 DEF BeginShutdown, Stopped
<1>9. CASE Drain
  BY <1>9 DEF Drain
<1> QED
  BY <1>1, <1>2, <1>3, <1>4, <1>5, <1>6, <1>7, <1>8, <1>9 DEF Beside, WaiterStep

\* ListenAndServe implements GracefulStop (its safety): it reports a clean stop
\* only after it was asked to stop and with no request running, and nothing runs
\* after that; every other end is reported as a failure.
THEOREM ImplementsGracefulStop == LifeSpec => Stopping!Safety
<1> DEFINE Inv == Ranges /\ TypeOK /\ Stopped
<1>1. LifeInit => Inv /\ Stopping!Init
  <2> SUFFICES ASSUME LifeInit PROVE Inv /\ Stopping!Init
    OBVIOUS
  <2>1. Ranges /\ Init
    BY DEF LifeInit, Ranges
  <2>2. Phase = "serving" /\ Running = {}
    BY DEF LifeInit, Init, Phase, Running, Up
  <2> QED
    BY <2>1, <2>2, InitTyped, StoppedStart DEF Stopping!Init, Phase, Running
<1>2. Inv /\ [LifeNext]_allVars => Inv'
  BY RangesStep, TypeStep, ServerStep, StoppedStep
<1>3. Inv /\ [LifeNext]_allVars => [Stopping!Next]_(Stopping!vars)
  <2> SUFFICES ASSUME Ranges, TypeOK, Stopped, [LifeNext]_allVars
               PROVE  [Stopping!Next]_(Stopping!vars)
    OBVIOUS
  <2> USE DEF Stopping!vars, Stopping!Next
  <2>1. ASSUME NEW r \in Requests, Serve(r)
        PROVE  [Stopping!Next]_(Stopping!vars)
    BY <2>1, ServeAbstractly DEF Phase, Running, Stopping!Arrive, Stopping!Finish
  <2>2. CASE Beside
    <3>1. Running' = Running
      BY <2>2, BesideServer DEF Running, vars, workVars
    <3> QED
      BY <2>2, <3>1, PhaseMoves
         DEF Phase, Running, Stopping!AskToStop, Stopping!StopClean, Stopping!StopFailed
  <2>3. CASE Background \/ CloseServer \/ UNCHANGED allVars
    <3>1. UNCHANGED lifeVars
      BY <2>3 DEF Background, CloseServer, allVars
    <3>2. stage' = stage
      BY <2>3 DEF Background, CloseServer, PollStep, PollBegin, PollLoad,
                  PollInFlight, PollTotal, TickerFires, SamplerStep, SamplerTick,
                  SamplerStore, SamplerExit, CloseStep, CloseEnter, CloseCancel,
                  CloseWait, CloseUnblock, allVars, vars, workVars
    <3> QED
      BY <3>1, <3>2 DEF lifeVars, mainVars, envVars, httpVars, Up
  <2> QED
    BY <2>1, <2>2, <2>3, TwoKinds DEF Inside
<1> HIDE DEF Inv
<1> QED
  BY <1>1, <1>2, <1>3, PTL DEF LifeSpec, Stopping!Safety
=============================================================================
