-------------------------- MODULE ServerLifecycle ---------------------------
(***************************************************************************)
(* ListenAndServe (checker/server/server.go) around the server of          *)
(* Telemetry: the goroutine that calls it, the goroutine it starts to wait *)
(* for a signal, the two channels between them, and what net/http and      *)
(* os/signal do for them.  The process is part of the state: a signal      *)
(* nobody is registered for kills it, a send on a closed channel panics.   *)
(***************************************************************************)
EXTENDS Telemetry

CONSTANTS
  Main,           \* the caller of Close that is ListenAndServe itself
  MaxSignals      \* bound: SIGINT and SIGTERM sent to the process

ASSUME MainCloses == Main \in Closers
ASSUME SignalsAreNat == MaxSignals \in Nat

VARIABLES
  mainPc,         \* progress of ListenAndServe
  err,            \* its local err
  waiterPc,       \* progress of the goroutine that waits for a signal
  notified,       \* is sigCh registered with os/signal?
  sigBuf,         \* signals buffered in sigCh (capacity 1)
  sigClosed,      \* has sigCh been closed?
  shutdownErr,    \* content of the channel shutdownErr (capacity 1)
  inShutdown,     \* http.Server.inShutdown
  conn,           \* the connection of each request slot: "none" or "open"
  signals,        \* history: signals sent to the process
  process         \* "up", "killed" by a signal or "panicked"

chanVars == <<notified, sigBuf, sigClosed, shutdownErr>>
httpVars == <<inShutdown, conn>>
envVars  == <<signals, process>>
mainVars == <<mainPc, err>>
lifeVars == <<mainVars, waiterPc, chanVars, httpVars, envVars>>
allVars  == <<vars, lifeVars>>

LifeInit ==
  /\ Init
  /\ mainPc = "notify"
  /\ err = "nil"
  /\ waiterPc = "none"
  /\ notified = FALSE
  /\ sigBuf = 0
  /\ sigClosed = FALSE
  /\ shutdownErr = "empty"
  /\ inShutdown = FALSE
  /\ conn = [r \in Requests |-> "none"]
  /\ signals = 0
  /\ process = "up"

Up == process = "up"

Goto(from, to) == mainPc = from /\ mainPc' = to

-----------------------------------------------------------------------------
(* The operating system and the clients.                                    *)

\* SIGINT or SIGTERM.  Unregistered, it kills the process; registered, it is
\* sent to sigCh, or dropped when the channel is full.
Signal ==
  /\ Up
  /\ signals < MaxSignals
  /\ signals' = signals + 1
  /\ process' = CASE ~notified -> "killed"
                  [] notified /\ sigClosed -> "panicked"
                  [] OTHER -> "up"
  /\ sigBuf' = IF notified /\ ~sigClosed THEN 1 ELSE sigBuf
  /\ UNCHANGED <<mainVars, waiterPc, notified, sigClosed, shutdownErr,
                 httpVars, vars>>

\* The Serve loop accepts a connection, until it has returned.
Accept(r) ==
  /\ Up
  /\ mainPc = "serving"
  /\ conn[r] = "none"
  /\ conn' = [conn EXCEPT ![r] = "open"]
  /\ UNCHANGED <<mainVars, waiterPc, chanVars, inShutdown, envVars, vars>>

\* The client, or the server after a panic, drops an idle connection.
Hangup(r) ==
  /\ Up
  /\ conn[r] = "open" /\ stage[r] = "idle"
  /\ conn' = [conn EXCEPT ![r] = "none"]
  /\ UNCHANGED <<mainVars, waiterPc, chanVars, inShutdown, envVars, vars>>

\* Requests come in over open connections; everything else in Telemetry runs
\* beside ListenAndServe.
Serve(r) ==
  /\ Up
  /\ conn[r] = "open"
  /\ RequestStep(r)
  /\ UNCHANGED lifeVars

Background ==
  /\ Up
  /\ \/ \E h \in Pollers : PollStep(h)
     \/ TickerFires
     \/ SamplerStep
     \/ \E c \in Closers \ {Main} : CloseStep(c)
  /\ UNCHANGED lifeVars

-----------------------------------------------------------------------------
(* The caller of ListenAndServe.                                            *)

\* signal.Notify(sigCh, ...), and the goroutine is started.
Notify ==
  /\ Up
  /\ Goto("notify", "check")
  /\ notified' = TRUE
  /\ waiterPc' = "receive"
  /\ UNCHANGED <<err, sigBuf, sigClosed, shutdownErr, httpVars, envVars, vars>>

\* srv.ListenAndServe refuses to start a server already shut down.
CheckShutdown ==
  /\ Up
  /\ IF inShutdown THEN Goto("check", "stop") /\ err' = "closed"
                   ELSE Goto("check", "bind") /\ UNCHANGED err
  /\ UNCHANGED <<waiterPc, chanVars, httpVars, envVars, vars>>

BindFails ==
  /\ Up
  /\ Goto("bind", "stop")
  /\ err' = "fatal"
  /\ UNCHANGED <<waiterPc, chanVars, httpVars, envVars, vars>>

\* The listener is registered, unless the shutdown came first.
Bind ==
  /\ Up
  /\ IF inShutdown THEN Goto("bind", "stop") /\ err' = "closed"
                   ELSE Goto("bind", "serving") /\ UNCHANGED err
  /\ UNCHANGED <<waiterPc, chanVars, httpVars, envVars, vars>>

\* Accept fails because Shutdown has closed the listener: ErrServerClosed.
ServeClosed ==
  /\ Up
  /\ inShutdown
  /\ Goto("serving", "stop")
  /\ err' = "closed"
  /\ UNCHANGED <<waiterPc, chanVars, httpVars, envVars, vars>>

\* Accept fails for good on a server that is not shutting down.
AcceptFails ==
  /\ Up
  /\ ~inShutdown
  /\ Goto("serving", "stop")
  /\ err' = "fatal"
  /\ UNCHANGED <<waiterPc, chanVars, httpVars, envVars, vars>>

\* Mutant: only the deferred signal.Stop, when ListenAndServe returns.
StopSignalsDeferred ==
  /\ Up
  /\ Goto("stop", "close")
  /\ UNCHANGED <<err, waiterPc, chanVars, httpVars, envVars, vars>>

\* signal.Stop(sigCh)
StopSignals ==
  /\ Up
  /\ Goto("stop", "close")
  /\ notified' = FALSE
  /\ UNCHANGED <<err, waiterPc, sigBuf, sigClosed, shutdownErr, httpVars,
                 envVars, vars>>

\* Mutant: the channel is left open, as nothing more will be sent on it.
LeaveSignalsOpen ==
  /\ Up
  /\ Goto("close", "await")
  /\ UNCHANGED <<err, waiterPc, chanVars, httpVars, envVars, vars>>

\* close(sigCh): the waiting goroutine is released if no signal came.
CloseSignals ==
  /\ Up
  /\ Goto("close", "await")
  /\ sigClosed' = TRUE
  /\ UNCHANGED <<err, waiterPc, notified, sigBuf, shutdownErr, httpVars,
                 envVars, vars>>

\* Mutant: ErrServerClosed is taken for success at once.
AwaitNothing ==
  /\ Up
  /\ Goto("await", "finish")
  /\ err' = IF err = "closed" THEN "nil" ELSE err
  /\ UNCHANGED <<waiterPc, chanVars, httpVars, envVars, vars>>

\* Mutant: a fatal error is returned without closing the sampler.
AwaitOrBail ==
  /\ Up
  /\ IF err = "closed"
       THEN /\ shutdownErr # "empty"
            /\ Goto("await", "finish")
            /\ err' = shutdownErr
            /\ shutdownErr' = "empty"
       ELSE /\ Goto("await", "returned")
            /\ UNCHANGED <<err, shutdownErr>>
  /\ UNCHANGED <<waiterPc, notified, sigBuf, sigClosed, httpVars, envVars, vars>>

\* Mutant: the result of Shutdown is taken if it is there already.
AwaitNonBlocking ==
  /\ Up
  /\ Goto("await", "finish")
  /\ err' = IF err = "closed" THEN shutdownErr ELSE err
  /\ UNCHANGED <<waiterPc, chanVars, httpVars, envVars, vars>>

\* if err == http.ErrServerClosed: the result of Shutdown replaces it.
AwaitShutdown ==
  /\ Up
  /\ Goto("await", "finish")
  /\ IF err = "closed"
       THEN /\ shutdownErr # "empty"
            /\ err' = shutdownErr
            /\ shutdownErr' = "empty"
       ELSE UNCHANGED <<err, shutdownErr>>
  /\ UNCHANGED <<waiterPc, notified, sigBuf, sigClosed, httpVars, envVars, vars>>

\* s.Close(), one step at a time among its other callers.
CloseServer ==
  /\ Up
  /\ mainPc = "finish"
  /\ CloseStep(Main)
  /\ UNCHANGED lifeVars

\* Close never fails, so err is returned as it stands.
Return ==
  /\ Up
  /\ closer[Main] = "returned"
  /\ Goto("finish", "returned")
  /\ UNCHANGED <<err, waiterPc, chanVars, httpVars, envVars, vars>>

-----------------------------------------------------------------------------
(* The goroutine waiting for a signal.                                      *)

\* sig, ok := <-sigCh: a buffered signal is delivered even after the close.
Receive ==
  /\ Up
  /\ waiterPc = "receive"
  /\ \/ /\ sigBuf = 1
        /\ sigBuf' = 0
        /\ waiterPc' = "shutdown"
        /\ UNCHANGED shutdownErr
     \/ /\ sigBuf = 0 /\ sigClosed
        /\ shutdownErr = "empty"
        /\ shutdownErr' = "nil"
        /\ waiterPc' = "exited"
        /\ UNCHANGED sigBuf
  /\ UNCHANGED <<mainVars, notified, sigClosed, httpVars, envVars, vars>>

\* srv.Shutdown: mark the server and close its listeners.
BeginShutdown ==
  /\ Up
  /\ waiterPc = "shutdown"
  /\ inShutdown' = TRUE
  /\ waiterPc' = "drain"
  /\ UNCHANGED <<mainVars, chanVars, conn, envVars, vars>>

StillOpen == {r \in Requests : conn[r] = "open" /\ stage[r] # "idle"}

\* Mutant: the result of Shutdown is logged and not sent.
DrainSilently ==
  /\ Up
  /\ waiterPc = "drain"
  /\ mainPc # "serving"
  /\ conn' = [r \in Requests |-> IF r \in StillOpen THEN "open" ELSE "none"]
  /\ IF StillOpen = {} THEN waiterPc' = "exited" ELSE waiterPc' = "poll"
  /\ UNCHANGED <<mainVars, chanVars, inShutdown, envVars, vars>>

\* Once Serve has returned: close the idle connections; when none is left,
\* Shutdown is done.
Drain ==
  /\ Up
  /\ waiterPc = "drain"
  /\ mainPc # "serving"
  /\ conn' = [r \in Requests |-> IF r \in StillOpen THEN "open" ELSE "none"]
  /\ IF StillOpen = {}
       THEN /\ shutdownErr = "empty"
            /\ shutdownErr' = "nil"
            /\ waiterPc' = "exited"
       ELSE waiterPc' = "poll" /\ UNCHANGED shutdownErr
  /\ UNCHANGED <<mainVars, notified, sigBuf, sigClosed, inShutdown, envVars, vars>>

\* Between two looks at the connections Shutdown waits for its poll timer ...
PollTimer ==
  /\ Up
  /\ waiterPc = "poll"
  /\ waiterPc' = "drain"
  /\ UNCHANGED <<mainVars, chanVars, httpVars, envVars, vars>>

\* ... or for shutdownTimeout, and then gives up.
Deadline ==
  /\ Up
  /\ waiterPc = "poll"
  /\ shutdownErr = "empty"
  /\ shutdownErr' = "deadline"
  /\ waiterPc' = "exited"
  /\ UNCHANGED <<mainVars, notified, sigBuf, sigClosed, httpVars, envVars, vars>>

-----------------------------------------------------------------------------
MainStep ==
  \/ Notify \/ CheckShutdown \/ Bind \/ ServeClosed \/ StopSignals
  \/ CloseSignals \/ AwaitShutdown \/ CloseServer \/ Return

WaiterStep == Receive \/ BeginShutdown \/ Drain \/ PollTimer \/ Deadline

LifeNext ==
  \/ Signal
  \/ \E r \in Requests : Accept(r) \/ Hangup(r) \/ Serve(r)
  \/ Background
  \/ BindFails \/ AcceptFails
  \/ MainStep
  \/ WaiterStep

LifeSpec == LifeInit /\ [][LifeNext]_allVars

(***************************************************************************)
(* Fairness.  The two goroutines and the sampler are scheduled; a bound    *)
(* socket may serve for ever, and handlers and clients may do nothing.     *)
(* The poll timer may fire any number of times, but shutdownTimeout does   *)
(* expire: the deadline is strongly fair.  So is the sampler's exit, which *)
(* is disabled while it handles a tick: a select with several ready cases  *)
(* picks one pseudo-randomly and cannot pass over ctx.Done() for ever.     *)
(***************************************************************************)
LifeFairness ==
  /\ WF_allVars(MainStep)
  /\ WF_allVars(WaiterStep)
  /\ SF_allVars(Deadline)
  /\ SF_allVars(Up /\ SamplerExit /\ UNCHANGED lifeVars)
  /\ WF_allVars(Up /\ SamplerStore /\ UNCHANGED lifeVars)
  /\ \A c \in Closers \ {Main} :
       WF_allVars(Up /\ (CloseCancel(c) \/ CloseWait(c) \/ CloseUnblock(c))
                  /\ UNCHANGED lifeVars)

FairLifeSpec == LifeSpec /\ LifeFairness

-----------------------------------------------------------------------------
(* Properties.                                                              *)

LifeTypeOK ==
  /\ mainPc \in {"notify", "check", "bind", "serving", "stop", "close",
                 "await", "finish", "returned"}
  /\ err \in {"nil", "closed", "fatal", "deadline"}
  /\ waiterPc \in {"none", "receive", "shutdown", "drain", "poll", "exited"}
  /\ notified \in BOOLEAN
  /\ sigBuf \in 0..1
  /\ sigClosed \in BOOLEAN
  /\ shutdownErr \in {"empty", "nil", "deadline"}
  /\ inShutdown \in BOOLEAN
  /\ conn \in [Requests -> {"none", "open"}]
  /\ signals \in Nat
  /\ process \in {"up", "killed", "panicked"}

\* No signal is ever delivered to the closed sigCh, however late it comes:
\* signal.Stop before close(sigCh).
NeverPanics == process # "panicked"

\* When ListenAndServe returns nil, the server had drained: no request is
\* being processed and none can start, then or later.
CleanReturnIsDrained ==
  mainPc = "returned" /\ err = "nil" =>
    \A r \in Requests : stage[r] = "idle" /\ conn[r] = "none"

\* However ListenAndServe returns, a failed bind included, and whoever else
\* called Close meanwhile, the sampler goroutine is gone.
ReturnStopsSampler == mainPc = "returned" => samplerDone

\* A signal that reaches sigCh makes ListenAndServe return, even if handlers
\* never do: shutdownTimeout bounds the drain.
SignalStops ==
  sigBuf = 1 ~> mainPc = "returned" \/ ~Up

\* The signal goroutine does not outlive ListenAndServe for long, on any path:
\* close(sigCh) releases it, and nobody needs to receive its result.
WaiterExits == mainPc = "returned" ~> waiterPc = "exited" \/ ~Up

\* Close keeps the promises of StopOnce to all its callers, ListenAndServe and
\* concurrent ones, as long as the process lives: the sampler stops when it is
\* asked to, and everyone who waits for that gets control back.
CallersReturn == []Up => Contract!Progress

\* ListenAndServe implements GracefulStop: it is asked to stop when Shutdown
\* begins, and has stopped when it returns (or when the process is gone).
Stopping == INSTANCE GracefulStop WITH
  phase   <- CASE mainPc = "returned" -> IF err = "nil" THEN "clean" ELSE "failed"
               [] mainPc # "returned" /\ ~Up -> "failed"
               [] mainPc # "returned" /\ Up ->
                    IF inShutdown THEN "stopping" ELSE "serving",
  running <- {r \in Requests : stage[r] # "idle"}
StopsGracefully == Stopping!Spec

\* What the comment of ListenAndServe says of the drain: requests in flight
\* are given up to shutdownTimeout, so nothing ends the process under them
\* while Shutdown waits for them.
DrainIsGivenItsTime ==
  waiterPc \in {"drain", "poll"} /\ StillOpen # {} => Up
=============================================================================
