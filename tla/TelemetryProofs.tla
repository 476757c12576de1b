-------------------------- MODULE TelemetryProofs ---------------------------
(***************************************************************************)
(* Theorems about Telemetry, for any finite set of request slots and any   *)
(* number of pollers, callers of Close, arrivals and ticks.                *)
(***************************************************************************)
EXTENDS Telemetry, FiniteSetTheorems, TLAPS

-----------------------------------------------------------------------------
(* Type correctness.                                                        *)

\* The initial states are in the ranges of TypeOK.
LEMMA InitTyped == Init => TypeOK
<1> SUFFICES ASSUME Init PROVE TypeOK
  OBVIOUS
<1>1. NoLoad \in [Windows -> Nat]
  BY DEF NoLoad
<1>2. NewPoll(0) \in Responses
  BY <1>1 DEF NewPoll, Responses
<1>3. poll \in [Pollers -> Responses]
  BY <1>2 DEF Init
<1>4. stage \in [Requests -> Stages] /\ loadBits \in [Windows -> Nat]
      /\ nextLoad \in [Windows -> Nat] /\ slot \in Windows
  BY <1>1 DEF Init, Stages, Windows
<1> QED
  BY <1>3, <1>4 DEF Init, TypeOK

\* Setting one field of a response to a value of its type gives a response.
LEMMA FieldTyped ==
  ASSUME NEW q \in Responses
  PROVE  /\ \A s \in 0..5 : [q EXCEPT !.step = s] \in Responses
         /\ \A l \in [Windows -> Nat] : [q EXCEPT !.load = l] \in Responses
         /\ \A i \in Int : [q EXCEPT !.inFlight = i] \in Responses
         /\ \A t \in Nat : [q EXCEPT !.total = t] \in Responses
BY DEF Responses

\* Every step keeps every variable in its range.
LEMMA TypeStep == TypeOK /\ [Next]_vars => TypeOK'
<1> SUFFICES ASSUME TypeOK, [Next]_vars
             PROVE  TypeOK'
  OBVIOUS
<1> USE DEF TypeOK, Stages, Windows
<1>1. ASSUME NEW r \in Requests, RequestStep(r)
      PROVE  TypeOK'
  <2>1. ASSUME NEW p \in Routes, BeginTracked(r, p)
        PROVE  TypeOK'
    BY <2>1 DEF BeginTracked, loadVars, closeVars
  <2>2. ASSUME NEW p \in Routes, BeginBare(r, p)
        PROVE  TypeOK'
    BY <2>2 DEF BeginBare, loadVars, closeVars
  <2>3. CASE CountRequest(r)
    BY <2>3 DEF CountRequest, loadVars, closeVars
  <2>4. ASSUME NEW how \in {"returned", "panicked"}, HandlerEnds(r, how)
        PROVE  TypeOK'
    BY <2>4 DEF HandlerEnds, loadVars, closeVars
  <2>5. CASE Leave(r)
    BY <2>5 DEF Leave, loadVars, closeVars
  <2> QED
    BY <1>1, <2>1, <2>2, <2>3, <2>4, <2>5 DEF RequestStep
<1>2. ASSUME NEW h \in Pollers, PollStep(h)
      PROVE  TypeOK'
  <2>0. ASSUME NEW q \in Responses, poll' = [poll EXCEPT ![h] = q],
               UNCHANGED <<workVars, loadVars, closeVars>>
        PROVE  TypeOK'
    BY <2>0 DEF workVars, loadVars, closeVars
  <2>1. CASE PollBegin(h)
    <3>1. NewPoll(1) \in Responses
      BY DEF NewPoll, NoLoad, Responses
    <3> QED
      BY <2>0, <2>1, <3>1 DEF PollBegin
  <2>2. CASE PollLoad(h)
    <3> DEFINE w == poll[h].step
               filled == [poll[h] EXCEPT !.step = w + 1,
                                         !.load = [@ EXCEPT ![w] = loadBits[w]]]
    <3>1. w \in Windows /\ poll' = [poll EXCEPT ![h] = filled]
      BY <2>2 DEF PollLoad
    <3>2. poll[h] \in Responses /\ poll[h].load \in [Windows -> Nat] /\ loadBits[w] \in Nat
      BY <3>1 DEF Responses
    <3>3. [poll[h].load EXCEPT ![w] = loadBits[w]] \in [Windows -> Nat]
      BY <3>1, <3>2
    <3>4. w + 1 \in 0..5
      BY <3>1
    <3>5. filled \in Responses
      <4>1. [poll[h] EXCEPT !.step = w + 1] \in Responses
        BY <3>2, <3>4, FieldTyped
      <4> QED
        BY <3>3, <4>1, FieldTyped
    <3> HIDE DEF w, filled
    <3> QED
      BY <2>0, <2>2, <3>1, <3>5 DEF PollLoad
  <2>3. CASE PollInFlight(h)
    <3> DEFINE filled == [poll[h] EXCEPT !.step = 5, !.inFlight = inFlight]
    <3>1. poll' = [poll EXCEPT ![h] = filled]
      BY <2>3 DEF PollInFlight
    <3>2. filled \in Responses
      <4>1. [poll[h] EXCEPT !.step = 5] \in Responses
        BY 5 \in 0..5, poll[h] \in Responses, FieldTyped
      <4> QED
        BY <4>1, FieldTyped
    <3> HIDE DEF filled
    <3> QED
      BY <2>0, <2>3, <3>1, <3>2 DEF PollInFlight
  <2>4. CASE PollTotal(h)
    <3> DEFINE filled == [poll[h] EXCEPT !.step = 0, !.total = totalRequests]
    <3>1. poll' = [poll EXCEPT ![h] = filled]
      BY <2>4 DEF PollTotal
    <3>2. filled \in Responses
      <4>1. [poll[h] EXCEPT !.step = 0] \in Responses
        BY 0 \in 0..5, poll[h] \in Responses, FieldTyped
      <4> QED
        BY <4>1, FieldTyped
    <3> HIDE DEF filled
    <3> QED
      BY <2>0, <2>4, <3>1, <3>2 DEF PollTotal
  <2> QED
    BY <1>2, <2>1, <2>2, <2>3, <2>4 DEF PollStep
<1>3. CASE TickerFires
  BY <1>3 DEF TickerFires, workVars, closeVars
<1>4. CASE SamplerStep
  <2>1. CASE SamplerTick
    <3>1. nextLoad' \in [Windows -> Nat] /\ loadBits' \in [Windows -> Nat]
      BY <2>1 DEF SamplerTick
    <3> QED
      BY <2>1, <3>1 DEF SamplerTick, workVars, closeVars
  <2>2. CASE SamplerStore
    BY <2>2 DEF SamplerStore, workVars, closeVars
  <2>3. CASE SamplerExit
    BY <2>3 DEF SamplerExit, workVars, closeVars
  <2> QED
    BY <1>4, <2>1, <2>2, <2>3 DEF SamplerStep
<1>5. ASSUME NEW c \in Closers, CloseStep(c)
      PROVE  TypeOK'
  BY <1>5 DEF CloseStep, CloseEnter, CloseCancel, CloseWait, CloseUnblock,
              workVars, loadVars
<1>6. CASE UNCHANGED vars
  BY <1>6 DEF vars, workVars, loadVars, closeVars
<1> QED
  BY <1>1, <1>2, <1>3, <1>4, <1>5, <1>6 DEF Next

\* Every variable stays in the range TypeOK gives it.
THEOREM TypeCorrect == Spec => []TypeOK
<1>1. Init => TypeOK
  BY InitTyped
<1> QED
  BY <1>1, TypeStep, PTL DEF Spec

-----------------------------------------------------------------------------
(* The in-flight gauge.                                                     *)

\* A slot is inside TrackWork only for a route TrackWork wraps.
TrackedInside ==
  \A r \in Requests :
    stage[r] \in {"added", "returned", "panicked"} => route[r] \in TrackedRoutes

\* Entering TrackWork and leaving it change the gauge by one; no other step
\* changes it or the set of active requests.
Gauge == TypeOK /\ TrackedInside /\ InFlightExact

LEMMA GaugeStep == Gauge /\ [Next]_vars => Gauge'
<1> SUFFICES ASSUME Gauge, [Next]_vars
             PROVE  Gauge'
  OBVIOUS
<1>0. TypeOK'
  BY TypeStep DEF Gauge
<1>fin. IsFiniteSet(Active)
  BY FiniteSlots, FS_Subset DEF Active
<1> USE DEF Gauge, TrackedInside, InFlightExact
<1>same. ASSUME UNCHANGED <<stage, route, inFlight>>
         PROVE  Gauge'
  BY <1>0, <1>same DEF Active
<1>1. ASSUME NEW r \in Requests, RequestStep(r)
      PROVE  Gauge'
  <2> USE DEF TypeOK
  <2>1. ASSUME NEW p \in Routes, BeginTracked(r, p)
        PROVE  Gauge'
    <3>1. /\ stage' = [stage EXCEPT ![r] = "added"]
          /\ route' = [route EXCEPT ![r] = p]
          /\ stage[r] = "idle" /\ p \in TrackedRoutes
          /\ inFlight' = inFlight + 1
      BY <2>1 DEF BeginTracked
    <3>2. Active' = Active \cup {r} /\ r \notin Active
      BY <3>1 DEF Active
    <3>3. InFlightExact'
      BY <3>1, <3>2, <1>fin, FS_AddElement
    <3>4. TrackedInside'
      BY <3>1
    <3> QED
      BY <1>0, <3>3, <3>4
  <2>2. ASSUME NEW p \in Routes, BeginBare(r, p)
        PROVE  Gauge'
    <3>1. /\ stage' = [stage EXCEPT ![r] = "serving"]
          /\ route' = [route EXCEPT ![r] = p]
          /\ stage[r] = "idle" /\ p \notin TrackedRoutes
          /\ inFlight' = inFlight
      BY <2>2 DEF BeginBare
    <3>2. Active' = Active
      BY <3>1 DEF Active
    <3>3. TrackedInside'
      BY <3>1
    <3> QED
      BY <1>0, <3>1, <3>2, <3>3
  <2>3. CASE CountRequest(r)
    <3>1. /\ stage' = [stage EXCEPT ![r] = "serving"]
          /\ stage[r] = "added"
          /\ route' = route /\ inFlight' = inFlight
      BY <2>3 DEF CountRequest
    <3>2. Active' = Active
      BY <3>1 DEF Active
    <3>3. TrackedInside'
      BY <3>1
    <3> QED
      BY <1>0, <3>1, <3>2, <3>3
  <2>4. ASSUME NEW how \in {"returned", "panicked"}, HandlerEnds(r, how)
        PROVE  Gauge'
    <3>1. /\ stage' = [stage EXCEPT
                          ![r] = IF route[r] \in TrackedRoutes THEN how ELSE "idle"]
          /\ stage[r] = "serving"
          /\ route' = route /\ inFlight' = inFlight
      BY <2>4 DEF HandlerEnds
    <3>2. Active' = Active
      BY <3>1 DEF Active
    <3>3. TrackedInside'
      BY <3>1
    <3> QED
      BY <1>0, <3>1, <3>2, <3>3
  <2>5. CASE Leave(r)
    <3>1. /\ stage' = [stage EXCEPT ![r] = "idle"]
          /\ stage[r] \in {"returned", "panicked"}
          /\ route' = route
          /\ inFlight' = inFlight - 1
      BY <2>5 DEF Leave
    <3>2. Active' = Active \ {r} /\ r \in Active
      BY <3>1 DEF Active
    <3>3. InFlightExact'
      BY <3>1, <3>2, <1>fin, FS_RemoveElement
    <3>4. TrackedInside'
      BY <3>1
    <3> QED
      BY <1>0, <3>3, <3>4
  <2> QED
    BY <1>1, <2>1, <2>2, <2>3, <2>4, <2>5 DEF RequestStep
<1>2. CASE \/ \E h \in Pollers : PollStep(h)
           \/ TickerFires
           \/ SamplerStep
           \/ \E c \in Closers : CloseStep(c)
           \/ UNCHANGED vars
  BY <1>2, <1>same
     DEF PollStep, PollBegin, PollLoad, PollInFlight, PollTotal, TickerFires,
         SamplerStep, SamplerTick, SamplerStore, SamplerExit, CloseStep,
         CloseEnter, CloseCancel, CloseWait, CloseUnblock, vars, workVars
<1> QED
  BY <1>1, <1>2 DEF Next

LEMMA GaugeStart == Init => Gauge
<1> SUFFICES ASSUME Init PROVE Gauge
  OBVIOUS
<1>1. TypeOK
  BY InitTyped
<1>2. Active = {}
  BY DEF Init, Active
<1> QED
  BY <1>1, <1>2, FS_EmptySet DEF Init, Gauge, TrackedInside, InFlightExact

\* The in-flight gauge is exact in every interleaving of any number of
\* requests, with handlers that return and handlers that panic.
THEOREM GaugeNeverLeaks == Spec => []InFlightExact
<1>1. Gauge => InFlightExact
  BY DEF Gauge
<1> QED
  BY <1>1, GaugeStart, GaugeStep, PTL DEF Spec

-----------------------------------------------------------------------------
(* The request counter and what /health publishes.                          *)

\* Every arrival is counted in totalRequests or is about to be; the gauge, and
\* every copy of it in a response being filled, is a number of arrivals.
Backing ==
  /\ Gauge
  /\ arrivals = totalRequests + Cardinality(Entering)
  /\ inFlight <= arrivals
  /\ \A h \in Pollers : poll[h].step = 5 => poll[h].inFlight <= arrivals

LEMMA BackingStep == Backing /\ [Next]_vars => Backing'
<1> SUFFICES ASSUME Backing, [Next]_vars
             PROVE  Backing'
  OBVIOUS
<1>0. Gauge' /\ TypeOK /\ TypeOK'
  BY GaugeStep DEF Backing, Gauge
<1>fin. IsFiniteSet(Entering)
  BY FiniteSlots, FS_Subset DEF Entering
<1>nat. arrivals \in Nat /\ inFlight \in Int /\ totalRequests \in Nat
        /\ Cardinality(Entering) \in Nat
  BY <1>0, <1>fin, FS_CardinalityType DEF TypeOK
<1>typ. stage \in [Requests -> Stages] /\ poll \in [Pollers -> Responses]
  BY <1>0 DEF TypeOK
<1>calm. ASSUME UNCHANGED <<totalRequests, arrivals, poll>>,
                Entering' = Entering, inFlight' <= inFlight
         PROVE  Backing'
  <2>1. inFlight' \in Int
    BY <1>0 DEF TypeOK
  <2>2. inFlight' <= arrivals'
    BY <1>calm, <1>nat, <2>1 DEF Backing
  <2> QED
    BY <1>0, <1>calm, <2>2 DEF Backing
<1>1. ASSUME NEW r \in Requests, RequestStep(r)
      PROVE  Backing'
  <2>1. ASSUME NEW p \in Routes, BeginTracked(r, p)
        PROVE  Backing'
    <3>1. /\ stage' = [stage EXCEPT ![r] = "added"] /\ stage[r] = "idle"
          /\ inFlight' = inFlight + 1 /\ arrivals' = arrivals + 1
          /\ totalRequests' = totalRequests /\ poll' = poll
      BY <2>1 DEF BeginTracked
    <3>2. Entering' = Entering \cup {r} /\ r \notin Entering
      BY <3>1, <1>typ DEF Entering
    <3>3. Cardinality(Entering') = Cardinality(Entering) + 1
      BY <3>2, <1>fin, FS_AddElement
    <3>4. \A h \in Pollers : poll'[h].step = 5 => poll'[h].inFlight <= arrivals'
      BY <3>1, <1>nat, <1>typ DEF Backing, Responses
    <3> QED
      BY <1>0, <3>1, <3>3, <3>4, <1>nat DEF Backing
  <2>2. ASSUME NEW p \in Routes, BeginBare(r, p)
        PROVE  Backing'
    <3>1. Entering' = Entering
      BY <2>2, <1>typ DEF BeginBare, Entering
    <3> QED
      BY <2>2, <3>1, <1>calm, <1>nat DEF BeginBare
  <2>3. CASE CountRequest(r)
    <3>1. /\ stage' = [stage EXCEPT ![r] = "serving"] /\ stage[r] = "added"
          /\ totalRequests' = totalRequests + 1
          /\ UNCHANGED <<inFlight, arrivals, poll>>
      BY <2>3 DEF CountRequest
    <3>2. Entering' = Entering \ {r} /\ r \in Entering
      BY <3>1, <1>typ DEF Entering
    <3>3. Cardinality(Entering') = Cardinality(Entering) - 1
      BY <3>2, <1>fin, FS_RemoveElement
    <3> QED
      BY <1>0, <3>1, <3>3, <1>nat DEF Backing
  <2>4. ASSUME NEW how \in {"returned", "panicked"}, HandlerEnds(r, how)
        PROVE  Backing'
    <3>1. Entering' = Entering
      BY <2>4, <1>typ DEF HandlerEnds, Entering
    <3> QED
      BY <2>4, <3>1, <1>calm, <1>nat DEF HandlerEnds
  <2>5. CASE Leave(r)
    <3>1. Entering' = Entering
      BY <2>5, <1>typ DEF Leave, Entering
    <3>2. inFlight' <= inFlight
      BY <2>5, <1>nat DEF Leave
    <3> QED
      BY <2>5, <3>1, <3>2, <1>calm DEF Leave
  <2> QED
    BY <1>1, <2>1, <2>2, <2>3, <2>4, <2>5 DEF RequestStep
<1>2. ASSUME NEW h \in Pollers, PollStep(h)
      PROVE  Backing'
  <2>1. UNCHANGED <<inFlight, arrivals, totalRequests>> /\ Entering' = Entering
    BY <1>2 DEF PollStep, PollBegin, PollLoad, PollInFlight, PollTotal,
                workVars, Entering
  <2>2. \A g \in Pollers : poll'[g].step = 5 => poll'[g].inFlight <= arrivals'
    <3>1. CASE PollInFlight(h)
      BY <3>1, <1>typ, <2>1 DEF PollInFlight, Backing, Responses
    <3>2. CASE PollBegin(h)
      <4>1. NewPoll(1).step = 1
        BY DEF NewPoll
      <4> QED
        BY <3>2, <4>1, <1>typ, <2>1 DEF PollBegin, Backing
    <3>3. CASE PollLoad(h)
      <4>1. poll[h].step + 1 # 5
        BY <3>3 DEF PollLoad, Windows
      <4> QED
        BY <3>3, <4>1, <1>typ, <2>1 DEF PollLoad, Backing, Responses
    <3>4. CASE PollTotal(h)
      BY <3>4, <1>typ, <2>1 DEF PollTotal, Backing, Responses
    <3> QED
      BY <1>2, <3>1, <3>2, <3>3, <3>4 DEF PollStep
  <2> QED
    BY <1>0, <2>1, <2>2 DEF Backing
<1>3. CASE \/ TickerFires
           \/ SamplerStep
           \/ \E c \in Closers : CloseStep(c)
           \/ UNCHANGED vars
  <2>1. UNCHANGED <<inFlight, arrivals, totalRequests, poll>> /\ Entering' = Entering
    BY <1>3 DEF TickerFires, SamplerStep, SamplerTick, SamplerStore, SamplerExit,
                CloseStep, CloseEnter, CloseCancel, CloseWait, CloseUnblock,
                vars, workVars, Entering
  <2> QED
    BY <2>1, <1>calm, <1>nat
<1> QED
  BY <1>1, <1>2, <1>3 DEF Next

\* A /health response never publishes an in-flight count that exceeds the
\* requests counted so far and the ones between TrackWork's two increments.
THEOREM PublishedLoadBacked == Spec => []PublishedLoadIsBacked
<1>1. Init => Backing
  <2> SUFFICES ASSUME Init PROVE Backing
    OBVIOUS
  <2>1. Gauge
    BY GaugeStart
  <2>2. Entering = {}
    BY DEF Init, Entering
  <2>3. \A h \in Pollers : poll[h].step # 5
    BY DEF Init, NewPoll
  <2> QED
    BY <2>1, <2>2, <2>3, FS_EmptySet DEF Init, Backing
<1>2. Backing => PublishedLoadIsBacked
  BY DEF Backing, PublishedLoadIsBacked
<1> QED
  BY <1>1, <1>2, BackingStep, PTL DEF Spec

-----------------------------------------------------------------------------
(* The load averages.                                                       *)

\* Between ticks the averages are level; during one, those below the loop
\* index have the new tick's sample and the others do not have it yet.
Level ==
  /\ sampler # "store" => \A w \in Windows : loadBits[w] = loadBits[1]
  /\ sampler = "store" => \A w \in Windows :
       /\ nextLoad[w] = nextLoad[1]
       /\ loadBits[w] = IF w < slot THEN nextLoad[1] ELSE nextLoad[1] - 1

\* What a response holds was published, and the averages only move forward.
NoFuture ==
  \A h \in Pollers : \A w \in Windows :
    HasRead(h, w) => poll[h].load[w] <= loadBits[w]

Ladder == TypeOK /\ Level /\ NoFuture /\ BoundedSkew

LEMMA LevelStep == TypeOK /\ Level /\ [Next]_vars => Level'
<1> SUFFICES ASSUME TypeOK, Level, [Next]_vars
             PROVE  Level'
  OBVIOUS
<1>typ. /\ loadBits \in [Windows -> Nat] /\ nextLoad \in [Windows -> Nat]
        /\ slot \in Windows
  BY DEF TypeOK
<1>1. CASE SamplerTick
  BY <1>1, <1>typ DEF SamplerTick, Level, Windows
<1>2. CASE SamplerStore
  <2>1. CASE slot = 3
    BY <1>2, <2>1, <1>typ DEF SamplerStore, Level, Windows
  <2>2. CASE slot # 3
    BY <1>2, <2>2, <1>typ DEF SamplerStore, Level, Windows
  <2> QED
    BY <2>1, <2>2
<1>3. CASE SamplerExit
  BY <1>3 DEF SamplerExit, Level
<1>4. CASE \/ \E r \in Requests : RequestStep(r)
           \/ \E h \in Pollers : PollStep(h)
           \/ TickerFires
           \/ \E c \in Closers : CloseStep(c)
           \/ UNCHANGED vars
  <2>1. UNCHANGED <<sampler, slot, loadBits, nextLoad>>
    BY <1>4 DEF RequestStep, BeginTracked, BeginBare, CountRequest, HandlerEnds,
                Leave, PollStep, PollBegin, PollLoad, PollInFlight, PollTotal,
                TickerFires, CloseStep, CloseEnter, CloseCancel, CloseWait,
                CloseUnblock, vars, loadVars
  <2> QED
    BY <2>1 DEF Level
<1> QED
  BY <1>1, <1>2, <1>3, <1>4 DEF Next, SamplerStep

\* At any instant a longer window is level with a shorter one or a tick behind.
LEMMA Staircase ==
  ASSUME TypeOK, Level, NEW v \in Windows, NEW w \in Windows, v < w
  PROVE  loadBits[w] >= loadBits[v] - 1
BY DEF TypeOK, Level, Windows

LEMMA NeverBack ==
  ASSUME TypeOK, Level, [Next]_vars, NEW w \in Windows
  PROVE  loadBits'[w] >= loadBits[w]
<1>typ. /\ loadBits \in [Windows -> Nat] /\ nextLoad \in [Windows -> Nat]
        /\ slot \in Windows
  BY DEF TypeOK
<1>1. CASE SamplerStore
  BY <1>1, <1>typ DEF SamplerStore, Level, Windows
<1>2. CASE \/ SamplerTick
           \/ SamplerExit
           \/ \E r \in Requests : RequestStep(r)
           \/ \E h \in Pollers : PollStep(h)
           \/ TickerFires
           \/ \E c \in Closers : CloseStep(c)
           \/ UNCHANGED vars
  <2>1. UNCHANGED loadBits
    BY <1>2 DEF RequestStep, BeginTracked, BeginBare, CountRequest, HandlerEnds,
                Leave, PollStep, PollBegin, PollLoad, PollInFlight, PollTotal,
                TickerFires, SamplerTick, SamplerExit, CloseStep, CloseEnter,
                CloseCancel, CloseWait, CloseUnblock, vars, loadVars
  <2> QED
    BY <2>1, <1>typ
<1> QED
  BY <1>1, <1>2 DEF Next, SamplerStep

\* One response, given what a step of its own goroutine leaves in it.
LEMMA LadderStep == Ladder /\ [Next]_vars => Ladder'
<1> SUFFICES ASSUME Ladder, [Next]_vars
             PROVE  Ladder'
  OBVIOUS
<1>0. TypeOK /\ Level /\ TypeOK' /\ Level'
  BY TypeStep, LevelStep DEF Ladder
<1>typ. /\ poll \in [Pollers -> Responses] /\ loadBits \in [Windows -> Nat]
        /\ poll' \in [Pollers -> Responses] /\ loadBits' \in [Windows -> Nat]
  BY <1>0 DEF TypeOK
<1>loads. \A h \in Pollers : \A w \in Windows :
            /\ poll[h].load[w] \in Nat /\ loadBits[w] \in Nat
            /\ poll'[h].load[w] \in Nat /\ loadBits'[w] \in Nat
            /\ poll[h].step \in 0..5
  BY <1>typ DEF Responses
<1>up. \A w \in Windows : loadBits'[w] >= loadBits[w]
  BY <1>0, NeverBack
<1>same. ASSUME NEW g \in Pollers,
                poll'[g].load = poll[g].load,
                \A w \in Windows : HasRead(g, w)' => HasRead(g, w)
         PROVE  /\ \A w \in Windows : HasRead(g, w)' => poll'[g].load[w] <= loadBits'[w]
                /\ \A v, w \in Windows :
                     v < w /\ HasRead(g, w)' => poll'[g].load[w] >= poll'[g].load[v] - 1
  <2>1. ASSUME NEW w \in Windows, HasRead(g, w)'
        PROVE  poll'[g].load[w] <= loadBits'[w]
    BY <1>same, <1>loads, <1>up, <2>1 DEF Ladder, NoFuture
  <2>2. ASSUME NEW v \in Windows, NEW w \in Windows, v < w, HasRead(g, w)'
        PROVE  poll'[g].load[w] >= poll'[g].load[v] - 1
    BY <1>same, <1>loads, <2>2 DEF Ladder, BoundedSkew
  <2> QED
    BY <2>1, <2>2
<1>each. ASSUME NEW g \in Pollers
         PROVE  /\ \A w \in Windows : HasRead(g, w)' => poll'[g].load[w] <= loadBits'[w]
                /\ \A v, w \in Windows :
                     v < w /\ HasRead(g, w)' => poll'[g].load[w] >= poll'[g].load[v] - 1
  <2>1. CASE poll'[g] = poll[g]
    BY <2>1, <1>same DEF HasRead
  <2>2. CASE PollBegin(g)
    <3>1. poll'[g].step = 1
      BY <2>2, <1>typ DEF PollBegin, NewPoll
    <3> QED
      BY <3>1 DEF HasRead, Windows
  <2>3. CASE PollLoad(g)
    <3> DEFINE k == poll[g].step
    <3>1. /\ k \in Windows /\ loadBits' = loadBits
          /\ poll'[g].step = k + 1
          /\ poll'[g].load = [poll[g].load EXCEPT ![k] = loadBits[k]]
      BY <2>3, <1>typ DEF PollLoad, loadVars, Responses
    <3>2. poll[g].load \in [Windows -> Nat]
      BY <1>typ DEF Responses
    <3>3. \A w \in Windows : HasRead(g, w)' => w <= k /\ (w # k => HasRead(g, w))
      BY <3>1 DEF HasRead, Windows
    <3>4. ASSUME NEW w \in Windows, HasRead(g, w)'
          PROVE  poll'[g].load[w] <= loadBits'[w]
      BY <3>1, <3>2, <3>3, <3>4, <1>loads DEF Ladder, NoFuture
    <3>5. ASSUME NEW v \in Windows, NEW w \in Windows, v < w, HasRead(g, w)'
          PROVE  poll'[g].load[w] >= poll'[g].load[v] - 1
      <4>1. v # k /\ poll'[g].load[v] = poll[g].load[v]
        BY <3>1, <3>2, <3>3, <3>5 DEF Windows
      <4>2. CASE w = k
        <5>1. HasRead(g, v)
          BY <3>1, <3>5, <4>2 DEF HasRead
        <5>2. poll[g].load[v] <= loadBits[v]
          BY <5>1 DEF Ladder, NoFuture
        <5>3. loadBits[w] >= loadBits[v] - 1
          BY <1>0, <3>5, Staircase
        <5>4. poll'[g].load[w] = loadBits[w]
          BY <3>1, <3>2, <4>2
        <5> HIDE DEF k
        <5> QED
          BY <4>1, <5>2, <5>3, <5>4, <1>loads
      <4>3. CASE w # k
        BY <3>1, <3>2, <3>3, <3>5, <4>1, <4>3, <1>loads DEF Ladder, BoundedSkew
      <4> QED
        BY <4>2, <4>3
    <3> QED
      BY <3>4, <3>5
  <2>4. CASE PollInFlight(g)
    <3>1. poll'[g].load = poll[g].load /\ poll'[g].step = 5 /\ poll[g].step = 4
      BY <2>4, <1>typ DEF PollInFlight, Responses
    <3> QED
      BY <3>1, <1>same DEF HasRead, Windows
  <2>5. CASE PollTotal(g)
    <3>1. poll'[g].load = poll[g].load /\ poll'[g].step = 0 /\ poll[g].step = 5
      BY <2>5, <1>typ DEF PollTotal, Responses
    <3> QED
      BY <3>1, <1>same DEF HasRead, Windows
  <2>6. poll'[g] = poll[g] \/ PollStep(g)
    <3>1. CASE \E h \in Pollers : PollStep(h)
      BY <3>1, <1>typ DEF PollStep, PollBegin, PollLoad, PollInFlight, PollTotal
    <3>2. CASE \/ \E r \in Requests : RequestStep(r)
               \/ TickerFires
               \/ SamplerStep
               \/ \E c \in Closers : CloseStep(c)
               \/ UNCHANGED vars
      BY <3>2 DEF RequestStep, BeginTracked, BeginBare, CountRequest, HandlerEnds,
                  Leave, TickerFires, SamplerStep, SamplerTick, SamplerStore,
                  SamplerExit, CloseStep, CloseEnter, CloseCancel, CloseWait,
                  CloseUnblock, vars
    <3> QED
      BY <3>1, <3>2 DEF Next
  <2> QED
    BY <2>1, <2>2, <2>3, <2>4, <2>5, <2>6 DEF PollStep
<1>1. NoFuture'
  BY <1>each DEF NoFuture
<1>2. BoundedSkew'
  BY <1>each DEF BoundedSkew
<1> QED
  BY <1>0, <1>1, <1>2 DEF Ladder

LEMMA LadderStart == Init => Ladder
<1> SUFFICES ASSUME Init PROVE Ladder
  OBVIOUS
<1>1. TypeOK
  BY InitTyped
<1>2. \A w \in Windows : loadBits[w] = 0
  BY DEF Init, NoLoad
<1>3. \A h \in Pollers : \A w \in Windows : poll[h].load[w] = 0
  BY DEF Init, NewPoll, NoLoad
<1>4. Level
  BY <1>2 DEF Init, Level, Windows
<1> QED
  BY <1>1, <1>2, <1>3, <1>4 DEF Ladder, NoFuture, BoundedSkew

\* The averages of one /health response are at most one tick apart, whatever
\* happens between its three reads.
THEOREM SkewIsBounded == Spec => []BoundedSkew
<1>1. Ladder => BoundedSkew
  BY DEF Ladder
<1> QED
  BY <1>1, LadderStart, LadderStep, PTL DEF Spec

\* Outside a tick, and for ever after Close, the three averages are those of
\* the same instant.
THEOREM TicksAreWhole == Spec => []WholeTickAtRest
<1>1. Ladder => WholeTickAtRest
  BY DEF Ladder, Level, WholeTickAtRest, Windows
<1> QED
  BY <1>1, LadderStart, LadderStep, PTL DEF Spec

-----------------------------------------------------------------------------
(* Close.                                                                   *)

\* The sync.Once is done only after the sampler is, and nobody leaves Close
\* before it is done.
Closing ==
  /\ TypeOK
  /\ closeOnce = "done" => samplerDone
  /\ \A c \in Closers : closer[c] = "returned" => closeOnce = "done"

LEMMA ClosingStart == Init => Closing
BY InitTyped DEF Init, Closing

LEMMA ClosingStep == Closing /\ [Next]_vars => Closing'
<1> SUFFICES ASSUME Closing, [Next]_vars PROVE Closing'
  OBVIOUS
<1>0. TypeOK /\ TypeOK'
  BY TypeStep DEF Closing
<1>1. ASSUME NEW c \in Closers, CloseStep(c)
      PROVE  Closing'
  <2> USE <1>0 DEF Closing, TypeOK, samplerDone
  <2>1. CASE CloseEnter(c)
    BY <2>1 DEF CloseEnter, loadVars
  <2>2. CASE CloseCancel(c)
    BY <2>2 DEF CloseCancel, loadVars
  <2>3. CASE CloseWait(c)
    BY <2>3 DEF CloseWait, loadVars
  <2>4. CASE CloseUnblock(c)
    BY <2>4 DEF CloseUnblock, loadVars
  <2> QED
    BY <1>1, <2>1, <2>2, <2>3, <2>4 DEF CloseStep
<1>2. CASE \/ \E r \in Requests : RequestStep(r)
           \/ \E h \in Pollers : PollStep(h)
           \/ TickerFires
           \/ SamplerStep
           \/ UNCHANGED vars
  <2>1. UNCHANGED <<closeOnce, closer>> /\ (samplerDone => samplerDone')
    BY <1>2 DEF RequestStep, BeginTracked, BeginBare, CountRequest, HandlerEnds,
                Leave, PollStep, PollBegin, PollLoad, PollInFlight, PollTotal,
                TickerFires, SamplerStep, SamplerTick, SamplerStore,
                SamplerExit, samplerDone, vars, loadVars, closeVars
  <2> QED
    BY <1>0, <2>1 DEF Closing
<1> QED
  BY <1>1, <1>2 DEF Next

\* Close returns, to its first caller or a concurrent one, only after the
\* sampler goroutine has returned.
THEOREM CloseStopsSampler == Spec => []ClosedMeansStopped
<1>1. Closing => ClosedMeansStopped
  BY DEF Closing, ClosedMeansStopped
<1> QED
  BY <1>1, ClosingStart, ClosingStep, PTL DEF Spec

\* While the sampler has been told to stop and has not, the caller of Close
\* that told it is waiting for it.
Awaited ==
  ctx = "canceled" /\ ~samplerDone => \E c \in Closers : closer[c] = "await"

\* Every step of the callers and of the sampler is a step of the abstract
\* contract, or none: Close and runSampler implement StopOnce (its safety).
THEOREM ImplementsStopOnce == Spec => StopContract
<1> DEFINE Inv == Closing /\ Awaited
           waits == [c \in Closers |->
                      CASE closer[c] = "idle"     -> "idle"
                        [] closer[c] = "returned" -> "released"
                        [] OTHER                  -> "waiting"]
<1>1. Init => Inv /\ Contract!Init
  BY ClosingStart DEF Init, Awaited, samplerDone, Contract!Init
<1>2. Inv /\ [Next]_vars => Inv'
  <2> SUFFICES ASSUME Closing, Awaited, [Next]_vars PROVE Awaited'
    BY ClosingStep
  <2> USE DEF Awaited, samplerDone
  <2>1. ASSUME NEW c \in Closers, CloseStep(c)
        PROVE  Awaited'
    BY <2>1 DEF CloseStep, CloseEnter, CloseCancel, CloseWait, CloseUnblock,
                loadVars, Closing, TypeOK
  <2>2. CASE \/ \E r \in Requests : RequestStep(r)
             \/ \E h \in Pollers : PollStep(h)
             \/ TickerFires
             \/ SamplerStep
             \/ UNCHANGED vars
    BY <2>2 DEF RequestStep, BeginTracked, BeginBare, CountRequest, HandlerEnds,
                Leave, PollStep, PollBegin, PollLoad, PollInFlight, PollTotal,
                TickerFires, SamplerStep, SamplerTick, SamplerStore,
                SamplerExit, vars, loadVars, closeVars
  <2> QED
    BY <2>1, <2>2 DEF Next
<1>3. Inv /\ [Next]_vars => [Contract!Next]_(Contract!vars)
  <2> SUFFICES ASSUME Closing, Awaited, [Next]_vars
               PROVE  [Contract!Next]_(Contract!vars)
    OBVIOUS
  <2> USE DEF Contract!vars, Contract!Next
  <2>1. ASSUME NEW c \in Closers, CloseStep(c)
        PROVE  [Contract!Next]_(Contract!vars)
    <3>1. sampler' = sampler /\ closer \in [Closers -> {"idle", "cancel", "await", "blocked", "returned"}]
      BY <2>1 DEF CloseStep, CloseEnter, CloseCancel, CloseWait, CloseUnblock,
                  loadVars, Closing, TypeOK
    <3>2. CASE CloseEnter(c)
      <4>1. closer[c] = "idle" /\ closer' = [closer EXCEPT ![c] = closer'[c]]
            /\ closer'[c] \in {"cancel", "blocked"}
        BY <3>1, <3>2 DEF CloseEnter
      <4>2. waits[c] = "idle" /\ waits' = [waits EXCEPT ![c] = "waiting"]
        BY <3>1, <4>1
      <4> QED
        BY <3>1, <4>2 DEF Contract!Ask, samplerDone
    <3>3. CASE CloseCancel(c)
      <4>1. waits' = waits
        BY <3>1, <3>3 DEF CloseCancel
      <4> QED
        BY <3>1, <4>1 DEF samplerDone
    <3>4. CASE CloseWait(c) \/ CloseUnblock(c)
      <4>1. samplerDone /\ closer[c] \in {"await", "blocked"}
            /\ closer' = [closer EXCEPT ![c] = "returned"]
        BY <3>4 DEF CloseWait, CloseUnblock, Closing
      <4>2. waits[c] = "waiting" /\ waits' = [waits EXCEPT ![c] = "released"]
        BY <3>1, <4>1
      <4> QED
        BY <3>1, <4>1, <4>2 DEF Contract!Release, samplerDone
    <3> QED
      BY <2>1, <3>2, <3>3, <3>4 DEF CloseStep
  <2>2. CASE SamplerExit
    <3>1. PICK c \in Closers : closer[c] = "await"
      BY <2>2 DEF SamplerExit, Awaited, samplerDone
    <3>2. waits[c] = "waiting" /\ waits' = waits
      BY <2>2, <3>1 DEF SamplerExit, closeVars
    <3> QED
      BY <2>2, <3>2 DEF SamplerExit, samplerDone, Contract!Stop
  <2>3. CASE \/ \E r \in Requests : RequestStep(r)
             \/ \E h \in Pollers : PollStep(h)
             \/ TickerFires
             \/ SamplerTick
             \/ SamplerStore
             \/ UNCHANGED vars
    <3>1. closer' = closer /\ samplerDone' = samplerDone
      BY <2>3 DEF RequestStep, BeginTracked, BeginBare, CountRequest, HandlerEnds,
                  Leave, PollStep, PollBegin, PollLoad, PollInFlight, PollTotal,
                  TickerFires, SamplerTick, SamplerStore,
                  samplerDone, vars, loadVars, closeVars
    <3> QED
      BY <3>1
  <2> QED
    BY <2>1, <2>2, <2>3 DEF Next, SamplerStep
<1> HIDE DEF Inv
<1> QED
  BY <1>1, <1>2, <1>3, PTL DEF Spec, StopContract, Contract!Safety
=============================================================================
