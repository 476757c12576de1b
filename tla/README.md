# checker-sdk-go in TLA+

A model of the checker SDK (`src/checker`, `src/checker/server`): what an
external checker's HTTP server, its signal handling, its telemetry, its
registries and its helpers do under concurrency, failure and unusual orders and
values, checked with TLC on small instances and, for most of what matters,
proved with TLAPS for every size.

## 1. The system

A *checker* observes a domain or a service and judges what it saw. It is written
as an `ObservationProvider` (`Collect`), a `CheckerDefinition` with rules
(`Evaluate`), and optional interfaces (HTML report, metrics, discovery entries,
eligibility, interactive form, siblings). It runs inside a happyDomain host,
which finds it in global registries, or as a process of its own, an HTTP server
the host calls.

| part | source | state | operations | modules |
|---|---|---|---|---|
| work accounting, `/health`, `Close` | `server/server.go` | atomics `inFlight`, `totalRequests`, `loadBits[3]`; sampler goroutine; `sync.Once` | `TrackWork`, `runSampler`, `handleHealth`, `Close` | `Telemetry`, `StopOnce` |
| load averages | `server/server.go` | three numbers | `updateLoadAvg` | `LoadAverage` |
| server lifecycle | `server/server.go` | `sigCh`, `shutdownErr`, the `http.Server`, two goroutines, the process | `ListenAndServe` | `ServerLifecycle`, `GracefulStop` |
| health probe | `server/healthcheck.go`, `server/server.go` | one request with a deadline | `runHealthcheck`, the `-healthcheck` branch | `Healthcheck` |
| remote endpoints | `server/server.go` | per request only | `/collect`, `/definition`, `/evaluate`, `/report` | `Endpoints`, `RuleEvaluation` |
| shared definitions | `types.go`, `server/server.go`, `registry.go` | a definition by pointer, `RulesInfo` | `BuildRulesInfo` from `New` and `RegisterChecker`, `GET /definition` | `SharedDefinition` |
| enabled rules | `context.go`, `server/server.go` | a map in the context | `WithEnabledRules`, `RuleEnabled`, `evaluateRules` | `RuleEvaluation` |
| interactive form | `server/interactive.go` | none; the human's browser | `GET /check`, a refused `POST /check` | `CheckForm` |
| interactive page | `server/interactive.go` | per request: options, siblings' data, result | an accepted `POST /check` | `CheckPage`, `RuleEvaluation` |
| registries | `registry.go` | two global maps, definitions by pointer | `Register*`, `Find*`, `Get*` | `Registry` |
| option accessors | `options.go` | none | `Get*Option` | `Options` |
| names | `names.go` | none | `JoinRelative` | `Names` |
| wire types | `types.go` | none | `CheckTarget.String` and the records handlers read | `Targets`, and in part where they are read |

How the parts meet: handlers run in `net/http` goroutines and share with the
sampler and `/health` only the atomics; `ListenAndServe` and the owner of the
server meet in `Close`; `ListenAndServe` and its signal goroutine meet in two
channels and in `http.Server`; several `New`, registrations and
`GET /definition` meet in one definition they all have a pointer to; `/collect`
and `/evaluate` meet in the enable map the host sends to both; `/check` runs in
one handler what a host spreads over several requests; options reach the
accessors as Go values or out of JSON; the probe is a second process with the
same address.

What is hard: words of one group of atomics read and written one at a time;
handlers that panic; a `select` with two ready cases; concurrent callers of
`Close`; signals at any point of start-up, service, drain and return; a drain
that races its deadline; unsynchronised builds of one slice; option slices and
maps shared by reference; one failing step of several; values whose Go type
depends on how they came. `PROJECT.json` lists these hazards at their lines, with
the properties that would catch each and a note where nothing does.

## 2. Modules

Operators introduced by a comment that begins "Mutant:" are plausible bugs; no
specification uses them. Putting one in the place of the definition it varies
makes TLC report the property it is listed with violated.

### Telemetry, StopOnce

`stage[r]` is where request slot `r` is inside `TrackWork`: `added` between the
two increments, `serving` in the handler, `returned` or `panicked` before the
deferred decrement. `BeginTracked`, `CountRequest`, `HandlerEnds` and `Leave` are
those steps; `BeginBare` is a request on a route `New` does not wrap. `PollLoad`,
`PollInFlight` and `PollTotal` are the five reads of `handleHealth`;
`SamplerTick`, `SamplerStore` and `SamplerExit` the `select` and the store loop
of `runSampler`; `Close*` the steps of `Close` under `sync.Once`. An average is
represented by how many samples are folded into it, which tells which tick a value
belongs to; the arithmetic is in `LoadAverage`. The three reads of `prev` and the
read of `inFlight` are one action with the receipt of the tick, because no other
goroutine writes `loadBits`. `arrivals` and `ticks` are history variables that
also bound the run.

`StopOnce` is the contract of `Close` without contexts, channels or `Once`: its
`Safety` says who may stop and be released when, its `Progress` that they are.
`Contract` maps `Telemetry` to it (`running` is "the sampler has not returned", a
caller waits from its entry to its return). `Telemetry` shows the safety,
`ServerLifecycle`, where the process and the fairness are, the progress.

### ServerLifecycle, GracefulStop

EXTENDS `Telemetry` and runs all of it beside `ListenAndServe`. `mainPc` walks
the lines of `ListenAndServe` (`notify`, `check`, `bind`, `serving`, `stop` =
`signal.Stop`, `close` = `close(sigCh)`, `await` = `<-shutdownErr`, `finish` =
`Close`, `returned`); `waiterPc` those of its goroutine. `sigBuf`, `sigClosed` and
`shutdownErr` are the channels with their capacity 1. What `net/http` does is
modelled from how this code depends on it, and marked external: `Serve` accepts
until Shutdown closes the listener or Accept fails; `Shutdown` marks the server,
waits for `Serve` to return, closes idle connections, and returns nil once none is
left or an error when the context expires, which it notices only between two looks
at the connections. A request needs an open connection. `Signal` is the operating
system: an unregistered signal kills the process, one sent to a full channel is
dropped, and one sent to a closed channel would panic.

`GracefulStop` is the promise: a stop that is asked for comes to an end, and a
clean one means that nothing runs or will. `Stopping` maps to it: `stopping` from
the moment Shutdown begins, `clean` or `failed` when `ListenAndServe` returns.

### SharedDefinition

`BuildRulesInfo` store by store, on a definition that several servers and a
registration hold. A build publishes a new array (`Allocate`), then reads
`d.RulesInfo` again for each rule, so its stores may go into the array of another
build (`BeginStore`, `EndStore`). An entry is several words: a reader in the
middle of its first store (`torn`) may find it blank, complete, or a string with a
length and no bytes, which panics. The slice header needs no torn state, since all
arrays have the same length and a mixture of two headers is one of them. This is
a data race in Go; the model has the outcomes word-sized stores can produce.

### Registry

A definition is a pointer its caller keeps and a slice is an array with a length,
so `append` (`AppendOption`) writes in place when the array has room and allocates
otherwise. Definitions start with a slice of any length up to `Capacity`, of an
array of their own or of one several share (`Common`); `declared` remembers it. A
slice begins where its array does. IDs may be empty or shared. Each registration
function is one action, as registration happens in `init` functions, which Go runs
one after another.

### RuleEvaluation, Endpoints, CheckPage

`RuleEvaluation` has the two readings of the enable map and `evaluateRules` as
operators. `Endpoints` takes one request through its handler with every outcome of
every callback: handlers share nothing but the counters (in `Telemetry`), so
interleaving several would add nothing. `Precheck` is one turn of the loop of
`handlePrecheck`, at rule `at`; an entry of `failures` is the rule whose error it
holds, so that a later failure under one name replaces an earlier one. `CheckPage`
does the same for an accepted `POST /check`: option maps are references (`maps`),
the primary, a sibling and a rule may write into the one they are handed (`left` is
how the primary left its own), and each sibling is a turn of `Clone` and
`SiblingSucceeds` or `SiblingFails`. The fields of `checkResult` are strings that may
be empty, as a callback may return nothing or fail with an empty message, and
`Sections` tests them as the template does; `outcome` remembers what really came
out. Payloads are abstracted to what the properties tell apart; a value
that `encoding/json` cannot encode is the outcome `nothing` of `ReplyJSON`, a
template that fails is the page `failure`. A callback that panics leaves its
request where it is; what that does to the counters is in `Telemetry`.

### Helpers: CheckForm, Healthcheck, LoadAverage, Names, Options, Targets

Parts that share no state with anything else. Each has a module with variables,
actions and a specification of its own, and `Helpers` puts them side by side:
`subject` chooses which of them a behaviour is about and the others rest, so a
single run costs the sum of the parts and not their product.

- `CheckForm`: the control the template gives a field (`Control`), what it holds
  (`Rendered`), and a human who edits it, has forms refused and submits.
- `Healthcheck`: the rewriting of the address (`normalizeHealthcheckAddr`,
  `LocalHost`) and the request, against a server that goes `up`, `down`, `failing`
  or `stuck` meanwhile and takes its connections with it when it goes down (`lost`).
  `seen` holds its conditions since it was dialled. Addresses are forms of hosts and
  ports; what `net.Listen` and `net/url` make of each is external, and nothing else
  is taken to listen where the server does not.
- `LoadAverage`: `updateLoadAvg` on exact numbers, as numerators over a common
  `scale` that grows with each tick; `SettleTicks` is chosen large enough for the
  slowest average (`SettleTicksSettle`).
- `Names`: `JoinRelative` on sequences of characters, against the same on labels
  (`Absolute`); a result may be encoded again, with or without its dot.
- `Options`: the four accessors on every dynamic type, native and decoded from
  JSON, with numbers in halves, ints of `IntBits` and mantissas of `Precision`
  bits, so that there are fractions and ints no float64 holds.
- `Targets`: a target changed field by field, and the key `String` makes of it.

## 3. Runs

| run | bounds | shows |
|---|---|---|
| `telemetry` | 2 request slots (a tracked and a bare route), 3 arrivals, 1 poller, 2 callers of `Close`, 2 ticks | the gauge is exact whatever panics (`InFlightExact`); `/health` never reports load nobody brought (`PublishedLoadIsBacked`), nor averages more than a tick apart in the wrong direction (`BoundedSkew`); a tick is taken whole or not at all (`WholeTickAtRest`); `Close` keeps the safety of its contract (`StopContract`) |
| `lifecycle` | 2 connections, 1 arrival, 2 signals, 1 tick, `Close` by the owner too, failing binds and accepts, with fairness | `NeverPanics`, `CleanReturnIsDrained`, `ReturnStopsSampler`; a delivered signal makes it return (`SignalStops`), its goroutine ends (`WaiterExits`), everyone who called `Close` gets control back (`CallersReturn`), and all of it is a graceful stop (`StopsGracefully`) |
| `shared_definition` | 2 servers and a registration over a definition of 2 rules, with fairness | a build that ended leaves the definition whole (`BuiltIsWhole`), undisturbed responses are whole (`UndisturbedIsWhole`), and overlapping builds end up whole (`EventuallyWhole`) |
| `registry` | 3 definitions, 2 IDs and the empty one, option slices of 0 to 2 in arrays of 2, up to 4 options, 3 providers, 2 keys | `FirstWins`, `LookupIsSound`, `EndpointOnce` |
| `endpoints` | 2 rule names, up to 2 rules and 2 states a rule, all interfaces, bodies and maps | `CollectAgreesWithEvaluate`, `CollectedIsSent`, `StatesAreAttributed`, `FailuresReported` |
| `check_page` | up to 2 siblings over 2 keys, up to 2 rules | `OptionsAreIsolated`, `RelatedIsComplete`, `PageIsComplete` |
| `helpers` | every field, 2 refused forms; 9 ticks of up to 2 requests; names and origins of 4 characters over 2 letters and the dot; options with 5 bits of int and 3 of mantissa; 4 identifiers, 2 service types; every address form, 2 changes of the server | `UntouchedKeepsDefault`; `WithinPeak`, `RisingIsOrdered`, `Settles`; `LandsInOrigin`, `RoundTrips`; `SameOverHTTP`, `SameAsGetOption`, `IntIsClose`; `Unambiguous`; `VerdictIsJustified` |

`telemetry` and `lifecycle` also check their type invariants, and `registry` its
own.

Why the bounds are enough. `telemetry`: two slots give every overlap of two
requests, the third arrival reuses a slot, two ticks let a whole tick pass between
two reads of a response, and two callers of `Close` are the one that runs the
function and one that waits; all its properties are also proved for any number of
each. `lifecycle`: one signal to stop and one at any later time, one connection
that is busy and one that is idle, one tick to race the cancellation; its safety is
proved for every size, and what the run adds is liveness, which depends on which of
the goroutines wait for which and not on how many requests there are.
`shared_definition`: three builds let two older ones store into the array of the
third; two rules separate the first store, the last, and the one between two
reads. `registry`: arrays of two and slices of none, one or two options let append
write in place or allocate, own and shared alike; two registrations under one ID
and a third definition that shares their array reach every branch, an array
written by two others included. `endpoints`, `check_page`: two rules can
share a name, and two siblings a key, with one failing before the other.
`helpers`: the longest window comes within half a request of a constant load in
five ticks (`SettleTicks`) at the weights of the run, and nine leave room for any
four before; four characters hold two labels and a dot, and an origin that is a
suffix of a label (`a` in `ba`) or occurs twice; two bits of an int beyond the
mantissa make ints that round up, down and to even.

Deadlock is checked in `registry` and `shared_definition` only, where something can
always happen: a server may stop, and a handled request is the end of a behaviour.

Five runs state what the documentation says and find it not to be so:

| run | the documentation | the code |
|---|---|---|
| `telemetry_documented` | `/definition` is not counted as in flight (types.go:605) | `POST /definition` and `POST /check` are tracked |
| `lifecycle_second_signal` | in-flight requests are given up to `shutdownTimeout` (server.go:180) | `signal.Stop` comes before the drain ends, so a second signal kills the process |
| `check_page_ref` | `Ref` is that of the entry covered (types.go:356) | `/check` leaves it empty |
| `options_documented` | `GetIntOption` returns `defaultVal` if the key is missing (options.go:73) | the default goes through a float64, and comes back as another int if none holds it |
| `targets_documented` | different targets never produce the same string (types.go:74) | identifiers with slashes can |

What the models show besides, where no document says otherwise:

- Where callers share an array with room behind their slices, the later append
  overwrites the endpoint of the earlier definition, which then offers another
  one's. `EndpointOnce` says exactly where that can be (`Writers`, `Offered`):
  nowhere else, and nowhere at all for slices without room behind them, as composite
  literals are.
- A registration refused for its empty ID has appended the option by then, and
  appends another at each attempt (registry.go:63); what the comment there promises
  of refused registrations is about duplicates.
- A value that does not encode yields a 200 without a body (`writeJSON`,
  server.go:523); the error is dropped. The payload of one discovery entry can lose
  a whole collection that way (`CollectedIsSent`).
- An error with an empty message leaves no trace on the page of `/check`
  (interactive.go:144, 153, 405): the template tests the message.
- A server listening on the empty address, a named port, port 0 or a zoned IPv6
  address cannot be probed (`Probeable`; healthcheck.go:46).
- `GetFloatOption` and `GetIntOption` ignore Go ints, so a provider finds one only
  if it came over HTTP; what `GetIntOption` makes of a value beyond int depends on
  the processor (options.go:76); a null is the zero value to `GetOption` and no
  value to the others. The properties of `Options` name these cases.
- A select whose choices are `true` and `false` and whose default is the bool
  `false` comes up with `true` (interactive.go:304, 370): `false` prints as the empty
  string, so no choice is marked and the browser takes the first.

## 4. Fairness

Only goroutines of this code are assumed to run.

`LifeFairness` (in `ServerLifecycle`) has weak fairness of the goroutine that runs
`ListenAndServe`, of its signal goroutine, of the sampler's stores and of each
step of a caller already inside `Close`. It has strong fairness of `SamplerExit`,
which handling a tick disables again and again: Go's `select` chooses
pseudo-randomly among ready cases, so a cancelled context is not passed over for
ever. And it has strong fairness of `Deadline`: the poll timer may win any number
of times, but `shutdownTimeout` expires. Nothing is assumed of handlers, clients,
signals, the ticker, a failing bind or Accept, so `SignalStops` holds even though
handlers may never return. The liveness properties allow for the process being
killed by a signal (`~Up`, or `[]Up` as the premise of `CallersReturn`).

`SharedDefinition` has weak fairness of the steps of a build that has begun, which
are straight-line code; builds may never begin and requests never end.

## 5. Proofs

Eight modules hold theorems; each EXTENDS the modules it is about. What they
show holds for every value of the constants that satisfies the assumptions named
in those modules (`BoundsAreNat` and the like; `FiniteSlots`: there are finitely
many request slots).

| theorem | says | by the inductive invariant |
|---|---|---|
| **TelemetryProofs** | | |
| `TypeCorrect` | `[]TypeOK` | `TypeOK` |
| `GaugeNeverLeaks` | `[]InFlightExact` | `Gauge`: a slot is inside `TrackWork` only on a tracked route, so counting out always removes a member of `Active` |
| `PublishedLoadBacked` | `[]PublishedLoadIsBacked` | `Backing`: arrivals are the counted requests and those about to be, and bound every copy of the gauge |
| `TicksAreWhole` | `[]WholeTickAtRest` | `Level`: during a tick the averages below the loop index have the new sample and the others do not |
| `SkewIsBounded` | `[]BoundedSkew` | `Ladder`: `Level`, and no response holds more than what is published, which never goes back |
| `CloseStopsSampler` | `[]ClosedMeansStopped` | `Closing`: the `Once` is done only after the sampler is |
| `ImplementsStopOnce` | `Spec => StopContract` | `Closing` and `Awaited`: while a cancelled sampler runs, somebody is waiting for it |
| **LifecycleProofs** | | |
| `ServesAsTelemetry` | `LifeSpec => Spec`, so that all of the above holds of a server under `ListenAndServe` | none needed: every step leaves `Telemetry` alone or is one of its steps |
| `LifeTypeCorrect` | `[]LifeTypeOK` | `Ranges` and `Flags` |
| `SignalsNeverPanic` | `[]NeverPanics` | `Registration`: `sigCh` is registered only up to `signal.Stop` and closed only after it |
| `ReturnStops` | `[]ReturnStopsSampler` | `ClosedFirst`: it returns only through its own `Close`, and `Closing` |
| `CleanReturns` | `[]CleanReturnIsDrained` | `Stopped`: a nil result of Shutdown means a server that is drained and accepts no more, and a nil error is such a result |
| `ImplementsGracefulStop` | `LifeSpec => Stopping!Safety` | `Stopped` |
| **SharedDefinitionProofs** | | |
| `BuildsAreWhole` | `[]BuiltIsWhole` | `BuildInv`: the build whose array is in use stores into that array, so the entries below its index are there whoever else stores into it |
| `ResponsesAreWhole` | `[]UndisturbedIsWhole` | `ReadInv`: while a request is undisturbed the array in use stays that of a build that has ended |
| **RegistryProofs** | | |
| `TypeCorrect` | `[]TypeOK` | `Within`: a slice is of the definition's own array or of the common one, and ends within it |
| `FirstRegistrationWins` | `FirstWins` | `Maps`: both maps have entries of their kind |
| `LookupsAreSound` | `[]LookupIsSound` | itself, with `Maps` |
| `EndpointIsOfferedOnce` | `[]EndpointOnce`, for any `Capacity` | `OptionsInv`: a slice is still the declared one, or one longer in place or copied (`Grown`); every position of an array holds what its writers can have put there (`Contents`); and a definition with an ID has one option more exactly if it was accepted (`Counted`) |
| **EndpointProofs** | | |
| `CollectionsAreSent` | `[]CollectedIsSent` | `HandlerInv`: which route a handler at each step is for, and that data is gathered exactly past `Marshal` |
| `FailuresAreReported` | `[]FailuresReported` | `PrecheckInv`: the failures so far are of rules before `at`, and under each name is entered the last of them |
| `CollectReadsAsEvaluate` | `[]CollectAgreesWithEvaluate`, for every enable map | `HandlerInv` and `StatesInv`, and that the two readings of a map agree (`ReadingsAgree`) |
| `StatesShowTheirRules` | `[]StatesAreAttributed` | `StatesInv`: the states of an evaluation come in the order of their rules and are from exactly the rules that are not skipped (`EvaluationOf`, from what `FlattenSeq` keeps of tagged sequences, `TaggedFlatten`) |
| **CheckPageProofs** | | |
| `OptionsStayIsolated` | `[]OptionsAreIsolated` | `PageInv`: a sibling is handed the map of its own number, which is not the primary's, and until the rules run the primary's is as its `Collect` left it |
| `RelatedStaysComplete` | `[]RelatedIsComplete` | `RelatedInv`: under each key the observations are in the order of the siblings, and none is of a sibling whose turn is still to come, so that appending keeps the order |
| `PageStaysComplete` | `[]PageIsComplete` | `ResultInv`: which fields of the result are set at each step, and that each is what its callback came to; every rule has a state (`EveryRuleHasAState`) |
| **HelperProofs** | | |
| `AveragesAreWithinPeak` | `[]WithinPeak` | `Within`: the latest sample is no larger than the peak |
| `RisingLoadIsOrdered` | `[]RisingIsOrdered` | `Rising` with `Within`: while the load grows, the latest sample is the peak, so no average is above it and the heavier weight gains the most |
| `VerdictsAreJustified` | `[]VerdictIsJustified` | `Probing`: what is dialled the server listens on, if the address can be probed (`RewritesWell`); a probe that waits is connected, and one that lost its connection has seen the server down |
| `OptionsSurviveHTTP` | `[]SameOverHTTP` | `Travelled`: the answer is the accessor's on the option as it was set or decoded; and that rounding a number a float64 holds gives it back (`RoundExact`) |
| `AveragesSettle` | `[]Settles`, if `SettleTicks` is enough for the slowest average (`SettleTicksSettle`) | `Contracting` with `Within`: since the load has been constant, an average is no further from it than `(1 - alpha)^steady` of the largest load (`Settling`) |
| `DefaultsSurviveTheForm` | `[]UntouchedKeepsDefault` | `Untouched`: what is on the screen is the form as it was rendered, until it is touched; and that a control which can hold the default is rendered with it (`RenderedKeeps`) |
| `DefaultsAreGetOption` | `[]SameAsGetOption` | `Travelled` |
| `IntsAreExact` | `[]IntIsExact`, the exact part of `IntIsClose` | `Travelled`, `RoundExact`, and that truncating an int gives it back (`IntsAreWhole`) |
| `LandsOnLabels`, `ComesBack` | `[]LandsInOrigin`, `[]RoundTrips` | `ResolvedInv`: the name being encoded is the given one, or the resolved one once its dot is trimmed |
| `KeysAreUnambiguous` | `[]Unambiguous` | `Typed`, and that two strings with a slash agree on what is before their first one |
| `PartsBehave` | `Spec` of `Helpers` implies the specification of each part, so that the theorems above hold in the run | none needed |
| **SequenceFacts** | lemmas only | |

Few of these properties are inductive by themselves: the gauge does not say that a
slot that leaves had been counted in, the skew of a response says nothing of what
its next read may find, and a clean return only follows from what a result in
`shutdownErr` meant when it was sent. Cardinalities are handled with the library's
`FS_AddElement` and `FS_RemoveElement`. Boolean variables and arithmetic need
different provers, which is why the Boolean ones are often apart (`Flags`,
`BuiltType`).

Recursive definitions over sequences are reasoned about through `SequenceFacts`.
The library's induction theorems take a predicate, which the provers cannot
instantiate; induction over the *set* of the numbers or sequences something holds of
says the same and can be (`Induction`, `AppendInduction`), and so can the existence
of a function given by its first value and a step (`Recursion`). From these follow
what `FlattenSeq` keeps of the states of each rule (`TaggedFlatten`), the powers
`Settles` is about (`PowerNext`), and the labels of names: `Labels` of two names
with a dot between them are those of the one and then of the other
(`LabelsOfParts`), and the labels of one name are the last labels of another exactly
if the code's test says so, the names are equal or the other ends in a dot and the
name (`LabelsOfSuffix`, by induction from the end of both). `LandsOnLabels` is that
lemma carried through the cases of `JoinRelative`; `ComesBack` needs in addition
that what was joined has no dot left to trim (`JoinsTwice`), which rests on names
having no empty label at their end (`WellFormedIsTrimmed`).

Most assumptions on constants are ranges or finiteness; two say more: `WeightsAreAlphas`
(the coefficients lie between 0 and 1 and fall with the window, as
`1 - exp(-interval/window)` does) and `SettleTicksSettle`, which says what the
constant `SettleTicks` means and which a large enough number satisfies for any such
weights. TLC evaluates all of them in the runs.

Only model-checked: liveness (`SignalStops`, `WaiterExits`, `CallersReturn`,
`EventuallyWhole` and the last part of `StopsGracefully`), which the prover does
not handle, and how close `IntIsClose` says that inexact numbers and fractions come:
that needs a nearest float64 to exist, and facts about the powers of two that the
provers do not have of `^`. Every other invariant and
safety property of the passing runs is a theorem.

## 6. Not modelled

- *Wire types* are in part modelled: most of `types.go` declares records and
  interfaces for hosts and checkers and has no behaviour of its own; JSON tags,
  and `CheckTarget.Scope`, a switch over empty fields, are left out.
- The request logger and its status recorder, and the text and style of the
  templates: nothing depends on them.
- Cancellation of a request's context by a client that leaves: no handler looks at
  it, and what a callback makes of it is among its outcomes (an error).
- What a caller does with the live maps `GetCheckers` and
  `GetObservationProviders` return: a write to them is no step of this code.
- Proxies from the environment and redirects, which the probe's HTTP client would
  follow.
- The rounding of float64 in the load averages; rounding in the option accessors is
  modelled.
- The host: how it calls the four endpoints, with which retries, and what it does
  with the states is not in this repository, so there is nothing to translate a
  composition of them from.
- A sibling that modifies a value of its options in place instead of an entry:
  `cloneOptions` copies one level, and the values of options are atomic here.
