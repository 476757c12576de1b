-------------------------- MODULE CheckPageProofs ---------------------------
(***************************************************************************)
(* Theorems about CheckPage, for any number of siblings and rules, the     *)
(* kinds and keys of the siblings: who sees which options, what the rules  *)
(* see of the siblings, and what the page shows.                           *)
(***************************************************************************)
EXTENDS CheckPage, SequenceFacts

Steps == {"submit", "collect", "discover", "clone", "sibling",
          "evaluate", "html", "metrics", "render", "done"}

Values == {"parsed", "absent", "entries", "primary", "sibling", "rule"}

\* References name maps, and the handler's turn a sibling.
PageTypes ==
  /\ step \in Steps
  /\ maps \in [0..MaxSiblings -> [Options -> Values]]
  /\ left \in [Options -> Values]
  /\ siblings \in Seq(SiblingKinds) /\ Len(siblings) <= MaxSiblings
  /\ next \in Nat
  /\ step \in {"submit", "collect", "discover"} => next = 1
  /\ step \in {"clone", "sibling"} => next \in 1..Len(siblings)

\* A sibling is never handed the primary's map, which stays as the primary's
\* Collect left it until the rules are run.
Cloned ==
  /\ step \in {"discover", "clone", "sibling", "evaluate"} => maps[Primary] = left
  /\ step = "sibling" => handed = next /\ maps[next] = Filled(left, siblings[next])

PageInv == PageTypes /\ Cloned

LEMMA MapTypes ==
  /\ Parsed \in [Options -> Values]
  /\ \A who \in {"primary", "sibling", "rule"} : Scribbled(who) \in [Options -> Values]
BY DEF Parsed, Scribbled, Options, Values

LEMMA PageStart == Init => PageInv
<1> SUFFICES ASSUME Init PROVE PageInv
  OBVIOUS
<1>1. PICK n \in 0..MaxSiblings : siblings \in [1..n -> SiblingKinds]
  BY DEF Init
<1>2. siblings \in Seq(SiblingKinds) /\ Len(siblings) <= MaxSiblings
  BY <1>1, BoundsAreNat
<1>3. maps \in [0..MaxSiblings -> [Options -> Values]] /\ left \in [Options -> Values]
  BY MapTypes DEF Init
<1> QED
  BY <1>2, <1>3 DEF Init, PageInv, PageTypes, Cloned, Steps

LEMMA FilledType ==
  ASSUME NEW s, NEW opts \in [Options -> Values]
  PROVE  Filled(opts, s) \in [Options -> Values]
<1>1. [opts EXCEPT !["entries"] = "entries"] \in [Options -> Values]
  BY DEF Options, Values
<1> QED
  BY <1>1 DEF Filled

\* The end of a sibling's turn, whatever it wrote into the map it was handed.
LEMMA TurnEnds ==
  ASSUME PageInv, step = "sibling", Advance, Scribbles
  PROVE  PageInv'
<1> USE DEF PageInv
<1>1. /\ next' = next + 1
      /\ step' = IF next = Len(siblings) THEN "evaluate" ELSE "clone"
      /\ siblings' = siblings
  BY DEF Advance, Scribbles, setup
<1>2. next \in 1..Len(siblings) /\ Len(siblings) \in Nat /\ next \in 0..MaxSiblings
  BY BoundsAreNat DEF PageTypes
<1>3. /\ maps' \in [0..MaxSiblings -> [Options -> Values]]
      /\ maps'[Primary] = left' /\ left' = left
  <2>1. handed = next /\ handed # Primary /\ Primary \in 0..MaxSiblings
    BY <1>2, BoundsAreNat DEF Cloned, Primary
  <2>2. \/ maps' = maps
        \/ maps' = [maps EXCEPT ![handed] = Scribbled("sibling")]
    BY DEF Scribbles
  <2>3. maps[Primary] = left /\ left' = left
    BY DEF Cloned, Scribbles
  <2> QED
    BY MapTypes, <2>1, <2>2, <2>3, <1>2 DEF PageTypes
<1> QED
  BY <1>1, <1>2, <1>3 DEF PageTypes, Cloned, Steps

LEMMA PageStep == PageInv /\ [Next]_vars => PageInv'
<1> SUFFICES ASSUME PageInv, [Next]_vars PROVE PageInv'
  OBVIOUS
<1> USE DEF PageInv
<1>1. ASSUME UNCHANGED <<maps, siblings, next, handed, entries, left>>,
             step' \in Steps \ {"clone", "sibling"},
             step' \in {"discover", "evaluate"} => step = "discover",
             step' = "collect" => step = "submit",
             step' # "submit"
      PROVE  PageInv'
  BY <1>1 DEF PageTypes, Cloned
<1>2. CASE Submit
  BY <1>1, <1>2 DEF Submit, Render, setup, sibVars, Steps
<1>3. CASE Collect
  <2>1. /\ step = "collect" /\ step' \in {"render", "discover"}
        /\ left' \in {Parsed, Scribbled("primary")}
        /\ maps' = [maps EXCEPT ![Primary] = left']
        /\ UNCHANGED <<siblings, next, handed, entries>>
    BY <1>3 DEF Collect, setup, sibVars
  <2>2. left' \in [Options -> Values] /\ Primary \in 0..MaxSiblings
    BY <2>1, MapTypes, BoundsAreNat DEF Primary
  <2>3. maps' \in [0..MaxSiblings -> [Options -> Values]] /\ maps'[Primary] = left'
    BY <2>1, <2>2 DEF PageTypes
  <2> QED
    BY <2>1, <2>2, <2>3 DEF PageTypes, Cloned, Steps
<1>4. CASE Discover
  <2>1. CASE siblings = <<>>
    BY <1>1, <1>4, <2>1 DEF Discover, setup, Steps
  <2>2. CASE siblings # <<>>
    <3>1. step' = "clone" /\ UNCHANGED <<maps, siblings, next, handed, left>> /\ next = 1 /\ step = "discover"
      BY <1>4, <2>2 DEF Discover, setup, PageTypes
    <3>2. Len(siblings) \in Nat /\ Len(siblings) >= 1
      BY <2>2 DEF PageTypes
    <3> QED
      BY <3>1, <3>2 DEF PageTypes, Cloned, Steps
  <2> QED
    BY <2>1, <2>2
<1>5. CASE Clone
  <2>1. /\ step = "clone" /\ step' = "sibling" /\ handed' = next
        /\ maps' = [maps EXCEPT ![next] = Filled(maps[Primary], siblings[next])]
        /\ UNCHANGED <<siblings, next, entries, left>>
    BY <1>5 DEF Clone, setup
  <2>2. next \in 1..Len(siblings) /\ Len(siblings) \in Nat /\ next \in 0..MaxSiblings
    BY <2>1, BoundsAreNat DEF PageTypes
  <2>3. maps' = [maps EXCEPT ![next] = Filled(left, siblings[next])]
    BY <2>1 DEF Cloned
  <2>4. maps' \in [0..MaxSiblings -> [Options -> Values]] /\ maps'[next] = Filled(left, siblings[next])
    BY <2>2, <2>3, FilledType DEF PageTypes
  <2>5. maps'[Primary] = left
    BY <2>1, <2>2, <2>3, BoundsAreNat DEF PageTypes, Cloned, Primary
  <2>6. Filled(left, siblings[next])' = Filled(left, siblings[next])
    BY <2>1 DEF Filled
  <2> QED
    BY <2>1, <2>2, <2>4, <2>5, <2>6 DEF PageTypes, Cloned, Steps
<1>6. CASE SiblingSucceeds
  BY <1>6, TurnEnds DEF SiblingSucceeds
<1>7. CASE SiblingFails
  BY <1>7, TurnEnds DEF SiblingFails
<1>8. CASE Evaluate
  <2>1. /\ step = "evaluate" /\ step' = "html"
        /\ UNCHANGED <<siblings, next, handed, entries, left>>
        /\ maps' = maps \/ maps' = [maps EXCEPT ![Primary] = Scribbled("rule")]
    BY <1>8 DEF Evaluate, setup, sibVars
  <2>2. maps' \in [0..MaxSiblings -> [Options -> Values]]
    BY <2>1, MapTypes DEF PageTypes
  <2> QED
    BY <2>1, <2>2 DEF PageTypes, Cloned, Steps
<1>9. CASE HTMLReport
  BY <1>1, <1>9 DEF HTMLReport, setup, sibVars, Steps
<1>10. CASE Metrics
  BY <1>1, <1>10 DEF Metrics, setup, sibVars, Steps
<1>11. CASE RenderResult
  BY <1>1, <1>11 DEF RenderResult, Render, setup, sibVars, Steps
<1>12. CASE UNCHANGED vars
  BY <1>12 DEF vars, setup, sibVars, PageTypes, Cloned, Filled
<1> QED
  BY <1>2, <1>3, <1>4, <1>5, <1>6, <1>7, <1>8, <1>9, <1>10, <1>11, <1>12 DEF Next

\* Each sibling is handed the options as the primary left them with nothing but
\* its own entries on top, and the rules those options, however many siblings
\* write into what they are handed.
THEOREM OptionsStayIsolated == Spec => []OptionsAreIsolated
<1>1. PageInv => OptionsAreIsolated
  BY DEF PageInv, Cloned, OptionsAreIsolated
<1> QED
  BY <1>1, PageStart, PageStep, PTL DEF Spec

-----------------------------------------------------------------------------
(* The siblings' observations.                                              *)

Observations == [sibling : Nat, ref : {NoRef}]

Observed(k) == {i \in collected : siblings[i].key = k}

\* The observations of a key are those of the siblings that were collected, in
\* the order of the declaration.
Complete(k) ==
  /\ {related[k][n].sibling : n \in DOMAIN related[k]} = Observed(k)
  /\ \A m, n \in DOMAIN related[k] : m < n => related[k][m].sibling < related[k][n].sibling

\* None is of a sibling whose turn is still to come.
RelatedInv ==
  /\ related \in [Keys -> Seq(Observations)]
  /\ \A i \in collected : i \in Nat /\ i < next
  /\ \A k \in Keys : Complete(k)

LEMMA RelatedStart == Init => RelatedInv
<1> SUFFICES ASSUME Init PROVE RelatedInv
  OBVIOUS
<1>1. related = [k \in Keys |-> <<>>] /\ collected = {}
  BY DEF Init
<1>2. related \in [Keys -> Seq(Observations)]
  BY <1>1
<1>3. \A k \in Keys : Complete(k)
  BY <1>1 DEF Complete, Observed
<1> QED
  BY <1>1, <1>2, <1>3 DEF RelatedInv

\* A sibling that answers adds itself to those of its key, as the last.
LEMMA RelatedGrows ==
  ASSUME PageInv, RelatedInv, SiblingSucceeds
  PROVE  RelatedInv'
<1> DEFINE own == siblings[next].key
           new == [sibling |-> next, ref |-> NoRef]
<1>1. /\ next \in 1..Len(siblings) /\ next \in Nat
      /\ UNCHANGED siblings /\ next' = next + 1
      /\ collected' = collected \cup {next}
      /\ related' = [related EXCEPT ![own] = Append(@, new)]
  BY DEF SiblingSucceeds, Advance, Scribbles, setup, PageInv, PageTypes
<1>2. own \in Keys
  BY <1>1 DEF PageInv, PageTypes, SiblingKinds
<1>3. new \in Observations /\ new.sibling = next
  BY <1>1 DEF Observations
<1>4. own = siblings[next].key
  OBVIOUS
<1> HIDE DEF own, new
<1>5. related' \in [Keys -> Seq(Observations)]
  BY <1>1, <1>2, <1>3 DEF RelatedInv
<1>6. \A i \in collected' : i \in Nat /\ i < next'
  BY <1>1 DEF RelatedInv
<1>7. ASSUME NEW k \in Keys PROVE Complete(k)'
  <2>1. Complete(k) /\ related[k] \in Seq(Observations)
    BY DEF RelatedInv
  <2>2. CASE k # own
    <3>1. related'[k] = related[k]
      BY <1>1, <2>2 DEF RelatedInv
    <3>2. Observed(k)' = Observed(k)
      BY <1>1, <1>4, <2>2 DEF Observed
    <3> QED
      BY <2>1, <3>1, <3>2 DEF Complete
  <2>3. CASE k = own
    <3> DEFINE old == related[k]
               now == related'[k]
               last == Len(old) + 1
    <3>1. now = Append(old, new) /\ old \in Seq(Observations)
      BY <1>1, <1>2, <2>1, <2>3 DEF RelatedInv
    <3>2. /\ Len(old) \in Nat /\ DOMAIN old = 1..Len(old)
          /\ DOMAIN now = 1..last /\ last \in DOMAIN now
          /\ now[last] = new
          /\ \A n \in DOMAIN old : now[n] = old[n] /\ n \in DOMAIN now
      BY <1>3, <3>1
    <3>3. \A n \in DOMAIN old : old[n].sibling \in Observed(k)
      BY <2>1 DEF Complete
    <3>4. \A n \in DOMAIN old : old[n].sibling \in Nat /\ old[n].sibling < next
      BY <3>3 DEF Observed, RelatedInv
    <3>5. Observed(k)' = Observed(k) \cup {next}
      BY <1>1, <1>4, <2>3 DEF Observed
    <3>6. {now[n].sibling : n \in DOMAIN now} = Observed(k)'
      <4>1. \A n \in DOMAIN now : n \in DOMAIN old \/ n = last
        BY <3>2
      <4>2. {now[n].sibling : n \in DOMAIN now} = {old[n].sibling : n \in DOMAIN old} \cup {next}
        BY ONLY <1>3, <3>2, <4>1
      <4> QED
        BY <2>1, <3>5, <4>2 DEF Complete
    <3>7. ASSUME NEW m \in DOMAIN now, NEW n \in DOMAIN now, m < n
          PROVE  now[m].sibling < now[n].sibling
      <4>1. m \in DOMAIN old
        BY <3>2, <3>7
      <4>2. CASE n \in DOMAIN old
        BY <2>1, <3>2, <3>7, <4>1, <4>2 DEF Complete
      <4>3. CASE n = last
        BY <1>3, <3>2, <3>4, <4>1, <4>3
      <4> QED
        BY <3>2, <4>2, <4>3
    <3> QED
      BY <3>6, <3>7 DEF Complete
  <2> QED
    BY <2>2, <2>3
<1> QED
  BY <1>5, <1>6, <1>7 DEF RelatedInv

LEMMA RelatedStep == PageInv /\ RelatedInv /\ [Next]_vars => RelatedInv'
<1> SUFFICES ASSUME PageInv, RelatedInv, [Next]_vars PROVE RelatedInv'
  OBVIOUS
<1>1. ASSUME UNCHANGED <<siblings, related, collected>>, next' = next \/ next' = next + 1
      PROVE  RelatedInv'
  <2>1. \A i \in collected : i \in Nat /\ i < next'
    BY <1>1 DEF RelatedInv, PageInv, PageTypes
  <2> QED
    BY <1>1, <2>1 DEF RelatedInv, Complete, Observed
<1>2. CASE Submit
  BY <1>1, <1>2 DEF Submit, setup, sibVars
<1>3. CASE Collect \/ Discover \/ Clone
  BY <1>1, <1>3 DEF Collect, Discover, Clone, setup, sibVars
<1>4. CASE SiblingSucceeds
  BY <1>4, RelatedGrows
<1>5. CASE SiblingFails
  BY <1>1, <1>5 DEF SiblingFails, Advance, Scribbles, setup
<1>6. CASE Evaluate \/ HTMLReport \/ Metrics \/ RenderResult
  BY <1>1, <1>6 DEF Evaluate, HTMLReport, Metrics, RenderResult, setup, sibVars
<1>7. CASE UNCHANGED vars
  BY <1>1, <1>7 DEF vars, setup, sibVars
<1> QED
  BY <1>2, <1>3, <1>4, <1>5, <1>6, <1>7 DEF Next

\* The rules and the reporters see the observation of every sibling that
\* succeeded, once and in the order of the declaration, for any number of
\* siblings and any sharing of keys.
THEOREM RelatedStaysComplete == Spec => []RelatedIsComplete
<1>1. RelatedInv => RelatedIsComplete
  <2> SUFFICES ASSUME RelatedInv, NEW k \in Keys
               PROVE  LET seen == [n \in DOMAIN GetRelated(k) |-> GetRelated(k)[n].sibling] IN
                      /\ ToSet(seen) = {i \in collected : siblings[i].key = k}
                      /\ \A m, n \in DOMAIN seen : m < n => seen[m] < seen[n]
    BY DEF RelatedIsComplete
  <2>1. Complete(k)
    BY DEF RelatedInv
  <2> QED
    BY <2>1 DEF Complete, Observed, GetRelated, ToSet
<1> QED
  BY <1>1, PageStart, PageStep, RelatedStart, RelatedStep, PTL DEF Spec

-----------------------------------------------------------------------------
(* The result page.                                                         *)

AllStates == [rule : Names, from : Nat, kind : {"no state", "produced"}]

\* The rules the states are of.
From(states) == {states[n].from : n \in DOMAIN states}

\* Without an enable map every rule has a state, whether it returned any or not.
LEMMA EveryRuleHasAState ==
  ASSUME NEW names \in Seq(Names), NEW produced \in [DOMAIN names -> 0..1]
  PROVE  LET s == EvaluateRules(names, NoMap, produced) IN
         s \in Seq(AllStates) /\ From(s) = DOMAIN names
<1> DEFINE Part(i) == IF Skipped(NoMap, names[i]) THEN <<>>
                      ELSE Contribution(names[i], i, produced[i])
           parts == [i \in DOMAIN names |-> Part(i)]
           tag == [s \in AllStates |-> s.from]
           s == EvaluateRules(names, NoMap, produced)
<1>1. DOMAIN names = 1..Len(names) /\ Len(names) \in Nat
  OBVIOUS
<1>2. ASSUME NEW i \in 1..Len(names)
      PROVE  \E st \in AllStates : st.from = i /\ Part(i) = <<st>>
  <2>1. Part(i) = Contribution(names[i], i, produced[i])
    BY DEF Skipped
  <2>2. produced[i] \in 0..1
    BY <1>1
  <2>3. CASE produced[i] = 0
    <3> DEFINE st == State(names[i], i, "no state")
    <3>1. Part(i) = <<st>>
      BY <2>1, <2>3 DEF Contribution
    <3>2. st \in AllStates /\ st.from = i
      BY DEF State, AllStates
    <3> HIDE DEF st, Part
    <3> QED
      BY <3>1, <3>2
  <2>4. CASE produced[i] = 1
    <3> DEFINE st == State(names[i], i, "produced")
    <3>1. Part(i) = [k \in 1..1 |-> st]
      BY <2>1, <2>4 DEF Contribution
    <3>2. st \in AllStates /\ st.from = i
      BY DEF State, AllStates
    <3> HIDE DEF st, Part
    <3>3. [k \in 1..1 |-> st] = <<st>>
      OBVIOUS
    <3> QED
      BY <3>1, <3>2, <3>3
  <2> QED
    BY <2>2, <2>3, <2>4
<1>3. s = FlattenSeq(parts)
  BY DEF EvaluateRules
<1>4. \A i \in 1..Len(names) : parts[i] = Part(i)
  BY <1>1
<1> HIDE DEF Part
<1>5. parts \in Seq(Seq(AllStates)) /\ Len(parts) = Len(names)
  <2>1. ASSUME NEW i \in 1..Len(names) PROVE Part(i) \in Seq(AllStates)
    <3>1. PICK st \in AllStates : Part(i) = <<st>>
      BY <1>2
    <3>2. <<st>> \in Seq(AllStates)
      OBVIOUS
    <3> QED
      BY <3>1, <3>2, Zenon
  <2> QED
    BY <1>1, <2>1
<1>6. \A st \in AllStates : tag[st] = st.from
  OBVIOUS
<1> HIDE DEF parts, s, tag
<1>7. ASSUME NEW i \in 1..Len(parts)
      PROVE  Len(parts[i]) > 0 /\ \A n \in 1..Len(parts[i]) : tag[parts[i][n]] = i
  <2>1. PICK st \in AllStates : st.from = i /\ Part(i) = <<st>>
    BY <1>2, <1>5
  <2>2. parts[i] = <<st>>
    BY <1>4, <1>5, <2>1
  <2> QED
    BY <1>6, <2>1, <2>2
<1>8. s \in Seq(AllStates) /\ Gathers(s, parts, tag)
  <2>1. TaggedBy(tag, parts)
    BY <1>7 DEF TaggedBy
  <2> QED
    BY <1>3, <1>5, <2>1, TaggedFlatten
<1>9. From(s) = {tag[s[k]] : k \in 1..Len(s)}
  <2>1. DOMAIN s = 1..Len(s) /\ \A k \in 1..Len(s) : tag[s[k]] = s[k].from
    BY <1>6, <1>8
  <2> QED
    BY <2>1 DEF From
<1>10. {i \in 1..Len(parts) : Len(parts[i]) > 0} = DOMAIN names
  BY <1>1, <1>5, <1>7
<1> QED
  BY <1>8, <1>9, <1>10 DEF s, Gathers

Results ==
  [collectErr : Messages, states : Seq(AllStates), reportHTML : {"", "html"},
   reportErr : Messages, metrics : {"", "values"}, metricsErr : Messages]

\* What is in the result once the rules, the report and the metrics are done:
\* what each of them came to, and nothing else.
StatesAreIn == From(result.states) = DOMAIN rules

NoReportYet == outcome.report = "none" /\ result.reportHTML = "" /\ result.reportErr = ""

NoMetricsYet == outcome.metrics = "none" /\ result.metrics = "" /\ result.metricsErr = ""

ReportIsIn ==
  /\ "html" \in provides <=> outcome.report # "none"
  /\ result.reportHTML # "" <=> outcome.report = "value"
  /\ result.reportErr # "" <=> outcome.report = "error"

MetricsAreIn ==
  /\ "metrics" \in provides <=> outcome.metrics # "none"
  /\ result.metrics # "" <=> outcome.metrics = "value"
  /\ result.metricsErr # "" <=> outcome.metrics = "error"

\* A check whose data is not there has only the error to show, if it says any.
NothingIsIn ==
  /\ result.states = <<>> /\ NoReportYet /\ NoMetricsYet
  /\ result.collectErr # "" <=> outcome.collect = "error"

Gathered == outcome.collect = "value"

Outcomes == {"none", "value", "empty", "error", "mute"}

\* How far the result is at each step.
ResultInv ==
  /\ rules \in Seq(Names)
  /\ result \in Results
  /\ outcome \in [collect : Outcomes, report : Outcomes, metrics : Outcomes]
  /\ step \in {"submit", "collect"} => outcome.collect = "none" /\ result.collectErr = ""
  /\ step \in {"discover", "clone", "sibling", "evaluate", "html", "metrics"} => Gathered
  /\ Gathered => result.collectErr = ""
  /\ step \in {"submit", "collect"} => result.states = <<>>
  /\ step \in {"submit", "collect", "discover", "clone", "sibling", "evaluate", "html"} =>
       NoReportYet
  /\ step \in {"submit", "collect", "discover", "clone", "sibling", "evaluate", "html", "metrics"} =>
       NoMetricsYet
  /\ Gathered /\ step \in {"html", "metrics", "render"} => StatesAreIn
  /\ Gathered /\ step \in {"metrics", "render"} => ReportIsIn
  /\ Gathered /\ step = "render" => MetricsAreIn
  /\ ~Gathered /\ step = "render" => NothingIsIn
  /\ step # "done" => page.shows # "result"
  /\ page.shows = "result" =>
       /\ page.sections = Sections(result)
       /\ Gathered => StatesAreIn /\ ReportIsIn /\ MetricsAreIn
       /\ ~Gathered => NothingIsIn

LEMMA ResultStart == Init => ResultInv
<1> SUFFICES ASSUME Init PROVE ResultInv
  OBVIOUS
<1>1. PICK n \in 0..MaxRules : rules \in [1..n -> Names]
  BY DEF Init
<1>2. rules \in Seq(Names)
  BY <1>1, BoundsAreNat
<1>3. /\ result \in Results /\ NoReportYet /\ NoMetricsYet /\ result.states = <<>>
      /\ result.collectErr = ""
  <2>1. result = NoResult /\ outcome.report = "none" /\ outcome.metrics = "none"
    BY DEF Init
  <2>2. <<>> \in Seq(AllStates)
    OBVIOUS
  <2>3. NoResult \in Results
    BY <2>2 DEF NoResult, Results, Messages
  <2> QED
    BY <2>1, <2>3 DEF NoResult, NoReportYet, NoMetricsYet
<1>4. /\ outcome \in [collect : Outcomes, report : Outcomes, metrics : Outcomes]
      /\ outcome.collect = "none"
  BY DEF Init, Outcomes
<1> QED
  BY <1>2, <1>3, <1>4 DEF Init, ResultInv, Gathered

LEMMA ResultStep == ResultInv /\ [Next]_vars => ResultInv'
<1> SUFFICES ASSUME ResultInv, [Next]_vars PROVE ResultInv'
  OBVIOUS
<1> USE DEF ResultInv, Gathered
<1>1. CASE Submit
  <2>1. /\ step = "submit" /\ step' \in {"done", "collect"}
        /\ UNCHANGED <<rules, provides, outcome, result>>
        /\ page' = page \/ page'.shows \in {"form", "failure"}
    <3> HIDE DEF ResultInv
    <3> QED
      BY <1>1 DEF Submit, Render, setup
  <2>2. step' # "done" => page'.shows # "result"
    BY <2>1
  <2> QED
    BY <2>1, <2>2 DEF NoReportYet, NoMetricsYet
<1>2. CASE Collect
  <2>1. step = "collect" /\ UNCHANGED <<rules, provides, page>>
    BY <1>2 DEF Collect, setup
  <2>2. ASSUME NEW message \in Messages, step' = "render",
               result' = [result EXCEPT !.collectErr = message],
               outcome' = [outcome EXCEPT !.collect = Failed(message)]
        PROVE  ResultInv'
    <3>1. /\ result' \in Results /\ result'.collectErr = message
          /\ result'.states = result.states
          /\ result'.reportHTML = result.reportHTML /\ result'.reportErr = result.reportErr
          /\ result'.metrics = result.metrics /\ result'.metricsErr = result.metricsErr
      BY <2>2 DEF Results
    <3>2. /\ outcome' \in [collect : Outcomes, report : Outcomes, metrics : Outcomes]
          /\ outcome'.collect = Failed(message)
          /\ outcome'.report = outcome.report /\ outcome'.metrics = outcome.metrics
      BY <2>2 DEF Outcomes, Failed
    <3>3. Failed(message) # "value" /\ (message # "" <=> Failed(message) = "error")
      BY DEF Failed
    <3>4. NothingIsIn'
      BY <2>1, <3>1, <3>2, <3>3 DEF NothingIsIn, NoReportYet, NoMetricsYet
    <3> QED
      BY <2>1, <2>2, <3>1, <3>2, <3>3, <3>4
  <2>3. CASE step' = "discover" /\ outcome' = [outcome EXCEPT !.collect = "value"] /\ UNCHANGED result
    <3>1. /\ outcome' \in [collect : Outcomes, report : Outcomes, metrics : Outcomes]
          /\ outcome'.collect = "value"
          /\ outcome'.report = outcome.report /\ outcome'.metrics = outcome.metrics
      BY <2>3 DEF Outcomes
    <3> QED
      BY <2>1, <2>3, <3>1 DEF NoReportYet, NoMetricsYet
  <2> QED
    BY <1>2, <2>2, <2>3 DEF Collect
<1>3. CASE Discover \/ Clone \/ SiblingSucceeds \/ SiblingFails
  BY <1>3 DEF Discover, Clone, SiblingSucceeds, SiblingFails, Advance, Scribbles, setup,
              NoReportYet, NoMetricsYet
<1>4. CASE Evaluate
  <2>1. PICK produced \in [DOMAIN rules -> 0..1] :
          result' = [result EXCEPT !.states = EvaluateRules(rules, NoMap, produced)]
    BY <1>4 DEF Evaluate
  <2> DEFINE s == EvaluateRules(rules, NoMap, produced)
  <2>2. s \in Seq(AllStates) /\ From(s) = DOMAIN rules
    BY EveryRuleHasAState
  <2>3. result' = [result EXCEPT !.states = s]
    BY <2>1
  <2> HIDE DEF s
  <2>4. /\ result' \in Results /\ result'.states = s /\ result'.collectErr = result.collectErr
        /\ result'.reportHTML = result.reportHTML /\ result'.reportErr = result.reportErr
        /\ result'.metrics = result.metrics /\ result'.metricsErr = result.metricsErr
    BY <2>2, <2>3 DEF Results
  <2>5. step = "evaluate" /\ step' = "html" /\ UNCHANGED <<rules, provides, page, outcome>>
    BY <1>4 DEF Evaluate, setup, sibVars
  <2>6. StatesAreIn'
    BY <2>2, <2>4, <2>5 DEF StatesAreIn
  <2> QED
    BY <2>4, <2>5, <2>6 DEF NoReportYet, NoMetricsYet
<1>5. CASE HTMLReport
  <2>1. step = "html" /\ step' = "metrics" /\ UNCHANGED <<rules, provides, page>>
    BY <1>5 DEF HTMLReport, setup
  <2>2. CASE "html" \notin provides /\ UNCHANGED <<result, outcome>>
    BY <2>1, <2>2 DEF StatesAreIn, ReportIsIn, NoReportYet, NoMetricsYet
  <2>3. ASSUME "html" \in provides, NEW html \in {"", "html"},
               result' = [result EXCEPT !.reportHTML = html],
               outcome' = [outcome EXCEPT !.report = Returned(html)]
        PROVE  ResultInv'
    <3>1. /\ result' \in Results /\ result'.reportHTML = html
          /\ result'.collectErr = result.collectErr /\ result'.states = result.states
          /\ result'.reportErr = result.reportErr
          /\ result'.metrics = result.metrics /\ result'.metricsErr = result.metricsErr
      BY <2>3 DEF Results
    <3>2. /\ outcome' \in [collect : Outcomes, report : Outcomes, metrics : Outcomes]
          /\ outcome'.report = Returned(html)
          /\ outcome'.collect = outcome.collect /\ outcome'.metrics = outcome.metrics
      BY <2>3 DEF Outcomes, Returned
    <3>3. ReportIsIn'
      BY <2>1, <2>3, <3>1, <3>2 DEF ReportIsIn, NoReportYet, Returned
    <3> QED
      BY <2>1, <3>1, <3>2, <3>3 DEF StatesAreIn, NoMetricsYet
  <2>4. ASSUME "html" \in provides, NEW message \in Messages,
               result' = [result EXCEPT !.reportErr = message],
               outcome' = [outcome EXCEPT !.report = Failed(message)]
        PROVE  ResultInv'
    <3>1. /\ result' \in Results /\ result'.reportErr = message
          /\ result'.collectErr = result.collectErr /\ result'.states = result.states
          /\ result'.reportHTML = result.reportHTML
          /\ result'.metrics = result.metrics /\ result'.metricsErr = result.metricsErr
      BY <2>4 DEF Results
    <3>2. /\ outcome' \in [collect : Outcomes, report : Outcomes, metrics : Outcomes]
          /\ outcome'.report = Failed(message)
          /\ outcome'.collect = outcome.collect /\ outcome'.metrics = outcome.metrics
      BY <2>4 DEF Outcomes, Failed
    <3>3. ReportIsIn'
      BY <2>1, <2>4, <3>1, <3>2 DEF ReportIsIn, NoReportYet, Failed
    <3> QED
      BY <2>1, <3>1, <3>2, <3>3 DEF StatesAreIn, NoMetricsYet
  <2> QED
    BY <1>5, <2>2, <2>3, <2>4 DEF HTMLReport
<1>6. CASE Metrics
  <2>1. step = "metrics" /\ step' = "render" /\ UNCHANGED <<rules, provides, page>>
    BY <1>6 DEF Metrics, setup
  <2>2. CASE "metrics" \notin provides /\ UNCHANGED <<result, outcome>>
    BY <2>1, <2>2 DEF StatesAreIn, ReportIsIn, MetricsAreIn, NoMetricsYet
  <2>3. ASSUME "metrics" \in provides, NEW values \in {"", "values"},
               result' = [result EXCEPT !.metrics = values],
               outcome' = [outcome EXCEPT !.metrics = Returned(values)]
        PROVE  ResultInv'
    <3>1. /\ result' \in Results /\ result'.metrics = values
          /\ result'.collectErr = result.collectErr /\ result'.states = result.states
          /\ result'.reportHTML = result.reportHTML /\ result'.reportErr = result.reportErr
          /\ result'.metricsErr = result.metricsErr
      BY <2>3 DEF Results
    <3>2. /\ outcome' \in [collect : Outcomes, report : Outcomes, metrics : Outcomes]
          /\ outcome'.metrics = Returned(values)
          /\ outcome'.collect = outcome.collect /\ outcome'.report = outcome.report
      BY <2>3 DEF Outcomes, Returned
    <3>3. MetricsAreIn'
      BY <2>1, <2>3, <3>1, <3>2 DEF MetricsAreIn, NoMetricsYet, Returned
    <3> QED
      BY <2>1, <3>1, <3>2, <3>3 DEF StatesAreIn, ReportIsIn
  <2>4. ASSUME "metrics" \in provides, NEW message \in Messages,
               result' = [result EXCEPT !.metricsErr = message],
               outcome' = [outcome EXCEPT !.metrics = Failed(message)]
        PROVE  ResultInv'
    <3>1. /\ result' \in Results /\ result'.metricsErr = message
          /\ result'.collectErr = result.collectErr /\ result'.states = result.states
          /\ result'.reportHTML = result.reportHTML /\ result'.reportErr = result.reportErr
          /\ result'.metrics = result.metrics
      BY <2>4 DEF Results
    <3>2. /\ outcome' \in [collect : Outcomes, report : Outcomes, metrics : Outcomes]
          /\ outcome'.metrics = Failed(message)
          /\ outcome'.collect = outcome.collect /\ outcome'.report = outcome.report
      BY <2>4 DEF Outcomes, Failed
    <3>3. MetricsAreIn'
      BY <2>1, <2>4, <3>1, <3>2 DEF MetricsAreIn, NoMetricsYet, Failed
    <3> QED
      BY <2>1, <3>1, <3>2, <3>3 DEF StatesAreIn, ReportIsIn
  <2> QED
    BY <1>6, <2>2, <2>3, <2>4 DEF Metrics
<1>7. CASE RenderResult
  <2>1. /\ step = "render" /\ step' = "done"
        /\ UNCHANGED <<rules, provides, outcome, result>>
        /\ page'.shows = "result" => page'.sections = Sections(result)
    <3> HIDE DEF ResultInv
    <3> QED
      BY <1>7 DEF RenderResult, Render, setup
  <2>2. /\ Gathered => (StatesAreIn /\ ReportIsIn /\ MetricsAreIn)'
        /\ ~Gathered => NothingIsIn'
    BY <2>1 DEF StatesAreIn, ReportIsIn, MetricsAreIn, NothingIsIn, NoReportYet, NoMetricsYet
  <2>3. Sections(result)' = Sections(result)
    BY <2>1 DEF Sections
  <2> QED
    BY <2>1, <2>2, <2>3
<1>8. CASE UNCHANGED vars
  BY <1>8 DEF vars, setup, sibVars, StatesAreIn, ReportIsIn, MetricsAreIn, NothingIsIn,
              NoReportYet, NoMetricsYet, Sections
<1> QED
  BY <1>1, <1>2, <1>3, <1>4, <1>5, <1>6, <1>7, <1>8 DEF Next

\* Once the primary's data is there, the page shows a state for every rule and
\* what the report and the metrics each came to, whatever failed on the way, and
\* otherwise the error alone: for any number of siblings and rules.
THEOREM PageStaysComplete == Spec => []PageIsComplete
<1>1. ResultInv => PageIsComplete
  <2> SUFFICES ASSUME ResultInv, page.shows = "result" PROVE PageIsComplete
    BY DEF PageIsComplete
  <2>1. /\ page.sections = Sections(result)
        /\ result.states \in Seq(AllStates) /\ rules \in Seq(Names)
    BY DEF ResultInv, Results
  <2>2. /\ "collect error" \in page.sections <=> result.collectErr # ""
        /\ "states" \in page.sections <=> result.states # <<>>
        /\ "report" \in page.sections <=> result.reportHTML # ""
        /\ "report error" \in page.sections <=> result.reportErr # ""
        /\ "metrics" \in page.sections <=> result.metrics # ""
        /\ "metrics error" \in page.sections <=> result.metricsErr # ""
    BY <2>1 DEF Sections
  <2>3. CASE Gathered
    <3>1. StatesAreIn /\ ReportIsIn /\ MetricsAreIn /\ result.collectErr = ""
      BY <2>3 DEF ResultInv
    <3>2. result.states # <<>> <=> rules # <<>>
      <4> DEFINE s == result.states
      <4>1. s \in Seq(AllStates) /\ From(s) = DOMAIN rules
        BY <2>1, <3>1 DEF StatesAreIn
      <4> HIDE DEF s
      <4>2. s = <<>> <=> DOMAIN s = {}
        BY <4>1
      <4>3. rules = <<>> <=> DOMAIN rules = {}
        BY <2>1
      <4>4. s = <<>> <=> rules = <<>>
        BY <4>1, <4>2, <4>3 DEF From
      <4> QED
        BY <4>4 DEF s
    <3> QED
      BY <2>2, <2>3, <3>1, <3>2
         DEF PageIsComplete, Gathered, StatesAreIn, ReportIsIn, MetricsAreIn, From
  <2>4. CASE ~Gathered
    <3>1. NothingIsIn
      BY <2>4 DEF ResultInv
    <3>2. page.sections = IF outcome.collect = "error" THEN {"collect error"} ELSE {}
      BY <2>1, <3>1 DEF Sections, NothingIsIn, NoReportYet, NoMetricsYet
    <3> QED
      BY <2>4, <3>2 DEF PageIsComplete, Gathered
  <2> QED
    BY <2>3, <2>4
<1> QED
  BY <1>1, ResultStart, ResultStep, PTL DEF Spec
=============================================================================
