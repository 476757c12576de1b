----------------------------- MODULE CheckPage ------------------------------
(***************************************************************************)
(* POST /check (checker/server/interactive.go): a human submits a form and *)
(* one handler runs the whole pipeline, the sibling providers' collections *)
(* included, and renders one page.  Option maps are references: the        *)
(* primary, a sibling or a rule may write into the map it is handed.  The  *)
(* evaluation of the rules is that of RuleEvaluation, without an enable    *)
(* map.                                                                    *)
(***************************************************************************)
EXTENDS Integers, RuleEvaluation

CONSTANTS
  Keys,         \* observation keys of siblings
  MaxSiblings,  \* bound: siblings the provider declares
  MaxRules      \* bound: rules in the definition

ASSUME BoundsAreNat == MaxSiblings \in Nat /\ MaxRules \in Nat

VARIABLES
  provides,     \* the optional interfaces the provider implements
  rules,        \* the names of the definition's rules, in order
  siblings,     \* what RelatedProviders returns
  step,         \* where the handler is
  maps,         \* the option maps, by reference
  next,         \* the sibling whose turn it is
  handed,       \* the reference the sibling at work was handed
  entries,      \* the Refs of the primary's discovery entries
  related,      \* RelatedObservations by key
  collected,    \* history: siblings that returned data that marshals
  left,         \* history: the options as the primary's Collect left them
  outcome,      \* history: how Collect, the report and the metrics came out
  result,       \* checkResult, what the result page is made of
  page          \* the response: its status code, which page, and its sections

setup == <<provides, rules, siblings>>
sibVars == <<next, handed, entries, related, collected>>
vars == <<setup, step, maps, sibVars, left, outcome, result, page>>

Interfaces == {"definition", "html", "metrics", "publisher"}

\* A sibling: its key, whether it has a definition, and whether that
\* definition has an option to fill with discovery entries.
SiblingKinds == {s \in [key : Keys, describes : BOOLEAN, autofills : BOOLEAN] :
                   s.autofills => s.describes}

\* The options a check turns on: one the form sets, one filled with entries.
Options == {"input", "entries"}
Parsed == [o \in Options |-> IF o = "input" THEN "parsed" ELSE "absent"]
Scribbled(who) == [o \in Options |-> who]

Primary == 0                  \* the reference of the primary's options

EntryRefs == {"entry"}
NoRef == ""

\* What err.Error() returns; it may be the empty string.
Messages == {"", "message"}

\* How a callback came out: with a value, possibly an empty one, or with an
\* error, possibly a mute one; "none" if it was not called.
Returned(value) == IF value = "" THEN "empty" ELSE "value"
Failed(message) == IF message = "" THEN "mute" ELSE "error"

NoResult == [collectErr |-> "", states |-> <<>>, reportHTML |-> "", reportErr |-> "",
             metrics |-> "", metricsErr |-> ""]

Init ==
  /\ provides \in SUBSET Interfaces
  /\ rules \in UNION {[1..n -> Names] : n \in 0..MaxRules}
  /\ "definition" \notin provides => rules = <<>>
  /\ siblings \in UNION {[1..n -> SiblingKinds] : n \in 0..MaxSiblings}
  /\ step = "submit"
  /\ maps = [i \in 0..MaxSiblings |-> Parsed]
  /\ next = 1
  /\ handed = Primary
  /\ entries = {}
  /\ related = [k \in Keys |-> <<>>]
  /\ collected = {}
  /\ left = Parsed
  /\ outcome = [collect |-> "none", report |-> "none", metrics |-> "none"]
  /\ result = NoResult
  /\ page = [code |-> 0, shows |-> "nothing", sections |-> {}]

-----------------------------------------------------------------------------
\* renderHTML buffers the page, so a template that fails yields a clean 500.
Render(code, shows, sections) ==
  /\ \/ page' = [code |-> code, shows |-> shows, sections |-> sections]
     \/ page' = [code |-> 500, shows |-> "failure", sections |-> {}]
  /\ step' = "done"

\* The form is parsed; an error, from net/http or from the provider, brings the
\* form back, with 400 unless its message is empty.
Submit ==
  /\ step = "submit"
  /\ \/ Render(400, "form", {"error"})
     \/ Render(200, "form", {})
     \/ step' = "collect" /\ UNCHANGED page
  /\ UNCHANGED <<setup, maps, sibVars, left, outcome, result>>

\* The primary's Collect, which may write into the options, and the marshalling
\* of its data: either may fail.
Collect ==
  /\ step = "collect"
  /\ left' \in {Parsed, Scribbled("primary")}
  /\ maps' = [maps EXCEPT ![Primary] = left']
  /\ \/ \E message \in Messages :
          /\ step' = "render"
          /\ result' = [result EXCEPT !.collectErr = message]
          /\ outcome' = [outcome EXCEPT !.collect = Failed(message)]
     \/ /\ step' = "discover"
        /\ outcome' = [outcome EXCEPT !.collect = "value"]
        /\ UNCHANGED result
  /\ UNCHANGED <<setup, sibVars, page>>

\* The entries to share with the siblings; a failure leaves none.
Discover ==
  /\ step = "discover"
  /\ IF siblings = <<>> THEN step' = "evaluate" /\ UNCHANGED entries
     ELSE /\ step' = "clone"
          /\ IF "publisher" \in provides THEN entries' \in {{}, EntryRefs}
                                         ELSE UNCHANGED entries
  /\ UNCHANGED <<setup, maps, next, handed, related, collected, left, outcome, result, page>>

-----------------------------------------------------------------------------
(* collectRelatedObservations: one turn per sibling.                        *)

\* fillDiscoveryEntryOption, when there are entries and a definition.
Filled(opts, s) ==
  IF s.autofills /\ entries # {} THEN [opts EXCEPT !["entries"] = "entries"] ELSE opts

\* Mutant: the sibling is handed the primary's own map.
CloneAlias ==
  /\ step = "clone"
  /\ handed' = Primary
  /\ maps' = [maps EXCEPT ![Primary] = Filled(maps[Primary], siblings[next])]
  /\ step' = "sibling"
  /\ UNCHANGED <<setup, next, entries, related, collected, left, outcome, result, page>>

\* cloneOptions: a new map with the primary's options.
Clone ==
  /\ step = "clone"
  /\ handed' = next
  /\ maps' = [maps EXCEPT ![next] = Filled(maps[Primary], siblings[next])]
  /\ step' = "sibling"
  /\ UNCHANGED <<setup, next, entries, related, collected, left, outcome, result, page>>

\* On to the next sibling, or to the rules.
Advance ==
  /\ next' = next + 1
  /\ step' = IF next = Len(siblings) THEN "evaluate" ELSE "clone"

\* The sibling's Collect may write into the map it was handed.
Scribbles ==
  /\ \/ UNCHANGED maps
     \/ maps' = [maps EXCEPT ![handed] = Scribbled("sibling")]
  /\ UNCHANGED <<setup, handed, entries, left, outcome, result, page>>

\* Mutant: the observation replaces that of an earlier sibling of the same key.
SiblingReplaces ==
  /\ step = "sibling"
  /\ LET k == siblings[next].key
     IN related' = [related EXCEPT ![k] = <<[sibling |-> next, ref |-> NoRef]>>]
  /\ collected' = collected \cup {next}
  /\ Advance
  /\ Scribbles

\* Its data is appended under its key; Ref is left empty.
SiblingSucceeds ==
  /\ step = "sibling"
  /\ LET k == siblings[next].key
     IN related' = [related EXCEPT ![k] = Append(@, [sibling |-> next, ref |-> NoRef])]
  /\ collected' = collected \cup {next}
  /\ Advance
  /\ Scribbles

\* Mutant: a failing sibling ends the check.
SiblingFailureFatal ==
  /\ step = "sibling"
  /\ step' = "render"
  /\ result' = [result EXCEPT !.collectErr = "message"]
  /\ UNCHANGED <<setup, maps, sibVars, left, outcome, page>>

\* A sibling that fails, or whose data does not marshal, is passed over.
SiblingFails ==
  /\ step = "sibling"
  /\ Advance
  /\ Scribbles
  /\ UNCHANGED <<related, collected>>

-----------------------------------------------------------------------------
\* What rules and reporters get of the siblings, from their ObservationGetter
\* and their ReportContext.
GetRelated(key) == related[key]

\* The rules, if there is a definition: none is switched off.  A rule may write
\* into the options it is handed.
Evaluate ==
  /\ step = "evaluate"
  /\ step' = "html"
  /\ \E produced \in [DOMAIN rules -> 0..1] :
       result' = [result EXCEPT !.states = EvaluateRules(rules, NoMap, produced)]
  /\ \/ UNCHANGED maps
     \/ rules # <<>> /\ maps' = [maps EXCEPT ![Primary] = Scribbled("rule")]
  /\ UNCHANGED <<setup, sibVars, left, outcome, page>>

\* A report and metrics may come out empty, or fail, with or without a message.
HTMLReport ==
  /\ step = "html"
  /\ step' = "metrics"
  /\ \/ "html" \notin provides /\ UNCHANGED <<result, outcome>>
     \/ /\ "html" \in provides
        /\ \/ \E html \in {"", "html"} :
                /\ result' = [result EXCEPT !.reportHTML = html]
                /\ outcome' = [outcome EXCEPT !.report = Returned(html)]
           \/ \E message \in Messages :
                /\ result' = [result EXCEPT !.reportErr = message]
                /\ outcome' = [outcome EXCEPT !.report = Failed(message)]
  /\ UNCHANGED <<setup, maps, sibVars, left, page>>

Metrics ==
  /\ step = "metrics"
  /\ step' = "render"
  /\ \/ "metrics" \notin provides /\ UNCHANGED <<result, outcome>>
     \/ /\ "metrics" \in provides
        /\ \/ \E values \in {"", "values"} :
                /\ result' = [result EXCEPT !.metrics = values]
                /\ outcome' = [outcome EXCEPT !.metrics = Returned(values)]
           \/ \E message \in Messages :
                /\ result' = [result EXCEPT !.metricsErr = message]
                /\ outcome' = [outcome EXCEPT !.metrics = Failed(message)]
  /\ UNCHANGED <<setup, maps, sibVars, left, page>>

\* The sections of the result page: the template has one for each field of the
\* result that is not empty.
Sections(r) ==
  (IF r.collectErr # "" THEN {"collect error"} ELSE {})
    \cup (IF r.states # <<>> THEN {"states"} ELSE {})
    \cup (IF r.metrics # "" THEN {"metrics"} ELSE {})
    \cup (IF r.metricsErr # "" THEN {"metrics error"} ELSE {})
    \cup (IF r.reportHTML # "" THEN {"report"} ELSE {})
    \cup (IF r.reportErr # "" THEN {"report error"} ELSE {})

RenderResult ==
  /\ step = "render"
  /\ Render(200, "result", Sections(result))
  /\ UNCHANGED <<setup, maps, sibVars, left, outcome, result>>

Next ==
  \/ Submit \/ Collect \/ Discover
  \/ Clone \/ SiblingSucceeds \/ SiblingFails
  \/ Evaluate \/ HTMLReport \/ Metrics \/ RenderResult

Spec == Init /\ [][Next]_vars

-----------------------------------------------------------------------------
(* Properties.                                                              *)

\* Whatever the siblings do to the options they are handed, each is handed the
\* options as the primary left them with nothing but its own entries on top, and
\* the rules those options and nothing on top.
OptionsAreIsolated ==
  /\ step = "sibling" => maps[handed] = Filled(left, siblings[next])
  /\ step = "evaluate" => maps[Primary] = left

\* The rules and the reporters see the observation of every sibling that
\* succeeded, once, in the order of the declaration, even when two siblings
\* share a key and others fail in between.
RelatedIsComplete ==
  step \in {"evaluate", "html", "metrics"} =>
    \A k \in Keys :
      LET seen == [n \in DOMAIN GetRelated(k) |-> GetRelated(k)[n].sibling] IN
      /\ ToSet(seen) = {i \in collected : siblings[i].key = k}
      /\ \A m, n \in DOMAIN seen : m < n => seen[m] < seen[n]

\* Once the primary's data is there, the page is that of a check that worked: it
\* has no collection error, a state for every rule, and shows what the report and
\* the metrics came to, each for itself, if the provider makes any, whichever of
\* the siblings, the report and the metrics fail.  Otherwise it shows the error
\* and nothing else.  What a page does not show is an error with no message: the
\* template cannot tell it from none.
PageIsComplete ==
  page.shows = "result" =>
    IF outcome.collect = "value"
      THEN /\ "collect error" \notin page.sections
           /\ "states" \in page.sections <=> rules # <<>>
           /\ {result.states[n].from : n \in DOMAIN result.states} = DOMAIN rules
           /\ "html" \in provides <=> outcome.report # "none"
           /\ "report" \in page.sections <=> outcome.report = "value"
           /\ "report error" \in page.sections <=> outcome.report = "error"
           /\ "metrics" \in provides <=> outcome.metrics # "none"
           /\ "metrics" \in page.sections <=> outcome.metrics = "value"
           /\ "metrics error" \in page.sections <=> outcome.metrics = "error"
      ELSE page.sections = IF outcome.collect = "error" THEN {"collect error"} ELSE {}

\* What types.go says of RelatedObservation: its Ref is that of the discovery
\* entry it covers.
RefMatchesEntry ==
  entries # {} =>
    \A k \in Keys : \A n \in DOMAIN related[k] : related[k][n].ref \in entries
=============================================================================
