----------------------------- MODULE Endpoints ------------------------------
(***************************************************************************)
(* The endpoints a host calls (checker/server/server.go): which of them    *)
(* New registers for a provider, and what their handlers do, from decoding *)
(* the request to writing the response, with every outcome the provider's  *)
(* and the rules' callbacks can have.  A handler is sequential and keeps   *)
(* nothing between requests, so one request at a time is all there is to   *)
(* see; a callback that panics leaves the request where it is (Telemetry   *)
(* has what happens to the counters then).                                 *)
(***************************************************************************)
EXTENDS Integers, RuleEvaluation

CONSTANTS
  MaxRules,     \* bound: rules in the definition
  MaxProduced   \* bound: states one rule returns

ASSUME BoundsAreNat == MaxRules \in Nat /\ MaxProduced \in Nat

VARIABLES
  provides,     \* the optional interfaces the provider implements
  rules,        \* the names of the definition's rules, in order
  prechecked,   \* the positions of the rules that implement RulePrecheck
  req,          \* the request
  step,         \* where its handler is
  ctx,          \* the context handed to Collect
  gathered,     \* history: Collect returned data that marshals
  entries,      \* the discovery entries: "none", "some" or "unencodable"
  states,       \* the states of the response
  at,           \* the rule handlePrecheck has come to
  failures,     \* PrecheckFailures: under each name the rule whose error it
                \* holds, by position, or 0 for no entry
  failing,      \* history: positions of the rules whose Precheck failed
  eligible,     \* Eligible: "nil", "yes" or "no"
  out           \* the response: status code and what its body holds

setup == <<provides, rules, prechecked>>
work == <<ctx, gathered, entries, states, at, failures, failing, eligible>>
vars == <<setup, req, step, work, out>>

Interfaces == {"definition", "html", "metrics", "enabler", "publisher"}

\* Bodies a decoder tells apart.  "cut" is one that goes on beyond
\* maxRequestBodySize; "empty" says so in its Content-Length and "chunked" is
\* an empty one that does not.
Bodies == {"valid", "malformed", "cut", "empty", "chunked"}

Requests ==
  [route : {"collect", "definition", "precheck", "evaluate", "report"},
   body : Bodies, enabled : EnableMaps, accept : {"html", "other"}]

NoRequest == [route |-> "none"]
NoResponse == [code |-> 0, body |-> "nothing"]

Init ==
  /\ provides \in SUBSET Interfaces
  /\ rules \in UNION {[1..n -> Names] : n \in 0..MaxRules}
  /\ prechecked \in SUBSET DOMAIN rules
  /\ "definition" \notin provides => rules = <<>>
  /\ req = NoRequest
  /\ step = "idle"
  /\ ctx = NoContext
  /\ gathered = FALSE
  /\ entries = "none"
  /\ states = <<>>
  /\ at = 1
  /\ failures = [name \in Names |-> 0]
  /\ failing = {}
  /\ eligible = "nil"
  /\ out = NoResponse

-----------------------------------------------------------------------------
\* The routes New registers for this provider.
Registered ==
  {"collect"}
    \cup (IF "definition" \in provides THEN {"definition", "precheck", "evaluate"} ELSE {})
    \cup (IF {"html", "metrics"} \cap provides # {} THEN {"report"} ELSE {})

\* Decoding fails on anything but a whole JSON value; handlePrecheck does not
\* decode a body whose Content-Length is zero, and GET /definition none at all.
DecodeFails(route, body) ==
  /\ body # "valid"
  /\ route # "definition"
  /\ ~(route = "precheck" /\ body = "empty")

Reply(code, body) ==
  /\ out' = [code |-> code, body |-> body]
  /\ step' = "done"

\* writeJSON of a value that may hold what encoding/json cannot encode: the
\* status is out by then, and the error is dropped with the body.
ReplyJSON(code, body) == Reply(code, body) \/ Reply(code, "nothing")

\* A request comes in: the mux, then the decoding all handlers begin with.
Receive(q) ==
  /\ step = "idle"
  /\ req' = q
  /\ CASE q.route \notin Registered -> Reply(404, "error")
       [] q.route \in Registered /\ DecodeFails(q.route, q.body) ->
            Reply(400, "error")
       [] OTHER -> step' = q.route /\ UNCHANGED out
  /\ UNCHANGED <<setup, work>>

-----------------------------------------------------------------------------
(* POST /collect                                                            *)

Collect ==
  /\ step = "collect"
  /\ ctx' = WithEnabledRules(NoContext, req.enabled)
  /\ \/ Reply(500, "error")
     \/ step' = "marshal" /\ UNCHANGED out
  /\ UNCHANGED <<setup, req, gathered, entries, states, at, failures, failing, eligible>>

Marshal ==
  /\ step = "marshal"
  /\ \/ Reply(500, "error") /\ UNCHANGED gathered
     \/ step' = "discover" /\ gathered' = TRUE /\ UNCHANGED out
  /\ UNCHANGED <<setup, req, ctx, entries, states, at, failures, failing, eligible>>

\* Mutant: a DiscoverEntries error fails the whole collection.
DiscoverOrFail ==
  /\ step = "discover"
  /\ \/ entries' = "none" /\ Reply(200, "data")
     \/ /\ "publisher" \in provides
        /\ \/ entries' = "some" /\ Reply(200, "data")
           \/ entries' = "none" /\ Reply(500, "error")
           \/ entries' = "unencodable" /\ Reply(200, "nothing")
  /\ UNCHANGED <<setup, req, ctx, gathered, states, at, failures, failing, eligible>>

\* The entries, if the provider publishes any and finding them does not fail,
\* and the response.  The data was marshalled above; the payload of an entry may
\* still not encode, and then writeJSON sends no body at all.
Discover ==
  /\ step = "discover"
  /\ \/ entries' = "none" /\ Reply(200, "data")
     \/ /\ "publisher" \in provides
        /\ \/ entries' = "some" /\ Reply(200, "data")
           \/ entries' = "unencodable" /\ Reply(200, "nothing")
  /\ UNCHANGED <<setup, req, ctx, gathered, states, at, failures, failing, eligible>>

-----------------------------------------------------------------------------
(* POST /evaluate                                                           *)

Evaluate ==
  /\ step = "evaluate"
  /\ \E produced \in [DOMAIN rules -> 0..MaxProduced] :
       states' = EvaluateRules(rules, req.enabled, produced)
  /\ ReplyJSON(200, "states")
  /\ UNCHANGED <<setup, req, ctx, gathered, entries, at, failures, failing, eligible>>

-----------------------------------------------------------------------------
(* GET and POST /definition                                                 *)

Describe ==
  /\ step = "definition"
  /\ ReplyJSON(200, "definition")
  /\ UNCHANGED <<setup, req, work>>

\* Mutant: a rule that can run clears the failure entered under its name.
PrecheckLast ==
  /\ step = "precheck"
  /\ at \in DOMAIN rules
  /\ at' = at + 1
  /\ IF at \in prechecked
       THEN \/ failures' = [failures EXCEPT ![rules[at]] = 0] /\ UNCHANGED failing
            \/ /\ failures' = [failures EXCEPT ![rules[at]] = at]
               /\ failing' = failing \cup {at}
       ELSE UNCHANGED <<failures, failing>>
  /\ UNCHANGED <<setup, req, step, ctx, gathered, entries, states, eligible, out>>

\* One rule of the loop: it has no Precheck or can run, or its error is entered
\* under its name, over that of an earlier rule of the same name.
Precheck ==
  /\ step = "precheck"
  /\ at \in DOMAIN rules
  /\ at' = at + 1
  /\ \/ UNCHANGED <<failures, failing>>
     \/ /\ at \in prechecked
        /\ failures' = [failures EXCEPT ![rules[at]] = at]
        /\ failing' = failing \cup {at}
  /\ UNCHANGED <<setup, req, step, ctx, gathered, entries, states, eligible, out>>

\* After the last rule: IsEligible answers, or fails and leaves Eligible nil.
Eligibility ==
  /\ step = "precheck"
  /\ at \notin DOMAIN rules
  /\ IF "enabler" \in provides THEN eligible' \in {"yes", "no", "nil"}
                               ELSE UNCHANGED eligible
  /\ ReplyJSON(200, "definition")
  /\ UNCHANGED <<setup, req, ctx, gathered, entries, states, at, failures, failing>>

-----------------------------------------------------------------------------
(* POST /report                                                             *)

ReportHTML ==
  /\ step = "report"
  /\ req.accept = "html"
  /\ IF "html" \in provides THEN Reply(500, "error") \/ Reply(200, "html")
                            ELSE Reply(501, "error")
  /\ UNCHANGED <<setup, req, work>>

ReportMetrics ==
  /\ step = "report"
  /\ req.accept # "html"
  /\ IF "metrics" \in provides THEN Reply(500, "error") \/ ReplyJSON(200, "metrics")
                               ELSE Reply(501, "error")
  /\ UNCHANGED <<setup, req, work>>

-----------------------------------------------------------------------------
Next ==
  \/ \E q \in Requests : Receive(q)
  \/ Collect \/ Marshal \/ Discover
  \/ Evaluate
  \/ Describe \/ Precheck \/ Eligibility
  \/ ReportHTML \/ ReportMetrics

Spec == Init /\ [][Next]_vars

-----------------------------------------------------------------------------
(* Properties.                                                              *)

\* The rules that evaluateRules ran, by position.
Ran == {states[k].from : k \in DOMAIN states}

\* A provider that asks RuleEnabled while it collects is told the same as
\* /evaluate will do with the same map, for every map a host can send: nil,
\* empty, partial, and with names of no rule.
CollectAgreesWithEvaluate ==
  /\ step \in {"marshal", "discover"} =>
       \A name \in Names : RuleEnabled(ctx, name) <=> ~Skipped(req.enabled, name)
  /\ step = "done" /\ req.route = "evaluate" /\ out.code = 200 =>
       Ran = {i \in DOMAIN rules :
                RuleEnabled(WithEnabledRules(NoContext, req.enabled), rules[i])}

\* Every rule that ran has a state to show, the states come in the order of the
\* rules, and each is attributed to the rule that made it.
StatesAreAttributed ==
  /\ \A k \in DOMAIN states : states[k].rule = rules[states[k].from]
  /\ \A j, k \in DOMAIN states : j < k => states[j].from <= states[k].from
  /\ step = "done" /\ req.route = "evaluate" /\ out.code = 200 =>
       \A i \in DOMAIN rules : i \notin Ran => Skipped(req.enabled, rules[i])

\* The response of POST /definition reports exactly the names of the rules that
\* could not run, even if another rule of the same name could; where several of
\* one name could not, with what the last of them said.
FailuresReported ==
  step = "done" /\ req.route = "precheck" /\ out.body = "definition" =>
    \A name \in Names :
      LET failed == {i \in failing : rules[i] = name}
      IN IF failed = {} THEN failures[name] = 0
                        ELSE failures[name] \in failed /\ \A i \in failed : i <= failures[name]

\* A collection is answered with a 200 exactly if there is data to send, whatever
\* happens to its discovery entries.  The data is in it, unless an entry does not
\* encode: then the 200 is empty, the one way collected data is lost.
CollectedIsSent ==
  step = "done" /\ req.route = "collect" =>
    /\ out.code = 200 <=> gathered
    /\ out.body = "data" <=> gathered /\ entries # "unencodable"
=============================================================================
