--------------------------- MODULE EndpointProofs ---------------------------
(***************************************************************************)
(* Theorems about Endpoints, for any rules, enable maps and requests.      *)
(* What becomes of the rules' states rests on the facts about FlattenSeq   *)
(* in SequenceFacts.                                                       *)
(***************************************************************************)
EXTENDS Endpoints, SequenceFacts

-----------------------------------------------------------------------------
(* The two readings of an enable map.                                       *)

\* What is attached to the context of a request is the map of the request.
LEMMA MapIsAttached ==
  ASSUME NEW enabled
  PROVE  WithEnabledRules(NoContext, enabled) = enabled
BY DEF WithEnabledRules, NoContext

\* A rule is enabled while collecting exactly if evaluating does not skip it.
LEMMA ReadingsAgree ==
  ASSUME NEW enabled, NEW name
  PROVE  RuleEnabled(enabled, name) <=> ~Skipped(enabled, name)
BY Zenon DEF RuleEnabled, EnabledRulesFromContext, Skipped

-----------------------------------------------------------------------------
(* Where a handler is, and for which route.                                 *)

Collecting == {"collect", "marshal", "discover"}
Others == {"definition", "precheck", "evaluate", "report"}

OnRoute ==
  /\ step \in {"idle", "done"} \cup Collecting \cup Others
  /\ step \in Collecting => req.route = "collect"
  /\ step \in Others => req.route # "collect"

\* The data is there from the marshalling on, and the context before it.
Gathering ==
  /\ gathered \in BOOLEAN
  /\ step \in {"idle", "collect", "marshal"} \cup Others => gathered = FALSE
  /\ step = "discover" => gathered = TRUE
  /\ step \in {"marshal", "discover"} => ctx = req.enabled

HandlerInv == OnRoute /\ Gathering /\ CollectedIsSent

LEMMA HandlerStart == Init => HandlerInv
BY DEF Init, HandlerInv, OnRoute, Gathering, CollectedIsSent, Collecting, Others

LEMMA HandlerStep == HandlerInv /\ [Next]_vars => HandlerInv'
<1> SUFFICES ASSUME HandlerInv, [Next]_vars PROVE HandlerInv'
  OBVIOUS
<1> USE DEF HandlerInv, OnRoute, Gathering, CollectedIsSent,
            Collecting, Others, Reply, ReplyJSON, setup, work
<1>1. ASSUME NEW q \in Requests, Receive(q) PROVE HandlerInv'
  <2>1. step = "idle" /\ req' = q /\ UNCHANGED work
    BY <1>1 DEF Receive
  <2>2. \/ step' = "done" /\ out'.code \in {400, 404} /\ out'.body = "error"
        \/ step' = q.route
    BY <1>1 DEF Receive
  <2>3. q.route \in {"collect", "definition", "precheck", "evaluate", "report"}
    BY <1>1 DEF Requests
  <2>4. gathered = FALSE
    BY <2>1
  <2> QED
    BY <2>1, <2>2, <2>3, <2>4
<1>2. CASE Collect
  BY <1>2, MapIsAttached DEF Collect
<1>3. CASE Marshal
  <2>1. step = "marshal" /\ gathered = FALSE /\ UNCHANGED <<setup, req, ctx>>
    BY <1>3 DEF Marshal
  <2>2. CASE step' = "discover" /\ gathered' = TRUE
    BY <2>1, <2>2
  <2>3. CASE Reply(500, "error") /\ UNCHANGED gathered
    BY <2>1, <2>3
  <2> QED
    BY <1>3, <2>2, <2>3 DEF Marshal
<1>4. CASE Discover
  BY <1>4 DEF Discover
<1>5. CASE Evaluate
  BY <1>5 DEF Evaluate
<1>6. CASE Describe
  BY <1>6 DEF Describe
<1>7. CASE Precheck
  BY <1>7 DEF Precheck
<1>8. CASE Eligibility
  BY <1>8 DEF Eligibility
<1>9. CASE ReportHTML \/ ReportMetrics
  BY <1>9 DEF ReportHTML, ReportMetrics
<1>10. CASE UNCHANGED vars
  BY <1>10 DEF vars
<1> QED
  BY <1>1, <1>2, <1>3, <1>4, <1>5, <1>6, <1>7, <1>8, <1>9, <1>10 DEF Next

LEMMA HandlerAlways == Spec => []HandlerInv
BY HandlerStart, HandlerStep, PTL DEF Spec

\* A collection answers 200 exactly if its data was gathered, whatever becomes
\* of its discovery entries, and loses it only to an entry that does not encode.
THEOREM CollectionsAreSent == Spec => []CollectedIsSent
BY HandlerAlways, PTL DEF HandlerInv

-----------------------------------------------------------------------------
(* The states of an evaluation.                                             *)

AllStates == [rule : Names, from : Nat, kind : {"no state", "produced"}]

\* States of every rule that is not skipped and of no other, in the order of the
\* rules, each under the name of its rule.
EvaluationOf(s, names, enabled) ==
  /\ \A k \in DOMAIN s : s[k].rule = names[s[k].from]
  /\ \A j, k \in DOMAIN s : j < k => s[j].from <= s[k].from
  /\ {s[k].from : k \in DOMAIN s} = {i \in DOMAIN names : ~Skipped(enabled, names[i])}

\* That is what evaluateRules gathers.
LEMMA Evaluated ==
  ASSUME NEW names \in Seq(Names), NEW enabled, NEW produced \in [DOMAIN names -> Nat]
  PROVE  LET s == EvaluateRules(names, enabled, produced) IN
         s \in Seq(AllStates) /\ EvaluationOf(s, names, enabled)
<1> DEFINE Part(i) == IF Skipped(enabled, names[i]) THEN <<>>
                      ELSE Contribution(names[i], i, produced[i])
           parts == [i \in DOMAIN names |-> Part(i)]
           tag == [s \in AllStates |-> s.from]
           s == EvaluateRules(names, enabled, produced)
<1>1. DOMAIN names = 1..Len(names) /\ Len(names) \in Nat
  OBVIOUS
<1>2. ASSUME NEW i \in 1..Len(names)
      PROVE  /\ Part(i) \in Seq(AllStates)
             /\ \A n \in 1..Len(Part(i)) : Part(i)[n].from = i /\ Part(i)[n].rule = names[i]
             /\ Len(Part(i)) > 0 <=> ~Skipped(enabled, names[i])
  <2>1. /\ State(names[i], i, "no state") \in AllStates
        /\ State(names[i], i, "produced") \in AllStates
        /\ \A kind : State(names[i], i, kind).from = i /\ State(names[i], i, kind).rule = names[i]
    BY DEF State, AllStates
  <2>2. produced[i] \in Nat
    BY <1>1
  <2> DEFINE c == Contribution(names[i], i, produced[i])
  <2>3. /\ c \in Seq(AllStates) /\ Len(c) > 0
        /\ \A n \in 1..Len(c) : c[n].from = i /\ c[n].rule = names[i]
    <3>1. CASE produced[i] = 0
      <4> DEFINE st == State(names[i], i, "no state")
      <4>1. c = <<st>>
        BY <3>1 DEF Contribution
      <4>2. st \in AllStates /\ st.from = i /\ st.rule = names[i]
        BY <2>1
      <4> HIDE DEF st, c
      <4> QED
        BY <4>1, <4>2
    <3>2. CASE produced[i] # 0
      <4> DEFINE m == produced[i]
                 st == State(names[i], i, "produced")
      <4>1. c = [k \in 1..m |-> st] /\ m \in Nat /\ m > 0
        BY <2>2, <3>2 DEF Contribution
      <4>2. st \in AllStates /\ st.from = i /\ st.rule = names[i]
        BY <2>1
      <4> HIDE DEF m, st, c
      <4>3. c \in Seq(AllStates) /\ Len(c) = m
        BY <4>1, <4>2
      <4> QED
        BY <4>1, <4>2, <4>3
    <3> QED
      BY <3>1, <3>2
  <2> HIDE DEF c
  <2>4. CASE Skipped(enabled, names[i])
    BY <2>4
  <2>5. CASE ~Skipped(enabled, names[i])
    BY <2>3, <2>5 DEF c
  <2> QED
    BY <2>4, <2>5
<1>3. s = FlattenSeq(parts)
  BY DEF EvaluateRules
<1>4. \A i \in 1..Len(names) : parts[i] = Part(i)
  BY <1>1
<1> HIDE DEF Part
<1>5. parts \in Seq(Seq(AllStates)) /\ Len(parts) = Len(names)
  BY <1>1, <1>2
<1>6. \A st \in AllStates : tag[st] = st.from
  OBVIOUS
<1> HIDE DEF parts, s, tag
<1>7. \A i \in 1..Len(parts) : \A n \in 1..Len(parts[i]) :
        /\ parts[i][n] \in AllStates
        /\ tag[parts[i][n]] = i
        /\ parts[i][n].from = i /\ parts[i][n].rule = names[i]
  <2> SUFFICES ASSUME NEW i \in 1..Len(parts), NEW n \in 1..Len(parts[i])
               PROVE  /\ parts[i][n] \in AllStates
                      /\ tag[parts[i][n]] = i
                      /\ parts[i][n].from = i /\ parts[i][n].rule = names[i]
    OBVIOUS
  <2>1. parts[i] = Part(i) /\ i \in 1..Len(names)
    BY <1>4, <1>5
  <2>2. parts[i] \in Seq(AllStates)
    BY <1>5
  <2>3. parts[i][n] \in AllStates
    BY <2>2
  <2>4. parts[i][n].from = i /\ parts[i][n].rule = names[i]
    BY <1>2, <2>1
  <2> QED
    BY <1>6, <2>3, <2>4
<1>8. s \in Seq(AllStates) /\ Gathers(s, parts, tag)
  BY <1>3, <1>5, <1>7, TaggedFlatten DEF TaggedBy
<1>9. DOMAIN s = 1..Len(s) /\ \A k \in 1..Len(s) : s[k] \in AllStates /\ tag[s[k]] = s[k].from
  BY <1>6, <1>8
<1>10. \A k \in DOMAIN s : s[k].rule = names[s[k].from]
  <2> SUFFICES ASSUME NEW k \in 1..Len(s) PROVE s[k].rule = names[s[k].from]
    BY <1>9
  <2>1. PICK i \in 1..Len(parts) : \E n \in 1..Len(parts[i]) : s[k] = parts[i][n]
    BY <1>8 DEF Gathers
  <2> QED
    BY <1>7, <2>1
<1>11. \A j, k \in DOMAIN s : j < k => s[j].from <= s[k].from
  BY <1>8, <1>9 DEF Gathers
<1>12. {s[k].from : k \in DOMAIN s} = {i \in DOMAIN names : ~Skipped(enabled, names[i])}
  <2>1. {s[k].from : k \in DOMAIN s} = {tag[s[k]] : k \in 1..Len(s)}
    BY <1>9
  <2>2. {i \in 1..Len(parts) : Len(parts[i]) > 0} = {i \in DOMAIN names : ~Skipped(enabled, names[i])}
    BY <1>1, <1>2, <1>4, <1>5
  <2> QED
    BY <1>8, <2>1, <2>2 DEF Gathers
<1> QED
  BY <1>8, <1>10, <1>11, <1>12 DEF s, EvaluationOf

\* There are no states before the evaluation, and only a request to /evaluate
\* is answered with any.
Evaluating ==
  /\ rules \in Seq(Names)
  /\ step = "evaluate" => req.route = "evaluate"
  /\ step \notin {"idle", "evaluate", "done"} => req.route # "evaluate"
  /\ step # "done" => states = <<>>
  /\ req.route # "evaluate" => states = <<>>

Answered == step = "done" /\ req.route = "evaluate" /\ out.code = 200

StatesInv ==
  /\ Evaluating
  /\ \A k \in DOMAIN states : states[k].rule = rules[states[k].from]
  /\ \A j, k \in DOMAIN states : j < k => states[j].from <= states[k].from
  /\ Answered => Ran = {i \in DOMAIN rules : ~Skipped(req.enabled, rules[i])}

LEMMA StatesStart == Init => StatesInv
<1> SUFFICES ASSUME Init PROVE StatesInv
  OBVIOUS
<1>1. PICK n \in 0..MaxRules : rules \in [1..n -> Names]
  BY DEF Init
<1>2. rules \in Seq(Names)
  BY <1>1, BoundsAreNat
<1> QED
  BY <1>2 DEF Init, StatesInv, Evaluating, Answered, NoRequest

LEMMA StatesStep == StatesInv /\ [Next]_vars => StatesInv'
<1> SUFFICES ASSUME StatesInv, [Next]_vars PROVE StatesInv'
  OBVIOUS
<1> USE DEF StatesInv, Evaluating
\* What does not touch the states and is not a request to /evaluate.
<1>1. ASSUME UNCHANGED <<rules, req, states>>, step # "idle",
             step \notin {"evaluate", "done"}, step' \notin {"idle", "evaluate"}
      PROVE  StatesInv'
  BY <1>1 DEF Answered
<1>2. ASSUME NEW q \in Requests, Receive(q) PROVE StatesInv'
  <2>1. step = "idle" /\ req' = q /\ UNCHANGED <<rules, states>>
    BY <1>2 DEF Receive, setup, work
  <2>2. \/ step' = "done" /\ out'.code \in {400, 404}
        \/ step' = q.route
    BY <1>2 DEF Receive, Reply
  <2>3. q.route \in {"collect", "definition", "precheck", "evaluate", "report"}
    BY DEF Requests
  <2>4. states = <<>>
    BY <2>1
  <2>5. ~Answered'
    BY <2>1, <2>2, <2>3 DEF Answered
  <2> QED
    BY <2>1, <2>2, <2>3, <2>4, <2>5
<1>3. CASE Collect \/ Marshal \/ Discover
  BY <1>1, <1>3 DEF Collect, Marshal, Discover, Reply, ReplyJSON, setup
<1>4. CASE Evaluate
  <2>1. /\ step = "evaluate" /\ req.route = "evaluate" /\ step' = "done"
        /\ UNCHANGED <<rules, req>>
    BY <1>4 DEF Evaluate, Reply, ReplyJSON, setup
  <2>2. PICK produced \in [DOMAIN rules -> 0..MaxProduced] :
          states' = EvaluateRules(rules, req.enabled, produced)
    BY <1>4 DEF Evaluate
  <2>3. produced \in [DOMAIN rules -> Nat]
    BY <2>2, BoundsAreNat
  <2>4. EvaluationOf(states', rules, req.enabled)
    BY <2>1, <2>2, <2>3, Evaluated
  <2>5. Ran' = {i \in DOMAIN rules' : ~Skipped(req'.enabled, rules'[i])}
    BY <2>1, <2>4 DEF Ran, EvaluationOf, Skipped
  <2>6. Evaluating'
    BY <2>1
  <2> QED
    BY <2>1, <2>4, <2>5, <2>6 DEF EvaluationOf
<1>5. CASE Describe \/ Precheck \/ Eligibility
  BY <1>1, <1>5 DEF Describe, Precheck, Eligibility, Reply, ReplyJSON, setup, work
<1>6. CASE ReportHTML \/ ReportMetrics
  BY <1>1, <1>6 DEF ReportHTML, ReportMetrics, Reply, ReplyJSON, setup, work
<1>7. CASE UNCHANGED vars
  <2>1. UNCHANGED <<rules, req, step, states, out>>
    BY <1>7 DEF vars, setup, work
  <2> QED
    BY <2>1 DEF Answered, Ran, Skipped
<1> QED
  BY <1>2, <1>3, <1>4, <1>5, <1>6, <1>7 DEF Next

LEMMA StatesAlways == Spec => []StatesInv
BY StatesStart, StatesStep, PTL DEF Spec

\* Every rule that is not switched off has a state to show, and each state is
\* attributed to the rule that made it, in the order of the rules: for any
\* definition, enable map and number of states per rule.
THEOREM StatesShowTheirRules == Spec => []StatesAreAttributed
<1>1. StatesInv => StatesAreAttributed
  BY DEF StatesInv, Answered, StatesAreAttributed
<1> QED
  BY <1>1, StatesAlways, PTL

-----------------------------------------------------------------------------
(* The prechecks.                                                           *)

\* The loop has entered the failures of the rules before the one it has come to,
\* and under each name that of the last.
PrecheckInv ==
  /\ rules \in Seq(Names)
  /\ at \in Nat \ {0}
  /\ failing \subseteq 1..(at - 1)
  /\ failures \in [Names -> Nat]
  /\ \A name \in Names :
       IF \E i \in failing : rules[i] = name
         THEN /\ failures[name] \in failing /\ rules[failures[name]] = name
              /\ \A i \in failing : rules[i] = name => i <= failures[name]
         ELSE failures[name] = 0

LEMMA PrecheckStart == Init => PrecheckInv
<1> SUFFICES ASSUME Init PROVE PrecheckInv
  OBVIOUS
<1>1. PICK n \in 0..MaxRules : rules \in [1..n -> Names]
  BY DEF Init
<1>2. rules \in Seq(Names)
  BY <1>1, BoundsAreNat
<1> QED
  BY <1>2 DEF Init, PrecheckInv

LEMMA PrecheckStep == PrecheckInv /\ [Next]_vars => PrecheckInv'
<1> SUFFICES ASSUME PrecheckInv, [Next]_vars PROVE PrecheckInv'
  OBVIOUS
<1>1. ASSUME UNCHANGED <<rules, at, failures, failing>> PROVE PrecheckInv'
  BY <1>1, Zenon DEF PrecheckInv
<1>2. CASE Precheck
  <2>1. at \in DOMAIN rules /\ at' = at + 1 /\ rules' = rules
    BY <1>2 DEF Precheck, setup
  <2>2. /\ rules[at] \in Names /\ at \in Nat \ {0} /\ at' \in Nat \ {0}
        /\ 1..(at' - 1) = 1..(at - 1) \cup {at}
        /\ \A i \in failing : i < at
    BY <2>1 DEF PrecheckInv
  <2>3. CASE UNCHANGED <<failures, failing>>
    BY <2>1, <2>2, <2>3 DEF PrecheckInv
  <2>4. CASE failures' = [failures EXCEPT ![rules[at]] = at] /\ failing' = failing \cup {at}
    <3>1. failures' \in [Names -> Nat] /\ failing' \subseteq 1..(at' - 1)
      BY <2>2, <2>4 DEF PrecheckInv
    <3>2. ASSUME NEW name \in Names
          PROVE  IF \E i \in failing' : rules[i] = name
                   THEN /\ failures'[name] \in failing' /\ rules[failures'[name]] = name
                        /\ \A i \in failing' : rules[i] = name => i <= failures'[name]
                   ELSE failures'[name] = 0
      <4>1. CASE name = rules[at]
        <5>1. failures'[name] = at
          BY <2>4, <4>1 DEF PrecheckInv
        <5>2. \A i \in failing' : i <= at
          BY <2>2, <2>4 DEF PrecheckInv
        <5> QED
          BY <2>4, <4>1, <5>1, <5>2
      <4>2. CASE name # rules[at]
        <5>1. failures'[name] = failures[name]
          BY <2>4, <4>2 DEF PrecheckInv
        <5> QED
          BY <2>4, <4>2, <5>1 DEF PrecheckInv
      <4> QED
        BY <4>1, <4>2
    <3> QED
      BY <2>1, <2>2, <3>1, <3>2 DEF PrecheckInv
  <2> QED
    BY <1>2, <2>3, <2>4 DEF Precheck
<1>3. CASE \/ \E q \in Requests : Receive(q)
           \/ Collect \/ Marshal \/ Discover \/ Evaluate \/ Describe \/ Eligibility
           \/ ReportHTML \/ ReportMetrics
  BY <1>1, <1>3 DEF Receive, Collect, Marshal, Discover, Evaluate, Describe, Eligibility,
                    ReportHTML, ReportMetrics, setup, work
<1>4. CASE UNCHANGED vars
  BY <1>1, <1>4 DEF vars, setup, work
<1> QED
  BY <1>2, <1>3, <1>4 DEF Next

\* The response reports exactly the names under which a rule could not run, each
\* with the message of the last such rule, for any rules that share names.
THEOREM FailuresAreReported == Spec => []FailuresReported
<1>1. PrecheckInv => FailuresReported
  BY DEF PrecheckInv, FailuresReported
<1> QED
  BY <1>1, PrecheckStart, PrecheckStep, PTL DEF Spec

-----------------------------------------------------------------------------
(* One enable map, two endpoints.                                           *)

\* What a provider that asks RuleEnabled while it collects is told is what
\* /evaluate does with the same map, for any map and any names.
THEOREM CollectReadsAsEvaluate == Spec => []CollectAgreesWithEvaluate
<1>1. HandlerInv /\ StatesInv => CollectAgreesWithEvaluate
  <2> SUFFICES ASSUME HandlerInv, StatesInv PROVE CollectAgreesWithEvaluate
    OBVIOUS
  <2>1. step \in {"marshal", "discover"} =>
          \A name \in Names : RuleEnabled(ctx, name) <=> ~Skipped(req.enabled, name)
    BY ReadingsAgree DEF HandlerInv, Gathering
  <2>2. \A i \in DOMAIN rules :
          RuleEnabled(WithEnabledRules(NoContext, req.enabled), rules[i])
            <=> ~Skipped(req.enabled, rules[i])
    BY ReadingsAgree, MapIsAttached
  <2>3. Answered => Ran = {i \in DOMAIN rules :
          RuleEnabled(WithEnabledRules(NoContext, req.enabled), rules[i])}
    BY <2>2 DEF StatesInv
  <2> QED
    BY <2>1, <2>3 DEF Answered, CollectAgreesWithEvaluate
<1> QED
  BY <1>1, HandlerAlways, StatesAlways, PTL
=============================================================================
