--------------------------- MODULE RuleEvaluation ---------------------------
(***************************************************************************)
(* The two readings of the host's per-rule enable map: the one providers   *)
(* get while they collect (checker/context.go) and the one evaluateRules   *)
(* applies (checker/server/server.go), with the states it gathers.         *)
(***************************************************************************)
EXTENDS SequencesExt

CONSTANTS
  Names,      \* rule names
  NoMap       \* the nil map: no enable map was sent

\* A decoded enable map: nil, or a map that mentions some of the names.
EnableMaps == {NoMap} \cup UNION {[S -> BOOLEAN] : S \in SUBSET Names}

\* The context of a request carries no enable map until one is attached.
NoContext == NoMap

-----------------------------------------------------------------------------
\* A nil map leaves the context alone, an empty one is attached.
WithEnabledRules(ctx, enabled) == IF enabled = NoMap THEN ctx ELSE enabled

EnabledRulesFromContext(ctx) == ctx

\* Mutant: a rule the host's map does not mention is off.
RuleEnabledListed(ctx, name) ==
  LET m == EnabledRulesFromContext(ctx)
  IN m = NoMap \/ (name \in DOMAIN m /\ m[name])

RuleEnabled(ctx, name) ==
  LET m == EnabledRulesFromContext(ctx)
  IN m = NoMap \/ name \notin DOMAIN m \/ m[name]

\* evaluateRules passes over a rule that a non-empty map switches off.
Skipped(enabled, name) ==
  /\ enabled # NoMap
  /\ DOMAIN enabled # {}
  /\ name \in DOMAIN enabled
  /\ ~enabled[name]

-----------------------------------------------------------------------------
\* A state: the rule it is attributed to, the position of the rule that made
\* it, and whether that rule or evaluateRules made it up.
State(name, from, kind) == [rule |-> name, from |-> from, kind |-> kind]

\* What one rule contributes when its Evaluate returns n states.
Contribution(name, from, n) ==
  IF n = 0 THEN <<State(name, from, "no state")>>
           ELSE [k \in 1..n |-> State(name, from, "produced")]

\* Mutant: a rule that returns nothing contributes nothing.
EvaluateSilently(rules, enabled, produced) ==
  FlattenSeq([i \in DOMAIN rules |->
                IF Skipped(enabled, rules[i]) THEN <<>>
                ELSE [k \in 1..produced[i] |-> State(rules[i], i, "produced")]])

\* evaluateRules over the rules of the definition (their names, in order),
\* where the i-th rule's Evaluate returns produced[i] states, each attributed
\* to the rule whatever RuleName it was returned with.
EvaluateRules(rules, enabled, produced) ==
  FlattenSeq([i \in DOMAIN rules |->
                IF Skipped(enabled, rules[i]) THEN <<>>
                ELSE Contribution(rules[i], i, produced[i])])
=============================================================================
