-------------------------- MODULE SharedDefinition --------------------------
(***************************************************************************)
(* One CheckerDefinition in the hands of several servers.  Definition()    *)
(* returns a pointer, usually always the same one, and whoever gets it,    *)
(* New as well as RegisterChecker, calls BuildRulesInfo on it              *)
(* (checker/types.go) with no lock: a new slice is published at once and   *)
(* filled rule by rule, while GET /definition of another server may be     *)
(* encoding it.                                                            *)
(*                                                                         *)
(* d.RulesInfo is a slice header of three words; all builds allocate one   *)
(* entry per rule, so only which array it points to matters.  An entry is  *)
(* several words too: a store of one begins and ends, and a read in        *)
(* between finds any mixture of the two values, or a string with a length  *)
(* and no bytes, on which the reader panics.                               *)
(***************************************************************************)
EXTENDS Integers

CONSTANTS
  Builders,     \* the calls of New and of RegisterChecker on the definition
  Servers,      \* those whose server answers GET /definition afterwards
  NumRules,     \* rules in the definition
  None          \* RulesInfo before any build

ASSUME ServersAreBuilt == Servers \subseteq Builders
ASSUME NoneBuilds == None \notin Builders
ASSUME RulesAreCounted == NumRules \in Nat

Rules == 1..NumRules

VARIABLES
  current,      \* d.RulesInfo: the builder that allocated its array, or None
  array,        \* the arrays, one for each build
  pc,           \* progress of each build
  index,        \* the rule whose turn it is in each build
  target,       \* the array its store is going to
  reading,      \* the entry each server is to encode next; 0 between requests
  response,     \* what it has encoded so far
  undisturbed   \* history: was the definition whole when the request came in,
                \* and has no build begun since?

buildVars == <<current, array, pc, index, target>>
readVars == <<reading, response, undisturbed>>
vars == <<buildVars, readVars>>

\* "zero" is CheckRuleInfo{}, "torn" an entry in the middle of its first store;
\* later stores write the same words again.
Entries == {"zero", "torn", "info"}

Blank == [i \in Rules |-> "zero"]

Init ==
  /\ current = None
  /\ array = [b \in Builders |-> Blank]
  /\ pc = [b \in Builders |-> "call"]
  /\ index = [b \in Builders |-> 1]
  /\ target = [b \in Builders |-> b]
  /\ reading = [s \in Servers |-> 0]
  /\ response = [s \in Servers |-> Blank]
  /\ undisturbed = [s \in Servers |-> FALSE]

-----------------------------------------------------------------------------
(* BuildRulesInfo.                                                          *)

\* Mutant: the array of an earlier build is cleared and used again.
AllocateInPlace(b) ==
  /\ pc[b] = "call"
  /\ LET a == IF current = None THEN b ELSE current
     IN current' = a /\ array' = [array EXCEPT ![a] = Blank]
  /\ pc' = [pc EXCEPT ![b] = "fill"]
  /\ undisturbed' = [s \in Servers |-> FALSE]
  /\ UNCHANGED <<index, target, reading, response>>

\* d.RulesInfo = make([]CheckRuleInfo, len(d.Rules))
Allocate(b) ==
  /\ pc[b] = "call"
  /\ current' = b
  /\ pc' = [pc EXCEPT ![b] = "fill"]
  /\ undisturbed' = [s \in Servers |-> FALSE]
  /\ UNCHANGED <<array, index, target, reading, response>>

\* d.RulesInfo[i] = info: d.RulesInfo is read again for every rule, and may be
\* the array of another build by now ...
BeginStore(b) ==
  /\ pc[b] = "fill"
  /\ index[b] <= NumRules
  /\ target' = [target EXCEPT ![b] = current]
  /\ array' = [array EXCEPT ![current][index[b]] = IF @ = "info" THEN @ ELSE "torn"]
  /\ pc' = [pc EXCEPT ![b] = "store"]
  /\ UNCHANGED <<current, index, readVars>>

\* Mutant: the last rule is left out.
EndStoreEarly(b) ==
  /\ pc[b] = "store"
  /\ array' = [array EXCEPT ![target[b]][index[b]] = "info"]
  /\ index' = [index EXCEPT ![b] = @ + 1]
  /\ pc' = [pc EXCEPT ![b] = IF index[b] >= NumRules - 1 THEN "built" ELSE "fill"]
  /\ UNCHANGED <<current, target, readVars>>

\* ... and the last word of the entry is stored.
EndStore(b) ==
  /\ pc[b] = "store"
  /\ array' = [array EXCEPT ![target[b]][index[b]] = "info"]
  /\ index' = [index EXCEPT ![b] = @ + 1]
  /\ pc' = [pc EXCEPT ![b] = "fill"]
  /\ UNCHANGED <<current, target, readVars>>

\* The loop ends, and New returns a server that can serve.
Built(b) ==
  /\ pc[b] = "fill"
  /\ index[b] > NumRules
  /\ pc' = [pc EXCEPT ![b] = "built"]
  /\ UNCHANGED <<current, array, index, target, readVars>>

BuildStep(b) == Allocate(b) \/ BeginStore(b) \/ EndStore(b) \/ Built(b)

-----------------------------------------------------------------------------
(* GET /definition (and POST, whose response embeds the same pointer).      *)

\* Is the array in use that of a build that has ended?
Settled == current \in Builders /\ pc[current] = "built"

BeginRead(s) ==
  /\ pc[s] = "built"
  /\ reading[s] = 0
  /\ reading' = [reading EXCEPT ![s] = 1]
  /\ response' = [response EXCEPT ![s] = Blank]
  /\ undisturbed' = [undisturbed EXCEPT ![s] = Settled]
  /\ UNCHANGED buildVars

\* The encoder reads the slice header and one entry, which may be torn.
ReadEntry(s) ==
  /\ reading[s] \in Rules
  /\ \E seen \in {"zero", "info", "panic"} :
       /\ array[current][reading[s]] \in {seen, "torn"}
       /\ response' = [response EXCEPT ![s][reading[s]] = seen]
       /\ reading' = [reading EXCEPT ![s] = IF seen = "panic" THEN 0 ELSE @ + 1]
  /\ UNCHANGED <<buildVars, undisturbed>>

EndRead(s) ==
  /\ reading[s] = NumRules + 1
  /\ reading' = [reading EXCEPT ![s] = 0]
  /\ UNCHANGED <<buildVars, response, undisturbed>>

ReadStep(s) == BeginRead(s) \/ ReadEntry(s) \/ EndRead(s)

Next ==
  \/ \E b \in Builders : BuildStep(b)
  \/ \E s \in Servers : ReadStep(s)

Spec == Init /\ [][Next]_vars

\* Builds are straight-line code: once begun they go on.
FairSpec == Spec /\ \A b \in Builders : WF_vars(pc[b] # "call" /\ BuildStep(b))

-----------------------------------------------------------------------------
(* Properties.                                                              *)

\* When a build ends and no other has begun since it allocated its array, the
\* definition describes every rule, however many builds that began earlier are
\* still storing into it.
Whole == current \in Builders /\ \A i \in Rules : array[current][i] = "info"
BuiltIsWhole == Settled => Whole

\* A server's GET /definition describes every rule if the definition was whole
\* when the request came in and no New and no registration took it up again
\* before the last entry was encoded; builds that had begun earlier and are
\* still storing do no harm.
UndisturbedIsWhole ==
  \A s \in Servers : undisturbed[s] =>
    \A i \in Rules : /\ i < reading[s] => response[s][i] = "info"
                    /\ response[s][i] # "panic"

\* Two servers started over one definition, in whatever way their builds
\* overlap, do not leave it blank for good: once all builds that began are
\* over, and from then on, every rule is described.
EventuallyWhole ==
  (\E b \in Builders : pc[b] # "call") ~> []Whole
=============================================================================
