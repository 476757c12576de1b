----------------------- MODULE SharedDefinitionProofs -----------------------
(***************************************************************************)
(* Theorems about SharedDefinition, for any number of builds, servers and  *)
(* rules.                                                                  *)
(***************************************************************************)
EXTENDS SharedDefinition, TLAPS

-----------------------------------------------------------------------------
(* The inductive invariant.                                                 *)

\* The ranges of the variables the argument needs.
BuildTyped ==
  /\ current \in Builders \cup {None}
  /\ array \in [Builders -> [Rules -> Entries]]
  /\ pc \in [Builders -> {"call", "fill", "store", "built"}]
  /\ index \in [Builders -> Nat \ {0}]
  /\ target \in [Builders -> Builders]

ReadTyped ==
  /\ reading \in [Servers -> 0..(NumRules + 1)]
  /\ response \in [Servers -> [Rules -> {"zero", "info", "panic"}]]
  /\ undisturbed \in [Servers -> BOOLEAN]

\* A build has published an array before it stores, and its index says how far
\* it is.
Ordered ==
  \A b \in Builders :
    /\ pc[b] = "call" => index[b] = 1
    /\ pc[b] # "call" => current \in Builders
    /\ pc[b] = "store" => index[b] \in Rules
    /\ pc[b] = "built" => index[b] > NumRules

\* The build whose array is in use stores into that array, so the entries
\* below its index are there, whoever else stores into it.
Owned ==
  \A b \in Builders : current = b =>
    /\ pc[b] # "call"
    /\ pc[b] = "store" => target[b] = b
    /\ \A i \in Rules : i < index[b] => array[b][i] = "info"

BuildInv == BuildTyped /\ Ordered /\ Owned

\* While a request is undisturbed the array in use stays that of a build that
\* has ended.
Calm == \A s \in Servers : undisturbed[s] => Settled

-----------------------------------------------------------------------------
\* The array in use after a build has ended describes every rule.
LEMMA SettledWhole == BuildInv => BuiltIsWhole
<1> SUFFICES ASSUME BuildInv, Settled
             PROVE  Whole
  BY DEF BuiltIsWhole
<1>1. current \in Builders /\ index[current] > NumRules /\ index[current] \in Nat
  BY DEF BuildInv, BuildTyped, Ordered, Settled
<1>2. \A i \in Rules : i < index[current]
  BY <1>1, RulesAreCounted DEF Rules
<1> QED
  BY <1>1, <1>2 DEF BuildInv, Owned, Whole

LEMMA InitBuild == Init => BuildInv
BY NoneBuilds DEF Init, BuildInv, BuildTyped, Ordered, Owned, Blank, Entries

\* What a store of one entry does to the arrays, whichever value it stores.
LEMMA Stored ==
  ASSUME BuildTyped, NEW a \in Builders, NEW n \in Rules, NEW e \in Entries,
         array' = [array EXCEPT ![a][n] = e],
         array[a][n] = "info" => e = "info"
  PROVE  /\ array' \in [Builders -> [Rules -> Entries]]
         /\ array'[a][n] = e
         /\ \A c \in Builders, i \in Rules :
              array[c][i] = "info" => array'[c][i] = "info"
BY DEF BuildTyped

\* No step of a build disturbs the invariant.
LEMMA BuildStepKeeps ==
  ASSUME BuildInv, NEW b \in Builders, BuildStep(b)
  PROVE  BuildInv'
<1> USE DEF BuildInv
<1>1. CASE Allocate(b)
  <2>1. BuildTyped'
    BY <1>1 DEF Allocate, BuildTyped
  <2>2. Ordered'
    BY <1>1 DEF Allocate, BuildTyped, Ordered
  <2>3. Owned'
    BY <1>1 DEF Allocate, BuildTyped, Ordered, Owned, Rules
  <2> QED
    BY <2>1, <2>2, <2>3
<1>2. CASE BeginStore(b)
  <2> DEFINE n == index[b]
             e == IF array[current][n] = "info" THEN "info" ELSE "torn"
  <2>1. current \in Builders /\ n \in Rules /\ e \in Entries
    BY <1>2, RulesAreCounted DEF BeginStore, BuildTyped, Ordered, Rules, Entries
  <2>2. array' = [array EXCEPT ![current][n] = e]
    BY <1>2, <2>1 DEF BeginStore, BuildTyped
  <2>3. array[current][n] = "info" => e = "info"
    OBVIOUS
  <2> HIDE DEF e
  <2>4. /\ array' \in [Builders -> [Rules -> Entries]]
        /\ \A c \in Builders, i \in Rules : array[c][i] = "info" => array'[c][i] = "info"
    BY <2>1, <2>2, <2>3, Stored
  <2>5. BuildTyped'
    BY <1>2, <2>1, <2>4 DEF BeginStore, BuildTyped
  <2>6. Ordered'
    BY <1>2, <2>1 DEF BeginStore, BuildTyped, Ordered
  <2>7. Owned'
    BY <1>2, <2>4 DEF BeginStore, BuildTyped, Owned
  <2> QED
    BY <2>5, <2>6, <2>7
<1>3. CASE EndStore(b)
  <2>1. target[b] \in Builders /\ index[b] \in Rules /\ "info" \in Entries
    BY <1>3 DEF EndStore, BuildTyped, Ordered, Entries
  <2>2. /\ array' \in [Builders -> [Rules -> Entries]]
        /\ array'[target[b]][index[b]] = "info"
        /\ \A c \in Builders, i \in Rules : array[c][i] = "info" => array'[c][i] = "info"
    BY <1>3, <2>1, Stored DEF EndStore
  <2>3. BuildTyped'
    BY <1>3, <2>2 DEF EndStore, BuildTyped
  <2>4. Ordered'
    BY <1>3 DEF EndStore, BuildTyped, Ordered
  <2>5. Owned'
    <3> SUFFICES ASSUME NEW c \in Builders, current' = c
                 PROVE  /\ pc'[c] # "call"
                        /\ pc'[c] = "store" => target'[c] = c
                        /\ \A i \in Rules : i < index'[c] => array'[c][i] = "info"
      BY DEF Owned
    <3>1. pc'[c] # "call" /\ (pc'[c] = "store" => target'[c] = c)
      BY <1>3 DEF EndStore, BuildTyped, Owned
    <3>2. ASSUME NEW i \in Rules, i < index'[c]
          PROVE  array'[c][i] = "info"
      <4>1. i < index[c] \/ (c = b /\ i = index[b])
        BY <1>3, <3>2 DEF EndStore, BuildTyped, Rules
      <4>2. CASE i < index[c]
        BY <1>3, <2>2, <4>2 DEF EndStore, Owned
      <4>3. CASE c = b /\ i = index[b]
        BY <1>3, <2>2, <4>3 DEF EndStore, Owned
      <4> QED
        BY <4>1, <4>2, <4>3
    <3> QED
      BY <3>1, <3>2
  <2> QED
    BY <2>3, <2>4, <2>5
<1>4. CASE Built(b)
  BY <1>4 DEF Built, BuildTyped, Ordered, Owned
<1> QED
  BY <1>1, <1>2, <1>3, <1>4 DEF BuildStep

LEMMA BuildKept == BuildInv /\ [Next]_vars => BuildInv'
<1> SUFFICES ASSUME BuildInv, [Next]_vars
             PROVE  BuildInv'
  OBVIOUS
<1>1. CASE UNCHANGED buildVars
  BY <1>1 DEF buildVars, BuildInv, BuildTyped, Ordered, Owned
<1>2. ASSUME NEW s \in Servers, ReadStep(s)
      PROVE  UNCHANGED buildVars
  BY <1>2 DEF ReadStep, BeginRead, ReadEntry, EndRead
<1> QED
  BY <1>1, <1>2, BuildStepKeeps DEF Next, vars

\* However the builds of one definition overlap, the array in use describes
\* every rule from the moment the build that allocated it has ended.
THEOREM BuildsAreWhole == Spec => []BuiltIsWhole
<1>1. Spec => []BuildInv
  BY InitBuild, BuildKept, PTL DEF Spec
<1> QED
  BY <1>1, SettledWhole, PTL

-----------------------------------------------------------------------------
(* The responses.                                                           *)

ReadInv == ReadTyped /\ Calm /\ UndisturbedIsWhole

LEMMA InitRead == Init => ReadInv
BY RulesAreCounted
   DEF Init, ReadInv, ReadTyped, Calm, UndisturbedIsWhole, Blank, Rules

\* An undisturbed request reads nothing but what the ended build has left.
LEMMA ReadKept == BuildInv /\ ReadInv /\ [Next]_vars => ReadInv'
<1> SUFFICES ASSUME BuildInv, ReadInv, [Next]_vars
             PROVE  ReadInv'
  OBVIOUS
<1>1. ASSUME NEW b \in Builders, Allocate(b)
      PROVE  ReadInv'
  BY <1>1 DEF Allocate, ReadInv, ReadTyped, Calm, UndisturbedIsWhole
<1>2. ASSUME NEW b \in Builders, BeginStore(b) \/ EndStore(b) \/ Built(b)
      PROVE  ReadInv'
  <2>1. UNCHANGED readVars /\ (Settled => Settled')
    BY <1>2 DEF BeginStore, EndStore, Built, Settled, BuildInv, BuildTyped
  <2> QED
    BY <2>1 DEF readVars, ReadInv, ReadTyped, Calm, UndisturbedIsWhole
<1>3. ASSUME NEW s \in Servers, BeginRead(s)
      PROVE  ReadInv'
  <2>1. ReadTyped'
    BY <1>3, RulesAreCounted DEF BeginRead, ReadInv, ReadTyped, Blank, Settled, Rules
  <2>2. Calm'
    BY <1>3 DEF BeginRead, ReadInv, ReadTyped, Calm, Settled, buildVars
  <2>3. UndisturbedIsWhole'
    BY <1>3 DEF BeginRead, ReadInv, ReadTyped, UndisturbedIsWhole, Blank, Rules
  <2> QED
    BY <2>1, <2>2, <2>3 DEF ReadInv
<1>4. ASSUME NEW s \in Servers, ReadEntry(s)
      PROVE  ReadInv'
  <2> DEFINE n == reading[s]
  <2>1. PICK seen \in {"zero", "info", "panic"} :
          /\ array[current][n] \in {seen, "torn"}
          /\ response' = [response EXCEPT ![s][n] = seen]
          /\ reading' = [reading EXCEPT ![s] = IF seen = "panic" THEN 0 ELSE n + 1]
    BY <1>4 DEF ReadEntry, ReadInv, ReadTyped
  <2>2. n \in Rules /\ UNCHANGED <<buildVars, undisturbed>>
    BY <1>4 DEF ReadEntry
  <2>3. undisturbed[s] => seen = "info"
    BY <2>1, <2>2, SettledWhole DEF ReadInv, Calm, BuiltIsWhole, Whole
  <2>4. ReadTyped'
    BY <2>1, <2>2, RulesAreCounted DEF ReadInv, ReadTyped, Rules
  <2>5. Calm'
    BY <2>2 DEF ReadInv, Calm, Settled, buildVars
  <2>6. UndisturbedIsWhole'
    <3> SUFFICES ASSUME NEW t \in Servers, undisturbed[t], NEW i \in Rules
                 PROVE  /\ i < reading'[t] => response'[t][i] = "info"
                        /\ response'[t][i] # "panic"
      BY <2>2 DEF UndisturbedIsWhole
    <3>1. /\ i < reading[t] => response[t][i] = "info"
          /\ response[t][i] # "panic"
      BY DEF ReadInv, UndisturbedIsWhole
    <3>2. CASE t # s
      BY <2>1, <3>1, <3>2 DEF ReadInv, ReadTyped
    <3>3. CASE t = s
      <4>1. response'[s][i] = IF i = n THEN "info" ELSE response[s][i]
        BY <2>1, <2>2, <2>3, <3>3 DEF ReadInv, ReadTyped
      <4>2. i < reading'[s] => i < n \/ i = n
        BY <2>1, <2>2, <2>3, <3>3 DEF ReadInv, ReadTyped, Rules
      <4> QED
        BY <3>1, <3>3, <4>1, <4>2
    <3> QED
      BY <3>2, <3>3
  <2> QED
    BY <2>4, <2>5, <2>6 DEF ReadInv
<1>5. ASSUME NEW s \in Servers, EndRead(s)
      PROVE  ReadInv'
  BY <1>5, RulesAreCounted
     DEF EndRead, ReadInv, ReadTyped, Calm, UndisturbedIsWhole, Settled,
         buildVars, Rules
<1>6. CASE UNCHANGED vars
  BY <1>6 DEF vars, buildVars, readVars, ReadInv, ReadTyped, Calm,
              UndisturbedIsWhole, Settled
<1> QED
  BY <1>1, <1>2, <1>3, <1>4, <1>5, <1>6 DEF Next, BuildStep, ReadStep

\* A response of GET /definition that no new build overlaps describes every
\* rule and never panics, however many old builds are still storing.
THEOREM ResponsesAreWhole == Spec => []UndisturbedIsWhole
<1>1. Spec => [](BuildInv /\ ReadInv)
  BY InitBuild, InitRead, BuildKept, ReadKept, PTL DEF Spec
<1> QED
  BY <1>1, PTL DEF ReadInv
=============================================================================
