------------------------------ MODULE Registry ------------------------------
(***************************************************************************)
(* The global registries (checker/registry.go): checker definitions by ID  *)
(* and observation providers by key, filled by the init functions of the   *)
(* packages a host links in, in whatever order they are initialised.       *)
(*                                                                         *)
(* A definition is a pointer its caller keeps, so what registration does   *)
(* to it is visible, and a slice is a reference to an array with a length: *)
(* append writes into the array when it has room and allocates otherwise.  *)
(***************************************************************************)
EXTENDS Integers, Sequences

CONSTANTS
  Defs,         \* pointers to checker definitions
  Ids,          \* non-empty checker IDs
  Providers,    \* observation providers
  Keys,         \* observation keys
  None,         \* no entry in a registry
  EmptyId,      \* the empty checker ID
  Capacity,     \* capacity of the AdminOpts slices callers pass
  MaxOpts       \* bound: options a definition may accumulate

ASSUME NoneIsNoEntry == None \notin Defs \cup Providers
ASSUME EmptyIsNoId == EmptyId \notin Ids
ASSUME SizesAreNat == Capacity \in Nat /\ MaxOpts \in Nat
ASSUME CommonIsNoDef == "common" \notin Defs

VARIABLES
  id,           \* CheckerDefinition.ID
  adminOpts,    \* CheckerDefinition.Options.AdminOpts: an array and a length
  arrays,       \* the arrays: each definition's own and one many may share
  hasRulesInfo, \* has BuildRulesInfo filled CheckerDefinition.RulesInfo?
  checkers,     \* checkerRegistry
  key,          \* the Key() of each provider
  providers,    \* observationProviderRegistry
  declared,     \* history: the AdminOpts each definition was built with
  external      \* history: definitions RegisterExternalizableChecker accepted

defVars == <<id, adminOpts, arrays, hasRulesInfo>>
vars == <<defVars, checkers, key, providers, declared, external>>

\* Array names: a definition's own, and a slice literal shared by several.
Common == "common"

\* Options are told apart by whether they are the "endpoint" one, and whose.
OwnOption == <<"option">>
Endpoint(i) == <<"endpoint", i>>

Opts(d) == SubSeq(arrays[adminOpts[d].array], 1, adminOpts[d].len)

\* Callers' slices are of an array of their own or of a common one, of any
\* length up to its capacity.
Init ==
  /\ id \in [Defs -> Ids \cup {EmptyId}]
  /\ arrays = [a \in Defs \cup {Common} |-> [n \in 1..Capacity |-> OwnOption]]
  /\ declared \in [Defs -> [array : Defs \cup {Common}, len : 0..Capacity]]
  /\ \A d \in Defs : declared[d].array \in {d, Common}
  /\ adminOpts = declared
  /\ hasRulesInfo = [d \in Defs |-> FALSE]
  /\ checkers = [i \in Ids |-> None]
  /\ key \in [Providers -> Keys]
  /\ providers = [k \in Keys |-> None]
  /\ external = {}

-----------------------------------------------------------------------------
Known(d) == id[d] \in Ids /\ checkers[id[d]] # None

\* Mutant: a full array is taken for one with room for one more.
AppendPastEnd(d, o) ==
  LET s == adminOpts[d]
  IN /\ arrays' = [arrays EXCEPT ![s.array] = [@ EXCEPT ![s.len + 1] = o]]
     /\ adminOpts' = [adminOpts EXCEPT ![d].len = @ + 1]

\* append(c.Options.AdminOpts, ...), in place or into a new array.
AppendOption(d, o) ==
  LET s == adminOpts[d]
      inPlace == s.len < Len(arrays[s.array])
      target == IF inPlace THEN s.array ELSE d
  IN /\ arrays' = [arrays EXCEPT
                     ![target] = IF inPlace THEN [@ EXCEPT ![s.len + 1] = o]
                                            ELSE Append(Opts(d), o)]
     /\ adminOpts' = [adminOpts EXCEPT ![d] = [array |-> target, len |-> s.len + 1]]

\* Mutant: the last registration wins.
EnterLast(d) ==
  IF id[d] \in Ids
    THEN /\ hasRulesInfo' = [hasRulesInfo EXCEPT ![d] = TRUE]
         /\ checkers' = [checkers EXCEPT ![id[d]] = d]
    ELSE UNCHANGED <<hasRulesInfo, checkers>>

\* Mutant: the pointer is stored and its RulesInfo left to New.
EnterUnbuilt(d) ==
  IF id[d] \in Ids /\ ~Known(d)
    THEN checkers' = [checkers EXCEPT ![id[d]] = d] /\ UNCHANGED hasRulesInfo
    ELSE UNCHANGED <<hasRulesInfo, checkers>>

\* The body of RegisterChecker: an empty or known ID is refused; otherwise
\* RulesInfo is built and the pointer stored.
Enter(d) ==
  IF id[d] \in Ids /\ ~Known(d)
    THEN /\ hasRulesInfo' = [hasRulesInfo EXCEPT ![d] = TRUE]
         /\ checkers' = [checkers EXCEPT ![id[d]] = d]
    ELSE UNCHANGED <<hasRulesInfo, checkers>>

RegisterChecker(d) ==
  /\ Enter(d)
  /\ UNCHANGED <<id, adminOpts, arrays, key, providers, declared, external>>

\* Mutant: the duplicate check is left to RegisterChecker.
RegisterExternalizableUnchecked(d) ==
  /\ Len(Opts(d)) < MaxOpts
  /\ AppendOption(d, Endpoint(id[d]))
  /\ Enter(d)
  /\ external' = IF id[d] \in Ids /\ ~Known(d) THEN external \cup {d} ELSE external
  /\ UNCHANGED <<id, key, providers, declared>>

\* A known ID is refused; the "endpoint" option is appended, and only then is
\* the definition handed to RegisterChecker, which refuses the empty ID.
RegisterExternalizableChecker(d) ==
  /\ Len(Opts(d)) < MaxOpts
  /\ IF Known(d)
       THEN UNCHANGED <<adminOpts, arrays, hasRulesInfo, checkers, external>>
       ELSE /\ AppendOption(d, Endpoint(id[d]))
            /\ Enter(d)
            /\ external' = IF id[d] \in Ids THEN external \cup {d} ELSE external
  /\ UNCHANGED <<id, key, providers, declared>>

\* A known key is refused.
RegisterObservationProvider(p) ==
  /\ providers' = [providers EXCEPT ![key[p]] = IF @ = None THEN p ELSE @]
  /\ UNCHANGED <<defVars, checkers, key, declared, external>>

Next ==
  \/ \E d \in Defs : RegisterChecker(d) \/ RegisterExternalizableChecker(d)
  \/ \E p \in Providers : RegisterObservationProvider(p)

Spec == Init /\ [][Next]_vars

-----------------------------------------------------------------------------
(* Properties.                                                              *)

TypeOK ==
  /\ id \in [Defs -> Ids \cup {EmptyId}]
  /\ \A d \in Defs : /\ adminOpts[d].array \in {d, Common}
                     /\ adminOpts[d].len \in 0..Len(arrays[adminOpts[d].array])
  /\ declared \in [Defs -> [array : Defs \cup {Common}, len : 0..Capacity]]
  /\ hasRulesInfo \in [Defs -> BOOLEAN]
  /\ checkers \in [Ids -> Defs \cup {None}]
  /\ key \in [Providers -> Keys]
  /\ providers \in [Keys -> Providers \cup {None}]
  /\ external \subseteq Defs

\* The first registration under an ID or a key wins for ever, whichever of the
\* functions it and the later ones went through.
FirstWins ==
  [][/\ \A i \in Ids : checkers[i] # None => checkers'[i] = checkers[i]
     /\ \A k \in Keys : providers[k] # None => providers'[k] = providers[k]]_vars

\* Looking an ID up yields a definition that has this ID and whose RulesInfo
\* is built, and a key a provider of this key.
LookupIsSound ==
  /\ \A i \in Ids :
       checkers[i] # None => id[checkers[i]] = i /\ hasRulesInfo[checkers[i]]
  /\ \A k \in Keys : providers[k] # None => key[providers[k]] = k

\* The other definitions whose append may write position n of the array d was
\* declared with: their slices are of this array too and end before n.
Writers(d, n) ==
  {e \in Defs \ {d} : /\ declared[e].array = declared[d].array
                      /\ declared[e].len < n /\ n <= Capacity}

\* What position n of d's options may hold: the option d was declared with, or
\* its endpoint after those, or, where callers shared an array with room at n,
\* the endpoint of another definition that appended into it.
Offered(d, n) ==
  {IF n <= declared[d].len THEN OwnOption ELSE Endpoint(id[d])}
    \cup {Endpoint(id[e]) : e \in Writers(d, n)}

\* A definition accepted as externalizable has exactly one option more than it
\* was declared with, and one that was refused as a duplicate or registered
\* otherwise none, however often and in whatever order it was tried; that
\* option is its own endpoint and the others are as declared, except where
\* several definitions share the room behind their slices.
EndpointOnce ==
  \A d \in Defs :
    /\ id[d] \in Ids =>
         Len(Opts(d)) = declared[d].len + (IF d \in external THEN 1 ELSE 0)
    /\ \A n \in DOMAIN Opts(d) : Opts(d)[n] \in Offered(d, n)
=============================================================================
