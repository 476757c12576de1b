--------------------------- MODULE RegistryProofs ---------------------------
(***************************************************************************)
(* Theorems about Registry, for any definitions, IDs and providers, and    *)
(* for slices of any length and capacity, shared or not.                   *)
(***************************************************************************)
EXTENDS Registry, TLAPS

-----------------------------------------------------------------------------
(* The maps.                                                                *)

\* The parts of the state the two maps depend on.
Maps ==
  /\ id \in [Defs -> Ids \cup {EmptyId}]
  /\ checkers \in [Ids -> Defs \cup {None}]
  /\ key \in [Providers -> Keys]
  /\ providers \in [Keys -> Providers \cup {None}]

LEMMA MapsStep == Maps /\ [Next]_vars => Maps'
<1> SUFFICES ASSUME Maps, [Next]_vars PROVE Maps'
  OBVIOUS
<1> USE DEF Maps, Enter, Known, defVars
<1>1. ASSUME NEW d \in Defs, RegisterChecker(d) PROVE Maps'
  BY <1>1 DEF RegisterChecker
<1>2. ASSUME NEW d \in Defs, RegisterExternalizableChecker(d) PROVE Maps'
  BY <1>2 DEF RegisterExternalizableChecker
<1>3. ASSUME NEW p \in Providers, RegisterObservationProvider(p) PROVE Maps'
  BY <1>3 DEF RegisterObservationProvider
<1>4. CASE UNCHANGED vars
  BY <1>4 DEF vars
<1> QED
  BY <1>1, <1>2, <1>3, <1>4 DEF Next

LEMMA MapsStart == Init => Maps
BY DEF Init, Maps

\* A step adds to the maps and changes no entry.
LEMMA EntriesStay ==
  ASSUME Maps, [Next]_vars
  PROVE  /\ \A i \in Ids : checkers[i] # None => checkers'[i] = checkers[i]
         /\ \A k \in Keys : providers[k] # None => providers'[k] = providers[k]
<1> USE DEF Maps, Enter, Known, defVars
<1>1. ASSUME NEW d \in Defs, Enter(d)
      PROVE  \A i \in Ids : checkers[i] # None => checkers'[i] = checkers[i]
  BY <1>1
<1>2. ASSUME NEW d \in Defs, RegisterChecker(d) \/ RegisterExternalizableChecker(d)
      PROVE  (Enter(d) \/ checkers' = checkers) /\ providers' = providers
  BY <1>2 DEF RegisterChecker, RegisterExternalizableChecker
<1>3. ASSUME NEW p \in Providers, RegisterObservationProvider(p)
      PROVE  /\ checkers' = checkers
             /\ \A k \in Keys : providers[k] # None => providers'[k] = providers[k]
  BY <1>3 DEF RegisterObservationProvider
<1>4. CASE UNCHANGED vars
  BY <1>4 DEF vars
<1> HIDE DEF Enter
<1> QED
  BY <1>1, <1>2, <1>3, <1>4 DEF Next

\* The first registration under an ID or a key wins for ever, through whichever
\* functions and in whatever order the registrations come.
THEOREM FirstRegistrationWins == Spec => FirstWins
<1>1. Maps /\ [Next]_vars =>
        [/\ \A i \in Ids : checkers[i] # None => checkers'[i] = checkers[i]
         /\ \A k \in Keys : providers[k] # None => providers'[k] = providers[k]]_vars
  BY EntriesStay
<1> QED
  BY <1>1, MapsStart, MapsStep, PTL DEF Spec, FirstWins
-----------------------------------------------------------------------------
(* Looking up.                                                              *)

BuiltType == hasRulesInfo \in [Defs -> BOOLEAN]

\* What Enter does to the checkers' map: nothing, or a new, built entry.
LEMMA EntryIsBuilt ==
  ASSUME Maps, BuiltType, LookupIsSound, NEW d \in Defs, Enter(d)
  PROVE  /\ BuiltType'
         /\ \A i \in Ids : checkers'[i] # None => id[checkers'[i]] = i /\ hasRulesInfo'[checkers'[i]]
<1>1. CASE id[d] \in Ids /\ ~Known(d)
  <2>1. /\ hasRulesInfo' = [hasRulesInfo EXCEPT ![d] = TRUE]
        /\ checkers' = [checkers EXCEPT ![id[d]] = d]
    BY <1>1 DEF Enter
  <2>2. hasRulesInfo'[d] /\ \A e \in Defs : hasRulesInfo[e] => hasRulesInfo'[e]
    BY <2>1, Zenon DEF BuiltType
  <2>3. ASSUME NEW i \in Ids, checkers'[i] # None
        PROVE  \/ i = id[d] /\ checkers'[i] = d
               \/ checkers'[i] = checkers[i] /\ checkers[i] \in Defs
    BY <2>1, <2>3, <1>1 DEF Maps
  <2>4. \A i \in Ids : checkers'[i] # None => id[checkers'[i]] = i /\ hasRulesInfo'[checkers'[i]]
    BY <2>2, <2>3, Zenon DEF LookupIsSound
  <2>5. BuiltType'
    BY <2>1, Zenon DEF BuiltType
  <2> QED
    BY <2>4, <2>5
<1>2. CASE ~(id[d] \in Ids /\ ~Known(d))
  BY <1>2, Zenon DEF Enter, BuiltType, LookupIsSound
<1> QED
  BY <1>1, <1>2

LEMMA LookupStep ==
  Maps /\ BuiltType /\ LookupIsSound /\ [Next]_vars => BuiltType' /\ LookupIsSound'
<1> SUFFICES ASSUME Maps, BuiltType, LookupIsSound, [Next]_vars
             PROVE  BuiltType' /\ LookupIsSound'
  OBVIOUS
<1>1. ASSUME NEW d \in Defs, Enter(d), UNCHANGED <<id, key, providers>>
      PROVE  BuiltType' /\ LookupIsSound'
  BY <1>1, EntryIsBuilt, Zenon DEF LookupIsSound
<1>2. ASSUME UNCHANGED <<id, hasRulesInfo, checkers>>, UNCHANGED <<key, providers>>
      PROVE  BuiltType' /\ LookupIsSound'
  BY <1>2, Zenon DEF LookupIsSound, BuiltType
<1>3. ASSUME NEW d \in Defs, RegisterChecker(d) PROVE BuiltType' /\ LookupIsSound'
  BY <1>1, <1>3, Zenon DEF RegisterChecker
<1>4. ASSUME NEW d \in Defs, RegisterExternalizableChecker(d)
      PROVE  BuiltType' /\ LookupIsSound'
  BY <1>1, <1>2, <1>4, Zenon DEF RegisterExternalizableChecker
<1>5. ASSUME NEW p \in Providers, RegisterObservationProvider(p)
      PROVE  BuiltType' /\ LookupIsSound'
  <2>1. UNCHANGED <<id, hasRulesInfo, checkers, key>>
    BY <1>5, Zenon DEF RegisterObservationProvider, defVars
  <2>2. \A k \in Keys : providers'[k] # None => key[providers'[k]] = k
    BY <1>5 DEF RegisterObservationProvider, LookupIsSound, Maps
  <2> QED
    BY <2>1, <2>2, Zenon DEF LookupIsSound, BuiltType
<1>6. CASE UNCHANGED vars
  BY <1>2, <1>6, Zenon DEF vars, defVars
<1> QED
  BY <1>3, <1>4, <1>5, <1>6, Zenon DEF Next

\* Looking an ID up yields a definition with this ID and its RulesInfo built;
\* looking a key up, a provider of this key.
THEOREM LookupsAreSound == Spec => []LookupIsSound
<1>1. Init => BuiltType /\ LookupIsSound
  <2>1. Init => BuiltType
    BY Zenon DEF Init, BuiltType
  <2>2. Init => (\A i \in Ids : checkers[i] = None) /\ (\A k \in Keys : providers[k] = None)
    BY DEF Init
  <2> QED
    BY <2>1, <2>2, Zenon DEF LookupIsSound
<1> QED
  BY <1>1, MapsStart, MapsStep, LookupStep, PTL DEF Spec

-----------------------------------------------------------------------------
(* Option slices, whatever their spare capacity.                            *)

AnyOption == {OwnOption} \cup {Endpoint(i) : i \in Ids \cup {EmptyId}}

\* A slice is of the definition's own array or of the common one, and ends
\* within it.
Within ==
  /\ adminOpts \in [Defs -> [array : Defs \cup {Common}, len : Nat]]
  /\ arrays \in [Defs \cup {Common} -> Seq(AnyOption)]
  /\ \A d \in Defs : /\ adminOpts[d].array \in {d, Common}
                     /\ adminOpts[d].len <= Len(arrays[adminOpts[d].array])

\* An append, in place or not, takes no slice out of its array.
LEMMA AppendStaysWithin ==
  ASSUME Within, NEW d \in Defs, NEW o \in AnyOption, AppendOption(d, o)
  PROVE  Within'
<1> USE DEF Within
<1> DEFINE a == adminOpts[d].array
           l == adminOpts[d].len
<1>1. /\ a \in {d, Common} /\ l \in Nat /\ l <= Len(arrays[a])
      /\ arrays[a] \in Seq(AnyOption) /\ Len(arrays[a]) \in Nat /\ d # Common
  BY CommonIsNoDef DEF Common
<1>2. CASE l < Len(arrays[a])
  <2> DEFINE longer == [arrays[a] EXCEPT ![l + 1] = o]
  <2>1. /\ arrays' = [arrays EXCEPT ![a] = longer]
        /\ adminOpts' = [adminOpts EXCEPT ![d] = [array |-> a, len |-> l + 1]]
    BY <1>2 DEF AppendOption
  <2>2. longer \in Seq(AnyOption) /\ Len(longer) = Len(arrays[a])
    <3> DEFINE old == arrays[a]
               n == Len(old)
    <3>1. old \in [1..n -> AnyOption] /\ n \in Nat
      BY <1>1
    <3> HIDE DEF old, n
    <3>2. [old EXCEPT ![l + 1] = o] \in [1..n -> AnyOption]
      BY <3>1
    <3>3. [old EXCEPT ![l + 1] = o] \in Seq(AnyOption) /\ Len([old EXCEPT ![l + 1] = o]) = n
      BY <3>1, <3>2
    <3> QED
      BY <3>3 DEF old, n
  <2> HIDE DEF longer
  <2>3. /\ arrays' \in [Defs \cup {Common} -> Seq(AnyOption)]
        /\ \A b \in Defs \cup {Common} : Len(arrays'[b]) = Len(arrays[b])
    BY <1>1, <2>1, <2>2
  <2>4. /\ adminOpts' \in [Defs -> [array : Defs \cup {Common}, len : Nat]]
        /\ adminOpts'[d].array = a /\ adminOpts'[d].len = l + 1
        /\ \A e \in Defs \ {d} : adminOpts'[e] = adminOpts[e]
    BY <1>1, <2>1
  <2>5. ASSUME NEW e \in Defs
        PROVE  /\ adminOpts'[e].array \in {e, Common}
               /\ adminOpts'[e].len <= Len(arrays'[adminOpts'[e].array])
    <3>1. CASE e = d
      BY <1>1, <1>2, <2>3, <2>4, <3>1
    <3>2. CASE e # d
      BY <2>3, <2>4, <3>2
    <3> QED
      BY <3>1, <3>2
  <2> QED
    BY <2>3, <2>4, <2>5
<1>3. CASE ~(l < Len(arrays[a]))
  <2> DEFINE longer == Append(Opts(d), o)
  <2>1. /\ arrays' = [arrays EXCEPT ![d] = longer]
        /\ adminOpts' = [adminOpts EXCEPT ![d] = [array |-> d, len |-> l + 1]]
    BY <1>3 DEF AppendOption
  <2>2. longer \in Seq(AnyOption) /\ Len(longer) = l + 1
    <3>1. Opts(d) \in Seq(AnyOption) /\ Len(Opts(d)) = l
      BY <1>1 DEF Opts
    <3> QED
      BY <3>1
  <2> HIDE DEF longer
  <2>3. /\ arrays' \in [Defs \cup {Common} -> Seq(AnyOption)]
        /\ arrays'[d] = longer
        /\ \A b \in (Defs \cup {Common}) \ {d} : arrays'[b] = arrays[b]
    BY <2>1, <2>2
  <2>4. /\ adminOpts' \in [Defs -> [array : Defs \cup {Common}, len : Nat]]
        /\ adminOpts'[d].array = d /\ adminOpts'[d].len = l + 1
        /\ \A e \in Defs \ {d} : adminOpts'[e] = adminOpts[e]
    BY <1>1, <2>1
  <2>5. ASSUME NEW e \in Defs
        PROVE  /\ adminOpts'[e].array \in {e, Common}
               /\ adminOpts'[e].len <= Len(arrays'[adminOpts'[e].array])
    <3>1. CASE e = d
      BY <1>1, <2>2, <2>3, <2>4, <3>1
    <3>2. CASE e # d
      <4>1. adminOpts[e].array \in (Defs \cup {Common}) \ {d}
        BY <1>1, <3>2
      <4> QED
        BY <2>3, <2>4, <3>2, <4>1
    <3> QED
      BY <3>1, <3>2
  <2> QED
    BY <2>3, <2>4, <2>5
<1> QED
  BY <1>2, <1>3

LEMMA WithinStart == Init => Within
<1> SUFFICES ASSUME Init PROVE Within
  OBVIOUS
<1> DEFINE full == [n \in 1..Capacity |-> OwnOption]
<1>1. full \in Seq(AnyOption) /\ Len(full) = Capacity
  BY SizesAreNat DEF AnyOption
<1>2. arrays = [a \in Defs \cup {Common} |-> full]
  BY DEF Init
<1> HIDE DEF full
<1>3. /\ adminOpts \in [Defs -> [array : Defs \cup {Common}, len : 0..Capacity]]
      /\ \A d \in Defs : adminOpts[d].array \in {d, Common}
  BY DEF Init
<1>4. arrays \in [Defs \cup {Common} -> Seq(AnyOption)]
  BY <1>1, <1>2
<1>5. adminOpts \in [Defs -> [array : Defs \cup {Common}, len : Nat]]
  BY <1>3, SizesAreNat
<1>6. ASSUME NEW d \in Defs PROVE adminOpts[d].len <= Len(arrays[adminOpts[d].array])
  <2>1. adminOpts[d].len \in 0..Capacity /\ adminOpts[d].array \in Defs \cup {Common}
    BY <1>3
  <2>2. arrays[adminOpts[d].array] = full
    BY <1>2, <2>1
  <2> QED
    BY <1>1, <2>1, <2>2, SizesAreNat
<1> QED
  BY <1>3, <1>4, <1>5, <1>6 DEF Within

LEMMA WithinStep == Maps /\ Within /\ [Next]_vars => Within'
<1> SUFFICES ASSUME Maps, Within, [Next]_vars PROVE Within'
  OBVIOUS
<1>1. ASSUME UNCHANGED <<adminOpts, arrays>> PROVE Within'
  BY <1>1 DEF Within
<1>2. ASSUME NEW d \in Defs, RegisterChecker(d) PROVE Within'
  BY <1>1, <1>2 DEF RegisterChecker
<1>3. ASSUME NEW d \in Defs, RegisterExternalizableChecker(d) PROVE Within'
  <2>1. Endpoint(id[d]) \in AnyOption
    BY DEF Maps, AnyOption
  <2>2. AppendOption(d, Endpoint(id[d])) \/ UNCHANGED <<adminOpts, arrays>>
    BY <1>3 DEF RegisterExternalizableChecker
  <2> QED
    BY <1>1, <2>1, <2>2, AppendStaysWithin
<1>4. ASSUME NEW p \in Providers, RegisterObservationProvider(p) PROVE Within'
  BY <1>1, <1>4 DEF RegisterObservationProvider, defVars
<1>5. CASE UNCHANGED vars
  BY <1>1, <1>5 DEF vars, defVars
<1> QED
  BY <1>2, <1>3, <1>4, <1>5 DEF Next

Declared == declared \in [Defs -> [array : Defs \cup {Common}, len : 0..Capacity]]

\* No option slice ever reaches past its array, nor into one of another
\* definition, and the maps hold what they are declared to hold: for any length
\* and capacity of the slices callers pass.
THEOREM TypeCorrect == Spec => []TypeOK
<1>1. Init => BuiltType /\ external \subseteq Defs /\ Declared
  BY Zenon DEF Init, BuiltType, Declared
<1>2. Maps /\ BuiltType /\ external \subseteq Defs /\ Declared /\ [Next]_vars =>
        BuiltType' /\ (external \subseteq Defs)' /\ Declared'
  <2> SUFFICES ASSUME Maps, BuiltType, external \subseteq Defs, Declared, [Next]_vars
               PROVE  BuiltType' /\ external' \subseteq Defs /\ Declared'
    OBVIOUS
  <2>1. ASSUME NEW d \in Defs, Enter(d) PROVE BuiltType'
    BY <2>1, Zenon DEF Enter, BuiltType
  <2>2. ASSUME NEW d \in Defs, RegisterChecker(d)
        PROVE  BuiltType' /\ external' \subseteq Defs /\ Declared'
    BY <2>1, <2>2, Zenon DEF RegisterChecker, Declared
  <2>3. ASSUME NEW d \in Defs, RegisterExternalizableChecker(d)
        PROVE  BuiltType' /\ external' \subseteq Defs /\ Declared'
    BY <2>1, <2>3, Zenon DEF RegisterExternalizableChecker, BuiltType, Declared
  <2>4. ASSUME NEW p \in Providers, RegisterObservationProvider(p)
        PROVE  BuiltType' /\ external' \subseteq Defs /\ Declared'
    BY <2>4, Zenon DEF RegisterObservationProvider, defVars, BuiltType, Declared
  <2>5. CASE UNCHANGED vars
    BY <2>5, Zenon DEF vars, defVars, BuiltType, Declared
  <2> QED
    BY <2>2, <2>3, <2>4, <2>5, Zenon DEF Next
<1>3. Within => \A d \in Defs : /\ adminOpts[d].array \in {d, Common}
                                /\ adminOpts[d].len \in 0..Len(arrays[adminOpts[d].array])
  <2> SUFFICES ASSUME Within, NEW d \in Defs
               PROVE  /\ adminOpts[d].array \in {d, Common}
                      /\ adminOpts[d].len \in 0..Len(arrays[adminOpts[d].array])
    OBVIOUS
  <2>1. /\ adminOpts[d].array \in {d, Common} /\ adminOpts[d].len \in Nat
        /\ adminOpts[d].len <= Len(arrays[adminOpts[d].array])
    BY DEF Within
  <2>2. Len(arrays[adminOpts[d].array]) \in Nat
    BY <2>1 DEF Within
  <2> QED
    BY <2>1, <2>2
<1>4. Maps /\ Within /\ BuiltType /\ external \subseteq Defs /\ Declared => TypeOK
  BY <1>3, Zenon DEF Maps, BuiltType, Declared, TypeOK
<1> QED
  BY <1>1, <1>2, <1>4, MapsStart, MapsStep, WithinStart, WithinStep, PTL DEF Spec

-----------------------------------------------------------------------------
(* What the options are.                                                    *)

\* What an append writes: its option behind the slice of its own definition,
\* and, if that is of the common array, perhaps into the slice of another.
LEMMA AppendWrites ==
  ASSUME Within, NEW d \in Defs, NEW o \in AnyOption, AppendOption(d, o)
  PROVE  /\ adminOpts'[d].len = adminOpts[d].len + 1
         /\ adminOpts'[d].array \in {d, adminOpts[d].array}
         /\ arrays'[adminOpts'[d].array][adminOpts[d].len + 1] = o
         /\ \A n \in 1..adminOpts[d].len :
              arrays'[adminOpts'[d].array][n] = arrays[adminOpts[d].array][n]
         /\ Len(arrays'[Common]) = Len(arrays[Common])
         /\ \A e \in Defs \ {d} :
              /\ adminOpts'[e] = adminOpts[e]
              /\ \A n \in 1..adminOpts[e].len :
                   \/ arrays'[adminOpts[e].array][n] = arrays[adminOpts[e].array][n]
                   \/ /\ arrays'[adminOpts[e].array][n] = o
                      /\ adminOpts[d].array = Common /\ adminOpts[e].array = Common
                      /\ n = adminOpts[d].len + 1
<1> USE DEF Within
<1> DEFINE a == adminOpts[d].array
           l == adminOpts[d].len
<1>1. /\ a \in {d, Common} /\ l \in Nat /\ l <= Len(arrays[a])
      /\ arrays[a] \in Seq(AnyOption) /\ Len(arrays[a]) \in Nat /\ d # Common
      /\ Common \notin Defs
  BY CommonIsNoDef DEF Common
<1>2. CASE l < Len(arrays[a])
  <2> DEFINE longer == [arrays[a] EXCEPT ![l + 1] = o]
  <2>1. /\ arrays' = [arrays EXCEPT ![a] = longer]
        /\ adminOpts' = [adminOpts EXCEPT ![d] = [array |-> a, len |-> l + 1]]
    BY <1>2 DEF AppendOption
  <2>2. /\ longer[l + 1] = o
        /\ \A n \in 1..Len(arrays[a]) : longer[n] = arrays[a][n] \/ (n = l + 1 /\ longer[n] = o)
        /\ \A n \in 1..l : longer[n] = arrays[a][n]
        /\ Len(longer) = Len(arrays[a])
    <3> DEFINE old == arrays[a]
    <3>1. /\ old \in Seq(AnyOption) /\ l \in Nat /\ l + 1 \in 1..Len(old)
          /\ longer = [old EXCEPT ![l + 1] = o]
      BY <1>1, <1>2
    <3> HIDE DEF old, longer, l
    <3>2. old = [n \in 1..Len(old) |-> old[n]]
      BY <3>1
    <3>3. longer = [n \in 1..Len(old) |-> IF n = l + 1 THEN o ELSE old[n]]
      BY <3>1, <3>2
    <3>4. Len(longer) = Len(old)
      BY <3>1, <3>3
    <3>5. /\ longer[l + 1] = o
          /\ \A n \in 1..Len(old) : longer[n] = old[n] \/ (n = l + 1 /\ longer[n] = o)
      BY <3>1, <3>3
    <3>6. \A n \in 1..l : longer[n] = old[n]
      BY <3>1, <3>3
    <3>7. \A n \in 1..Len(old) : longer[n] = old[n] \/ (n = l + 1 /\ longer[n] = o)
      BY <3>5
    <3> QED
      BY <3>4, <3>5, <3>6, <3>7 DEF old
  <2> HIDE DEF longer
  <2>3. /\ arrays'[a] = longer
        /\ \A b \in (Defs \cup {Common}) \ {a} : arrays'[b] = arrays[b]
        /\ adminOpts'[d].array = a /\ adminOpts'[d].len = l + 1
        /\ \A e \in Defs \ {d} : adminOpts'[e] = adminOpts[e]
    BY <1>1, <2>1
  <2>4. ASSUME NEW e \in Defs \ {d}, NEW n \in 1..adminOpts[e].len
        PROVE  \/ arrays'[adminOpts[e].array][n] = arrays[adminOpts[e].array][n]
               \/ /\ arrays'[adminOpts[e].array][n] = o
                  /\ a = Common /\ adminOpts[e].array = Common /\ n = l + 1
    <3>1. CASE adminOpts[e].array = a
      <4>1. a = Common
        BY <1>1, <3>1
      <4>2. n \in 1..Len(arrays[a])
        BY <1>1, <3>1
      <4> QED
        BY <2>2, <2>3, <3>1, <4>1, <4>2
    <3>2. CASE adminOpts[e].array # a
      BY <2>3, <3>2
    <3> QED
      BY <3>1, <3>2
  <2>5. Len(arrays'[Common]) = Len(arrays[Common])
    BY <1>1, <2>2, <2>3
  <2> QED
    BY <2>2, <2>3, <2>4, <2>5
<1>3. CASE ~(l < Len(arrays[a]))
  <2> DEFINE longer == Append(Opts(d), o)
  <2>1. /\ arrays' = [arrays EXCEPT ![d] = longer]
        /\ adminOpts' = [adminOpts EXCEPT ![d] = [array |-> d, len |-> l + 1]]
    BY <1>3 DEF AppendOption
  <2>2. longer[l + 1] = o /\ \A n \in 1..l : longer[n] = arrays[a][n]
    <3>1. Opts(d) \in Seq(AnyOption) /\ Len(Opts(d)) = l /\ \A n \in 1..l : Opts(d)[n] = arrays[a][n]
      BY <1>1 DEF Opts
    <3> HIDE DEF l, a
    <3> QED
      BY <3>1
  <2> HIDE DEF longer
  <2>3. /\ arrays'[d] = longer
        /\ \A b \in (Defs \cup {Common}) \ {d} : arrays'[b] = arrays[b]
        /\ adminOpts'[d].array = d /\ adminOpts'[d].len = l + 1
        /\ \A e \in Defs \ {d} : adminOpts'[e] = adminOpts[e]
    BY <1>1, <2>1
  <2>4. \A e \in Defs \ {d} : arrays'[adminOpts[e].array] = arrays[adminOpts[e].array]
    BY <1>1, <2>3
  <2>5. Len(arrays'[Common]) = Len(arrays[Common])
    BY <1>1, <2>3
  <2> QED
    BY <2>2, <2>3, <2>4, <2>5
<1> QED
  BY <1>2, <1>3

\* What is left of how a definition was declared: a slice is of the common
\* array only if it was from the beginning, and it only grows.
Grown ==
  /\ Declared
  /\ Len(arrays[Common]) = Capacity
  /\ \A d \in Defs : /\ adminOpts[d].array = Common => declared[d].array = Common
                     /\ declared[d].len <= adminOpts[d].len

Contents ==
  \A d \in Defs : \A n \in 1..adminOpts[d].len :
    arrays[adminOpts[d].array][n] \in Offered(d, n)

Counted ==
  \A d \in Defs :
    /\ d \in external => Known(d)
    /\ id[d] \in Ids => adminOpts[d].len = declared[d].len + (IF d \in external THEN 1 ELSE 0)

OptionsInv == Maps /\ Within /\ external \subseteq Defs /\ Grown /\ Contents /\ Counted

\* An append keeps the options what they may be.
LEMMA AppendKeepsContents ==
  ASSUME Maps, Within, Grown, Contents, id' = id, declared' = declared,
         NEW d \in Defs, AppendOption(d, Endpoint(id[d]))
  PROVE  Grown' /\ Contents'
<1> DEFINE o == Endpoint(id[d])
           l == adminOpts[d].len
<1>1. o \in AnyOption
  BY DEF AnyOption, Maps
<1>2. /\ adminOpts'[d].len = l + 1
      /\ adminOpts'[d].array \in {d, adminOpts[d].array}
      /\ arrays'[adminOpts'[d].array][l + 1] = o
      /\ \A n \in 1..l : arrays'[adminOpts'[d].array][n] = arrays[adminOpts[d].array][n]
      /\ Len(arrays'[Common]) = Len(arrays[Common])
      /\ \A e \in Defs \ {d} :
           /\ adminOpts'[e] = adminOpts[e]
           /\ \A n \in 1..adminOpts[e].len :
                \/ arrays'[adminOpts[e].array][n] = arrays[adminOpts[e].array][n]
                \/ /\ arrays'[adminOpts[e].array][n] = o
                   /\ adminOpts[d].array = Common /\ adminOpts[e].array = Common
                   /\ n = l + 1
  BY <1>1, AppendWrites
<1>3. /\ l \in Nat /\ declared[d].len \in Nat /\ declared[d].len <= l
      /\ d # Common
  BY SizesAreNat, CommonIsNoDef DEF Within, Grown, Declared, Common
<1>4. Grown'
  <2>1. ASSUME NEW e \in Defs
        PROVE  /\ adminOpts'[e].array = Common => declared[e].array = Common
               /\ declared[e].len <= adminOpts'[e].len
    <3>1. CASE e = d
      BY <1>2, <1>3, <3>1 DEF Grown, Declared
    <3>2. CASE e # d
      BY <1>2, <3>2 DEF Grown, Declared
    <3> QED
      BY <3>1, <3>2
  <2> QED
    BY <1>2, <2>1 DEF Grown, Declared
<1>5. \A e \in Defs, n \in Nat : Offered(e, n)' = Offered(e, n)
  BY DEF Offered, Writers
<1>6. ASSUME NEW e \in Defs, NEW n \in 1..adminOpts'[e].len
      PROVE  arrays'[adminOpts'[e].array][n] \in Offered(e, n)
  <2>1. CASE e = d
    <3>1. CASE n = l + 1
      <4>1. ~(n <= declared[d].len)
        BY <1>3, <3>1
      <4>2. o \in Offered(d, n)
        BY <4>1 DEF Offered
      <4> QED
        BY <1>2, <2>1, <3>1, <4>2
    <3>2. CASE n # l + 1
      <4>1. n \in 1..l
        BY <1>2, <1>3, <2>1, <3>2
      <4> QED
        BY <1>2, <2>1, <4>1 DEF Contents
    <3> QED
      BY <3>1, <3>2
  <2>2. CASE e # d
    <3>1. adminOpts'[e] = adminOpts[e] /\ n \in 1..adminOpts[e].len
      BY <1>2, <2>2
    <3>2. CASE arrays'[adminOpts[e].array][n] = arrays[adminOpts[e].array][n]
      BY <3>1, <3>2 DEF Contents
    <3>3. CASE /\ arrays'[adminOpts[e].array][n] = o
               /\ adminOpts[d].array = Common /\ adminOpts[e].array = Common
               /\ n = l + 1
      <4>1. n <= Capacity
        BY <3>1, <3>3, SizesAreNat DEF Within, Grown, Declared
      <4>2. declared[d].array = declared[e].array /\ declared[d].len < n
        BY <1>3, <3>3 DEF Grown, Declared
      <4>3. d \in Writers(e, n)
        BY <2>2, <4>1, <4>2 DEF Writers
      <4>4. o \in Offered(e, n)
        BY <4>3 DEF Offered
      <4> QED
        BY <3>1, <3>3, <4>4
    <3> QED
      BY <1>2, <2>2, <3>1, <3>2, <3>3
  <2> QED
    BY <2>1, <2>2
<1>7. \A e \in Defs : \A n \in 1..adminOpts'[e].len : n \in Nat
  OBVIOUS
<1>8. Contents'
  BY <1>5, <1>6, <1>7 DEF Contents
<1> QED
  BY <1>4, <1>8

\* Registering an unknown definition as externalizable.
LEMMA AcceptedIsCounted ==
  ASSUME OptionsInv, NEW d \in Defs, RegisterExternalizableChecker(d), ~Known(d)
  PROVE  Grown' /\ Contents' /\ Counted' /\ external' \subseteq Defs
<1> USE DEF OptionsInv
<1>1. /\ AppendOption(d, Endpoint(id[d]))
      /\ Enter(d)
      /\ external' = IF id[d] \in Ids THEN external \cup {d} ELSE external
      /\ id' = id /\ declared' = declared
  BY DEF RegisterExternalizableChecker
<1>2. Grown' /\ Contents'
  BY <1>1, AppendKeepsContents
<1>3. /\ adminOpts'[d].len = adminOpts[d].len + 1
      /\ \A e \in Defs \ {d} : adminOpts'[e] = adminOpts[e]
  <2>1. Endpoint(id[d]) \in AnyOption
    BY DEF AnyOption, Maps
  <2> QED
    BY <1>1, <2>1, AppendWrites
<1>4. \A e \in Defs : Known(e) => Known(e)'
  BY <1>1 DEF Enter, Known, Maps
<1>5. id[d] \in Ids => Known(d)'
  BY <1>1, NoneIsNoEntry DEF Enter, Known, Maps
<1>6. d \notin external
  BY DEF Counted
<1>7. ASSUME NEW e \in Defs
      PROVE  /\ e \in external' => Known(e)'
             /\ id[e] \in Ids =>
                  adminOpts'[e].len = declared[e].len + (IF e \in external' THEN 1 ELSE 0)
  <2>1. CASE e = d
    <3>1. id[d] \in Ids => adminOpts[d].len = declared[d].len /\ d \in external'
      <4>1. declared[d].len \in Nat
        BY SizesAreNat DEF Grown, Declared
      <4> QED
        BY <1>1, <1>6, <4>1 DEF Counted
    <3>2. d \in external' => id[d] \in Ids
      BY <1>1, <1>6
    <3>3. id[d] \in Ids => adminOpts'[d].len = declared[d].len + 1
      BY <1>3, <3>1
    <3> QED
      BY <2>1, <1>5, <3>1, <3>2, <3>3, Zenon
  <2>2. CASE e # d
    <3>1. (e \in external' <=> e \in external) /\ adminOpts'[e] = adminOpts[e]
      BY <1>1, <1>3, <2>2
    <3> QED
      BY <1>4, <3>1, Zenon DEF Counted
  <2> QED
    BY <2>1, <2>2
<1>8. Counted'
  BY <1>1, <1>7, Zenon DEF Counted
<1>9. external' \subseteq Defs
  BY <1>1
<1> QED
  BY <1>2, <1>8, <1>9

\* A step that leaves every slice alone.
LEMMA OptionsStay ==
  ASSUME OptionsInv, UNCHANGED <<id, adminOpts, arrays, declared, external>>,
         \A d \in Defs : Known(d) => Known(d)'
  PROVE  Grown' /\ Contents' /\ Counted' /\ external' \subseteq Defs
<1>1. Grown'
  BY Zenon DEF OptionsInv, Grown, Declared
<1>2. Contents'
  <2>1. \A d \in Defs, n \in Nat : Offered(d, n)' = Offered(d, n)
    BY Zenon DEF Offered, Writers
  <2>2. \A d \in Defs : \A n \in 1..adminOpts[d].len : n \in Nat
    OBVIOUS
  <2> QED
    BY <2>1, <2>2, Zenon DEF OptionsInv, Contents
<1>3. Counted' /\ external' \subseteq Defs
  BY Zenon DEF OptionsInv, Counted
<1> QED
  BY <1>1, <1>2, <1>3

LEMMA OptionsStep == OptionsInv /\ [Next]_vars => OptionsInv'
<1> SUFFICES ASSUME OptionsInv, [Next]_vars PROVE OptionsInv'
  OBVIOUS
<1>1. Maps' /\ Within'
  BY MapsStep, WithinStep DEF OptionsInv
<1>2. ASSUME NEW d \in Defs, Enter(d), id' = id
      PROVE  \A e \in Defs : Known(e) => Known(e)'
  BY <1>2 DEF Enter, Known, OptionsInv, Maps
<1> DEFINE Kept == Grown' /\ Contents' /\ Counted' /\ external' \subseteq Defs
<1>3. ASSUME NEW d \in Defs, RegisterChecker(d) PROVE Kept
  <2>1. Enter(d) /\ UNCHANGED <<id, adminOpts, arrays, declared, external>>
    BY <1>3 DEF RegisterChecker
  <2> QED
    BY <1>2, <2>1, OptionsStay
<1>4. ASSUME NEW d \in Defs, RegisterExternalizableChecker(d), Known(d) PROVE Kept
  <2>1. UNCHANGED <<id, adminOpts, arrays, checkers, declared, external>>
    BY <1>4 DEF RegisterExternalizableChecker
  <2> QED
    BY <2>1, OptionsStay DEF Known
<1>5. ASSUME NEW d \in Defs, RegisterExternalizableChecker(d), ~Known(d) PROVE Kept
  BY <1>5, AcceptedIsCounted
<1>6. ASSUME NEW p \in Providers, RegisterObservationProvider(p) PROVE Kept
  <2>1. UNCHANGED <<id, adminOpts, arrays, checkers, declared, external>>
    BY <1>6 DEF RegisterObservationProvider, defVars
  <2> QED
    BY <2>1, OptionsStay DEF Known
<1>7. CASE UNCHANGED vars
  <2>1. UNCHANGED <<id, adminOpts, arrays, checkers, declared, external>>
    BY <1>7 DEF vars, defVars
  <2>2. Kept
    BY <2>1, OptionsStay DEF Known
  <2> QED
    BY <1>1, <2>2, Zenon DEF OptionsInv
<1> QED
  BY <1>1, <1>3, <1>4, <1>5, <1>6, <1>7, Zenon DEF OptionsInv, Next

LEMMA OptionsStart == Init => OptionsInv
<1> SUFFICES ASSUME Init PROVE OptionsInv
  OBVIOUS
<1>1. /\ declared \in [Defs -> [array : Defs \cup {Common}, len : 0..Capacity]]
      /\ adminOpts = declared
      /\ arrays = [a \in Defs \cup {Common} |-> [n \in 1..Capacity |-> OwnOption]]
      /\ external = {}
  BY DEF Init
<1>2. Grown
  <2>1. Len(arrays[Common]) = Capacity
    BY <1>1, SizesAreNat
  <2>2. \A d \in Defs : declared[d].len \in Nat
    BY <1>1, SizesAreNat
  <2>3. \A d \in Defs : /\ adminOpts[d].array = Common => declared[d].array = Common
                       /\ declared[d].len <= adminOpts[d].len
    <3>1. ASSUME NEW n \in Nat PROVE n <= n
      OBVIOUS
    <3> QED
      BY <1>1, <2>2, <3>1, Zenon
  <2> QED
    BY <1>1, <2>1, <2>3 DEF Grown, Declared
<1>3. ASSUME NEW d \in Defs, NEW n \in 1..adminOpts[d].len
      PROVE  arrays[adminOpts[d].array][n] \in Offered(d, n)
  <2>1. n <= declared[d].len /\ n \in 1..Capacity
    BY <1>1, SizesAreNat
  <2>2. arrays[adminOpts[d].array][n] = OwnOption
    BY <1>1, <2>1
  <2> QED
    BY <2>1, <2>2 DEF Offered
<1>4. Counted
  <2>1. \A d \in Defs : declared[d].len \in Nat
    BY <1>1, SizesAreNat
  <2>2. \A d \in Defs : d \notin external /\ adminOpts[d].len = declared[d].len + 0
    <3>1. ASSUME NEW n \in Nat PROVE n = n + 0
      OBVIOUS
    <3> QED
      BY <1>1, <2>1, <3>1, Zenon
  <2> QED
    BY <2>2, Zenon DEF Counted
<1> QED
  BY MapsStart, WithinStart, <1>1, <1>2, <1>3, <1>4 DEF OptionsInv, Contents

\* A definition accepted as externalizable offers one option more than it was
\* declared with, its own endpoint behind its own options, and any other none,
\* however many registrations were tried and refused; only in the room several
\* definitions share behind their slices may one find the endpoint of another.
THEOREM EndpointIsOfferedOnce == Spec => []EndpointOnce
<1>1. OptionsInv => EndpointOnce
  <2> SUFFICES ASSUME OptionsInv, NEW d \in Defs
               PROVE  /\ id[d] \in Ids =>
                           Len(Opts(d)) = declared[d].len + (IF d \in external THEN 1 ELSE 0)
                      /\ \A n \in DOMAIN Opts(d) : Opts(d)[n] \in Offered(d, n)
    BY DEF EndpointOnce
  <2> DEFINE l == adminOpts[d].len
             held == arrays[adminOpts[d].array]
  <2>1. held \in Seq(AnyOption) /\ l \in Nat /\ l <= Len(held)
    BY DEF OptionsInv, Within
  <2>2. Opts(d) = SubSeq(held, 1, l)
    BY DEF Opts
  <2>3. /\ Len(Opts(d)) = l /\ DOMAIN Opts(d) = 1..l
        /\ \A n \in 1..l : Opts(d)[n] = held[n]
    <3> HIDE DEF held, l
    <3> QED
      BY <2>1, <2>2
  <2>4. \A n \in DOMAIN Opts(d) : Opts(d)[n] \in Offered(d, n)
    BY <2>3 DEF OptionsInv, Contents
  <2> QED
    BY <2>3, <2>4 DEF OptionsInv, Counted
<1> QED
  BY <1>1, OptionsStart, OptionsStep, PTL DEF Spec
=============================================================================
