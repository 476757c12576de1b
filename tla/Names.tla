------------------------------- MODULE Names --------------------------------
(***************************************************************************)
(* JoinRelative (checker/names.go): names relative to an origin made       *)
(* absolute, again and again, as an encoding that was resolved once may be *)
(* handed to it a second time, with or without its trailing dot.  The code *)
(* compares characters where names are made of labels, so a name is a      *)
(* sequence of characters here, and Labels is what they stand for.         *)
(***************************************************************************)
EXTENDS Integers, SequencesExt

CONSTANTS
  LabelCharacters,   \* those of labels
  MaxLength     \* bound: characters of a name

ASSUME LengthIsNat == MaxLength \in Nat

Dot == <<".">>
At == <<"@">>

\* The labels of a name: its characters, cut at the dots.
Extended(labels, c) ==
  IF c = "." THEN Append(labels, <<>>)
  ELSE [labels EXCEPT ![Len(labels)] = Append(@, c)]
Labels(s) ==
  LET upTo[n \in 0..Len(s)] ==
        IF n = 0 THEN <<<<>>>> ELSE Extended(upTo[n - 1], s[n])
  IN upTo[Len(s)]

\* strings.TrimSuffix(s, ".")
Trim(s) == IF IsSuffix(Dot, s) THEN Front(s) ELSE s

\* Names as they are found in zones: no empty label, and at most one trailing
\* dot; "" and "." included.
WellFormed(s) == Trim(s) = <<>> \/ <<>> \notin Range(Labels(Trim(s)))

NameSet ==
  {At} \cup {s \in UNION {[1..n -> LabelCharacters \cup {"."}] : n \in 0..MaxLength} :
               WellFormed(s)}

-----------------------------------------------------------------------------
\* Mutant: the suffix is looked for without its dot.
JoinRelativeUndotted(name, origin) ==
  LET o == Trim(origin)
      n == Trim(name)
  IN CASE o = <<>> -> n
       [] o # <<>> /\ (n = <<>> \/ n = At) -> o
       [] o # <<>> /\ ~(n = <<>> \/ n = At) /\ IsSuffix(o, n) -> n
       [] OTHER -> n \o Dot \o o

\* Mutant: a name that ends in the origin is not recognised.
JoinRelativeAlways(name, origin) ==
  LET o == Trim(origin)
      n == Trim(name)
  IN CASE o = <<>> -> n
       [] o # <<>> /\ (n = <<>> \/ n = At \/ n = o) -> o
       [] OTHER -> n \o Dot \o o

JoinRelative(name, origin) ==
  LET o == Trim(origin)
      n == Trim(name)
      relative == n # o /\ ~IsSuffix(Dot \o o, n)
  IN CASE o = <<>> -> n
       [] o # <<>> /\ (n = <<>> \/ n = At) -> o
       [] o # <<>> /\ ~(n = <<>> \/ n = At) /\ ~relative -> n
       [] OTHER -> n \o Dot \o o

-----------------------------------------------------------------------------
VARIABLES
  origin,
  given,        \* the name as it was first encoded
  name,         \* the name as it is encoded now
  joined,       \* what JoinRelative last made of it
  times         \* how often it has been resolved

nameVars == <<origin, given, name, joined, times>>

NameInit ==
  /\ origin \in NameSet \ {At}
  /\ given \in NameSet
  /\ name = given
  /\ joined = <<>>
  /\ times = 0

ResolveName ==
  /\ times < 2
  /\ joined' = JoinRelative(name, origin)
  /\ times' = times + 1
  /\ UNCHANGED <<origin, given, name>>

\* The result is stored, absolute or with its trailing dot.
EncodeName ==
  /\ times = 1
  /\ name' \in {joined, joined \o Dot}
  /\ UNCHANGED <<origin, given, joined, times>>

NameNext == ResolveName \/ EncodeName

NameSpec == NameInit /\ [][NameNext]_nameVars

-----------------------------------------------------------------------------
(* Properties.                                                              *)

\* The same on labels: a name that ends in the labels of the origin stays, any
\* other gets them.
Absolute(n, o) ==
  CASE Trim(o) = <<>> -> Labels(Trim(n))
    [] Trim(o) # <<>> /\ Trim(n) \in {<<>>, At} -> Labels(Trim(o))
    [] OTHER -> LET ls == Labels(Trim(n))
                    os == Labels(Trim(o))
                IN IF IsSuffix(os, ls) THEN ls ELSE ls \o os

\* A resolved name is the name on labels: an origin is never found in the
\* middle of a label, nor added twice.
LandsInOrigin == times = 1 => Labels(joined) = Absolute(given, origin)

\* What the comment promises of absolute encodings: resolving one again gives
\* it back, with or without a trailing dot.
RoundTrips == times = 2 => Labels(joined) = Absolute(given, origin)
=============================================================================
