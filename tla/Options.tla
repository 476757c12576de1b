------------------------------ MODULE Options -------------------------------
(***************************************************************************)
(* The option accessors (checker/options.go).  An option is set as a Go    *)
(* value and read in the same process, or it comes out of the JSON body of *)
(* a request, where every number has become a float64 and every struct a   *)
(* map.  Providers read it with the same accessor either way.              *)
(*                                                                         *)
(* Numbers are counted in halves, so that some have a fraction.  An int    *)
(* has IntBits bits and a float64 Precision bits of mantissa: 64 and 53 in *)
(* the code, so that here too there are ints no float64 can hold.          *)
(***************************************************************************)
EXTENDS Integers

CONSTANTS IntBits, Precision

ASSUME FloatsAreShort == {IntBits, Precision} \subseteq Nat \ {0} /\ Precision < IntBits

MinInt == -(2^(IntBits - 1))
MaxInt == 2^(IntBits - 1) - 1
Ints == {2 * n : n \in MinInt..MaxInt}

Abs(x) == IF x < 0 THEN -x ELSE x

\* The float64 values between the halves of -2^IntBits and of 2^IntBits.
Floats ==
  {x \in -(2^(IntBits + 1))..2^(IntBits + 1) :
     \E e \in 0..(IntBits + 1) : x % 2^e = 0 /\ Abs(x) \div 2^e < 2^Precision}

\* The nearest float64; of two, the one with the even mantissa.
Round(x) ==
  CHOOSE r \in Floats : \A q \in Floats \ {r} :
    \/ Abs(x - r) < Abs(x - q)
    \/ Abs(x - r) = Abs(x - q) /\ r % (2 * Abs(q - r)) = 0

\* int(f) truncates; what it makes of a value no int holds depends on the
\* processor.
Truncations(x) ==
  LET t == IF x < 0 THEN -2 * ((-x) \div 2) ELSE 2 * (x \div 2)
  IN IF t \in Ints THEN {t} ELSE Ints

-----------------------------------------------------------------------------
\* The dynamic types an option can have.  "number" is json.Number, "invalid" one
\* that holds no number; "object" is what a struct is decoded to, "null" a nil.
Value(kind, v) == [kind |-> kind, v |-> v]

Natives ==
  {Value("float", x) : x \in Floats} \cup {Value("int", n) : n \in Ints}
    \cup {Value("number", n) : n \in Ints}
    \cup {Value(k, v) : k \in {"bool", "string", "struct"}, v \in 0..1}
    \cup {Value("invalid", 0), Value("null", 0)}

Missing == Value("missing", 0)

\* encoding/json, into a map[string]any.
Decoded(o) ==
  CASE o.kind \in {"int", "number"} -> Value("float", Round(o.v))
    [] o.kind = "struct" -> Value("object", o.v)
    [] OTHER -> o

\* Marshalling an invalid json.Number fails: such an option is never sent.
Sendable(o) == o.kind # "invalid"

\* The numbers a float64 holds exactly survive the journey.
Exact(o) == o.kind \in {"int", "number"} => o.v \in Floats

-----------------------------------------------------------------------------
(* The accessors.  Types are named by the kind of their values.             *)

Types == {"float", "int", "bool", "string", "struct"}

Found(v) == [ok |-> TRUE, v |-> v]
Failed == [ok |-> FALSE, v |-> 0]

\* json.Marshal and json.Unmarshal into a T; a null leaves the zero value.
RoundTrip(o, T) ==
  CASE o.kind = "null" -> Found(0)
    [] o.kind \in {"float", "int", "number"} /\ T = "float" -> Found(Round(o.v))
    [] o.kind \in {"float", "int", "number"} /\ T = "int" /\ o.v \in Ints -> Found(o.v)
    [] o.kind = "object" /\ T = "struct" -> Found(o.v)
    [] o.kind \in {"bool", "string"} /\ T = o.kind -> Found(o.v)
    [] OTHER -> Failed

\* Mutant: only the type assertion.
GetOptionNative(o, T) == IF o.kind = T THEN Found(o.v) ELSE Failed

GetOption(o, T) ==
  CASE o = Missing -> Failed
    [] o.kind = T -> Found(o.v)
    [] OTHER -> RoundTrip(o, T)

\* Mutant: a json.Number is no float64.
GetFloatNative(o, default) == IF o.kind = "float" THEN o.v ELSE default

GetFloatOption(o, default) ==
  CASE o.kind = "float" -> o.v
    [] o.kind = "number" -> Round(o.v)
    [] OTHER -> default

\* Mutant: rounds down.
GetIntFloor(o, default) == {2 * (GetFloatOption(o, Round(default)) \div 2)}

\* The set of values it can return.
GetIntOption(o, default) == Truncations(GetFloatOption(o, Round(default)))

GetBoolOption(o, default) == IF o.kind = "bool" THEN o.v ELSE default

-----------------------------------------------------------------------------
VARIABLES
  set,          \* the option as it was set
  option,       \* the option the provider finds
  asked,        \* the accessor it has used, and with which default
  answers       \* what the accessor may return

optionVars == <<set, option, asked, answers>>

NotAsked == [accessor |-> "none", default |-> 0]

OptionInit ==
  /\ set \in Natives \cup {Missing}
  /\ option = set
  /\ asked = NotAsked
  /\ answers = {}

\* The option travels in the body of a request.
Send ==
  /\ asked = NotAsked /\ option = set
  /\ Sendable(set)
  /\ option' = Decoded(set)
  /\ UNCHANGED <<set, asked, answers>>

\* The calls of an accessor, and what one may return.
Calls ==
  {[accessor |-> T, default |-> 0] : T \in Types}
    \cup {[accessor |-> "GetFloatOption", default |-> x] : x \in Floats}
    \cup {[accessor |-> "GetIntOption", default |-> n] : n \in Ints}
    \cup {[accessor |-> "GetBoolOption", default |-> v] : v \in 0..1}

Returns(c, o) ==
  CASE c.accessor = "GetFloatOption" -> {Found(GetFloatOption(o, c.default))}
    [] c.accessor = "GetIntOption" -> {Found(n) : n \in GetIntOption(o, c.default)}
    [] c.accessor = "GetBoolOption" -> {Found(GetBoolOption(o, c.default))}
    [] OTHER -> {GetOption(o, c.accessor)}

Ask(c) ==
  /\ asked = NotAsked
  /\ asked' = c
  /\ answers' = Returns(c, option)
  /\ UNCHANGED <<set, option>>

OptionNext == Send \/ \E c \in Calls : Ask(c)

OptionSpec == OptionInit /\ [][OptionNext]_optionVars

-----------------------------------------------------------------------------
(* Properties.                                                              *)

\* GetFloatOption and GetIntOption know a Go int behind HTTP only, and HTTP rounds
\* what GetOption[int] would read in the host: a number no float64 holds.
Portable(accessor) ==
  /\ set.kind = "int" => accessor \notin {"GetFloatOption", "GetIntOption"}
  /\ accessor = "int" => Exact(set)

\* Those two cases aside, every accessor gives a provider the same answers whether
\* it runs in the host or behind HTTP, whatever the option and the default.
SameOverHTTP ==
  asked # NotAsked /\ Portable(asked.accessor) => answers = Returns(asked, set)

\* GetFloatOption and GetBoolOption are GetOption with a default, on every option
\* but a null, which GetOption takes for the zero value and they for none, and,
\* for GetFloatOption, but a Go int, which it leaves alone.
OrDefault(T) ==
  LET o == GetOption(option, T)
  IN IF o.ok THEN o ELSE Found(asked.default)
SameAsGetOption ==
  /\ asked.accessor = "GetFloatOption" =>
       answers = {IF option.kind \in {"null", "int"} THEN Found(asked.default)
                  ELSE OrDefault("float")}
  /\ asked.accessor = "GetBoolOption" =>
       answers = {IF option.kind = "null" THEN Found(asked.default) ELSE OrDefault("bool")}

\* The number GetIntOption is to extract: the one that was set, if it finds it as
\* a float64 or a json.Number, or else the default.
Meant == IF option.kind \in {"float", "number"} THEN set.v ELSE asked.default

\* Is f, without its fraction, an int?
FitsInt(f) == 2 * MinInt - 2 < f /\ f < 2 * MaxInt + 2

\* An int that a float64 holds comes through GetIntOption as it is, however it
\* travelled.
IntIsExact ==
  asked.accessor = "GetIntOption" /\ Meant \in Floats \cap Ints => answers = {Found(Meant)}

\* Any other number comes through close to what it was: a float64 loses its
\* fraction, towards zero, and an int, default or not, at most what the mantissa
\* of a float64 cannot tell.  (Where the nearest float64 is beyond int, Go's
\* conversion promises nothing.)
IntIsClose ==
  /\ IntIsExact
  /\ asked.accessor = "GetIntOption" /\ FitsInt(Round(Meant)) =>
       \A a \in answers :
         IF set.kind = "float"
           THEN Abs(a.v) <= Abs(Meant) /\ Abs(Meant - a.v) < 2
           ELSE Abs(a.v - Meant) * 2^Precision <= Abs(Meant)

\* As options.go:73-74 has it, GetIntOption "returns defaultVal if the key is
\* missing".
DefaultIsReturned ==
  asked.accessor = "GetIntOption" /\ option = Missing => answers = {Found(asked.default)}
=============================================================================
