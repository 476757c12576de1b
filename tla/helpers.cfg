\* The parts without shared state: every kind of form field, with two forms
\* refused; every sequence of nine samples up to two, with weights 3/4, 2/4 and
\* 1/4; names and origins of up to four characters; options with 5 bits of int
\* and 3 of mantissa; targets over four identifiers and two service types;
\* every address form, against a server that changes its condition twice.
SPECIFICATION Spec
CONSTANTS
  MaxTries = 2
  Weight <- Quarters
  Denominator = 4
  MaxSample = 2
  MaxTicks = 9
  SettleTicks = 5
  LabelCharacters = {"a", "b"}
  MaxLength = 4
  IntBits = 5
  Precision = 3
  IdCharacters = {"a", "b", "/"}
  Ids <- PlainIds
  ServiceTypes = {"t1", "t2"}
  MaxChanges = 2
INVARIANTS
  UntouchedKeepsDefault
  WithinPeak
  RisingIsOrdered
  Settles
  LandsInOrigin
  RoundTrips
  
  SameAsGetOption
  IntIsClose
  VerdictIsJustified
  Unambiguous
CHECK_DEADLOCK FALSE
