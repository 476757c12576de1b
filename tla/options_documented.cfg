\* Options with 5 bits of int and 3 of mantissa.
SPECIFICATION OptionSpec
CONSTANTS
  IntBits = 5
  Precision = 3
INVARIANT DefaultIsReturned
CHECK_DEADLOCK FALSE
