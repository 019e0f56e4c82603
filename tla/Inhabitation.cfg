CONSTANTS
  p = p
  q = q
  N = 3
  Names <- MCNames
CHECK_DEADLOCK FALSE
SPECIFICATION PlainSpec
INVARIANTS
  TypeOK
  NeverWronglyFlagged
  FlagsEveryEmptyRecursion
PROPERTY Termination
