CONSTANTS
  a = a
  b = b
  c = c
  x = x
  Names <- MCNames
  Unsupported = 2
SPECIFICATION MCSpec
CHECK_DEADLOCK FALSE
INVARIANTS
  TypeOK
  SettledAtWorst
  UnsupportedExplained
PROPERTIES
  Termination
  ImplementsPromise
