SPECIFICATION FairSpec
CONSTANTS
  home = home
  a = a
  b = b
  x = x
  Bases = {home, a, b, x}
  Root = home
  Given = Given
  None = None
  Malformed = Malformed
  Worlds <- MixedWorlds
INVARIANTS FetchedAtMostOnce ResolvesWhatLoads DanglingHasReason
PROPERTY Termination
CHECK_DEADLOCK FALSE
