SPECIFICATION MCSpec
CONSTANTS
  Vertices = {1, 2, 3, 4}
  MaxEdges = 4
INVARIANTS EmitsComponents EmitsSuccessorsFirst LowlinksLeadBack ClassesAreRight
PROPERTY Termination
CHECK_DEADLOCK FALSE
