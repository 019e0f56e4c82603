SPECIFICATION MCSpec
CONSTANTS
  Defs <- MCDefs
  Patterns <- MCPatterns
  PureKinds <- PureKindsBy
  Kinds <- KindsBy
  Accepts <- SatisfiedBy
  AsKinds <- AsKindsBy
  Subsumes <- SubsumesBy
  Disjoint <- DisjointBy
  FlattenAll <- FlattenAllBy
  FlattenAnyOf <- FlattenAnyOfBy
  Rewrite <- RewriteBy
  Compiled <- Compile
  Meant <- Valid
  Values <- MCValues
  MaxBudget = 2
INVARIANTS
  KeepsMeaning
  KindsBracket
  NormalAtFixpoint
  NeverGivesUp
PROPERTIES
  GrowsOnlyByDistribution
CHECK_DEADLOCK FALSE
