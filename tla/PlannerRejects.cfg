SPECIFICATION RejectsSpec
CONSTANTS
  Interpret <- InterpretBy
  Defs <- MCDefs
  Patterns <- MCPatterns
  PureKinds <- PureKindsBy
  Kinds <- KindsBy
  Accepts <- SatisfiedBy
  AsKinds <- AsKindsBy
  Subsumes <- SubsumesBy
  Disjoint <- DisjointBy
  FlattenAll <- FlattenAllBy
  FlattenAnyOf <- FlattenAnyOfBy
  Rewrite <- RewriteBy
  Compiled <- Compile
  Meant <- Valid
  Values <- MCValues
  Names <- MCNames
  MaxBudget = 2
INVARIANT
  NeverRejectsValid
CHECK_DEADLOCK FALSE
