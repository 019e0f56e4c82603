SPECIFICATION MCSpec
CONSTANTS
  Interpret <- InterpretBy
  Defs <- MCDefs
  Patterns <- MCPatterns
  PureKinds <- PureKindsBy
  Kinds <- KindsBy
  Accepts <- SatisfiedBy
  AsKinds <- AsKindsBy
  Subsumes <- SubsumesBy
  Disjoint <- DisjointBy
  FlattenAll <- FlattenAllBy
  FlattenAnyOf <- FlattenAnyOfBy
  Rewrite <- RewriteBy
  Compiled <- Compile
  Meant <- Valid
  InlineParts <- InlinePartsBy
  AllParts <- AllPartsBy
  Pointerize <- PointerizeBy
  Values = {}
  MaxBudget = 0
  Documents <- MCDocuments
  Instances <- MCInstances
  NameOrder <- MCNames
INVARIANTS
  NoInfiniteType
  IndirectionPerType
  CallsReachChecks
  AcceptsWhatThePlanAccepts
  AdmitsWhatItSkips
CHECK_DEADLOCK FALSE
