SPECIFICATION Spec
CONSTANTS
  Interpret <- InterpretBy
  CompilePlan <- CompilePlanBy
  Ok <- OkBy
  Errs <- ErrsBy
  Patterns <- MCPatterns
  Names <- MCNames
  Garbled <- MCGarbled
  Quotable <- MCQuotable
  Instances <- MCInstances
  Inputs <- MCInputs
INVARIANTS
  ReportsIffRejected
  StopsWithConsumer
PROPERTIES
  ImplementsOracle
CHECK_DEADLOCK FALSE
