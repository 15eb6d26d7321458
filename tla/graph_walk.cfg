\* Small graphs of every shape, the built-in ones and single joins; providers fail,
\* node budgets end runs.
CONSTANTS
  Submitted <- SmallAndBuiltin
  Inputs <- Starts
  Answers <- Both
  Budgets = {0, 1, 3}
  MayFail = TRUE
SPECIFICATION Spec
INVARIANTS
  MatrixIsReachability
  ConflictsAreOrdered
  ChainIsExecuted
  FrontierWithinBudget
  TemplateDelivers
PROPERTIES
  JoinKeepsArtifacts
  VerdictIsEarned
CHECK_DEADLOCK FALSE
