\* Three branches, two at a time, with retries, panics, a name that is not in the graph, interrupts of nodes and cancellation; nodes may run for ever unless cancelled; no checkpoint store.
CONSTANTS
  a = a
  b = b
  c = c
  d = d
  e = e
  ghost = ghost
  Node = {a, b, c}
  Ghost = {ghost}
  Entry <- FanOut
  Routes <- FanOutRoutes
  MaxIter = 2
  MaxAttempts = 2
  MaxParallelism = 2
  Before = {}
  After = {}
  HasStore = FALSE
  Events <- Failures
SPECIFICATION FairSpec
INVARIANTS
  FailedSuperstepLeavesNoWrites
PROPERTIES
  ImplementsSupersteps
  CancelEndsRun
  FailureEndsRun
CHECK_DEADLOCK FALSE
