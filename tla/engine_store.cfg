\* A single node, then two branches, with a checkpoint store every call of which may fail; an interrupt point before d and one after a.
CONSTANTS
  a = a
  b = b
  c = c
  d = d
  e = e
  ghost = ghost
  Node = {a, b, c, d}
  Ghost = {}
  Entry <- Mixed
  Routes <- MixedRoutes
  MaxIter = 3
  MaxAttempts = 2
  MaxParallelism = 2
  Before = {d}
  After = {a}
  HasStore = TRUE
  Events <- StoreTrouble
SPECIFICATION Spec
INVARIANTS
  NothingOutlivesRun
  SnapshotIsWhole
  StoreFailureIsReported
CHECK_DEADLOCK FALSE
