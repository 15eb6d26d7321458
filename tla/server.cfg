\* Two concurrent tool calls, two runs, one slot and one retained record; every store
\* call may fail.
CONSTANTS
  RunId = {r1, r2}
  Client = {c1, c2}
  Nobody = Nobody
  MaxRuns = 1
  MaxActive = 1
  Calls <- AllCalls
  Events <- StoreFaults
SPECIFICATION Spec
SYMMETRY Symmetry
INVARIANTS
  ActivationNeverRefused
  RunningIsOwned
  CancelNeverCompletes
  DurableClaimIsTrue
PROPERTIES
  OneWorkerPerRun
  ImplementsLifecycle
CHECK_DEADLOCK FALSE
