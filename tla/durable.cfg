\* With a daemon and two connections, or without one; two runs, two approvals, every fault and crash.
CONSTANTS
  Run = {r1, r2}
  Server = {s1, s2}
  Approval = {a1, a2}
  Audience = {u1, u2}
  Modes = {TRUE, FALSE}
  Events <- Everything
SPECIFICATION Spec
SYMMETRY Symmetry
INVARIANTS
  ExecutedOnce
  DecisionSpendsCheckpoint
  DecidedNeverRuns
  NoFakeState
  DirectRestartInterrupts
PROPERTIES
  ImplementsTickets
