\* A daemon crashes while a run is active.
CONSTANTS
  Run = {r1, r2}
  Server = {s1}
  Approval = {a1}
  Audience = {u1}
  Modes = {FALSE}
  Events <- Crashes
SPECIFICATION Spec
SYMMETRY Symmetry
INVARIANTS
  RestartInterrupts
