\* Two connections, two callers, one graph in two versions, one key.
CONSTANTS
  Server = {s1, s2}
  Client = {c1, c2}
  Name = {g}
  Version = {v1, v2}
  Key = {k}
  None = None
  MaxGraphs = 1
  MaxCalls = 4
  MaxRuns = 2
  MaxLives = 1
  Faults = {"key", "read"}
SPECIFICATION Spec
SYMMETRY Symmetric
INVARIANTS
  OneAnswerPerKey
  OneRunPerKey
PROPERTIES
  ReferencedGraphStays
CHECK_DEADLOCK FALSE
