\* Two writers of a state, one with a transaction, beside two branches of one
\* superstep; two keys for one place.
CONSTANTS
  k1 = k1
  k2 = k2
  w1 = w1
  w2 = w2
  b1 = b1
  b2 = b2
  Key = {k1, k2}
  Writer = {w1, w2}
  Branch = {b1, b2}
  Rank <- Ranks
  Shared = Shared
  Appends <- AppendOne
  Given <- EmptyOrBoth
  Outside <- One
  Slow <- Locks
  MaxKeys = 1
  MaxHistory = 1
  MaxCalls <- Few
  Allowed <- Mixed
SPECIFICATION Spec
INVARIANTS
  BranchesIsolated
  LastBranchWins
CHECK_DEADLOCK FALSE
