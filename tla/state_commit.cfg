\* Two writers of a state, one with a transaction.  A commit compares the versions
\* and replaces the map in two steps.
CONSTANTS
  k1 = k1
  k2 = k2
  w1 = w1
  w2 = w2
  b1 = b1
  b2 = b2
  Key = {k1, k2}
  Writer = {w1, w2}
  Branch = {b1, b2}
  Rank <- Ranks
  Shared = Shared
  Appends <- AppendOne
  Given <- EmptyOrBoth
  Outside <- One
  Slow = {}
  MaxKeys = 1
  MaxHistory = 1
  MaxCalls <- Few
  Allowed <- Mixed
SPECIFICATION Spec
PROPERTIES
  CommitSeesEveryWrite
CHECK_DEADLOCK FALSE
