\* Two concurrent tool calls, two runs, two slots, one retained record; the
\* deadline of a synchronous call may pass.
CONSTANTS
  RunId = {r1, r2}
  Client = {c1, c2}
  Nobody = Nobody
  MaxRuns = 1
  MaxActive = 2
  Calls <- Blocking
  Events <- DeadlineOnly
SPECIFICATION FairSpec
INVARIANTS
  ReservationsHeld
PROPERTIES
  CancelTakesEffect
CHECK_DEADLOCK FALSE
