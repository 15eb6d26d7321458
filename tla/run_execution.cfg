\* Chains of one and two calls, with and without limits; cancels, timeouts, damaged witnesses.
CONSTANTS
  RingSize = 4
  PageSize = 2
  HasKey = TRUE
  Plans <- SmallPlans
  Documents <- Answers
  Captures <- TwoTexts
  CollectorCap = 7
  HasStore = TRUE
  Follow = "last"
SPECIFICATION FairSpec
INVARIANTS
  ReportedStateIsFinal
  VerdictIsTrue
  EnvelopesAreCaptured
  ReaderMissesNothing
PROPERTIES
  HeardCancelWritesNothing
  StoppedRunsEnd
  EndsOrWaitsForProvider
CHECK_DEADLOCK FALSE
