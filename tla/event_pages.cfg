\* A reader that goes on from next_cursor, as the tool's result suggests.
CONSTANTS
  RingSize = 4
  PageSize = 2
  HasKey = TRUE
  Plans <- SmallPlans
  Documents <- Answers
  Captures <- TwoTexts
  CollectorCap = 7
  HasStore = TRUE
  Follow = "next"
SPECIFICATION FairSpec
INVARIANTS
  ReaderMissesNothing
CHECK_DEADLOCK FALSE
