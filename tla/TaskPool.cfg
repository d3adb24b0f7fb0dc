SPECIFICATION FairSpec
CONSTANTS
  Workers = {w1, w2}
  Rps = 1
  TestLimits = {0, 1, 7}
  MaxSent = 7
  MaxLost = 1
INVARIANTS TypeOK TestsWithinLimit FinishedIsComplete AtMostOneLate
PROPERTIES StopEnds LimitsEnd
