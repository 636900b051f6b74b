SPECIFICATION FairTimerSpec
CONSTANTS
  NumKeys = 2
  Elapses = {1, 2}
  MaxWait = 2
  MaxLag = 1
INVARIANTS KilledFiresAtMostOnce LastRequestCounts
PROPERTY TimerFires
