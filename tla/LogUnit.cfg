SPECIFICATION FairSpec
CONSTANTS
  Thread = {t1, t2}
  Path = {"p", "q"}
  Bare = {"q"}
  RunningLog = "p"
  Tag = {"A"}
  TagLock = {TRUE}
  SecondsPerDay = 1
  MaxNow = 1
  MaxLines = 2
  MaxCauses = 1
  MaxStarts = 2
INVARIANTS NothingLost WholeLines
PROPERTY LogReturns
CHECK_DEADLOCK FALSE
