SPECIFICATION Spec
CONSTANTS
  Msg = {m1, m2}
  Unit = 1
  IntervalS = 1
  IntervalR = 2
  MaxRecv = 2
PROPERTY HeartbeatAfterInterval
