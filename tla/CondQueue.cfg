SPECIFICATION FairSpec
CONSTANTS
  Producer = {p1, p2}
  Consumer = {c1, c2}
  Size = 1
  MaxPut = 2
  MaxSpurious = 1
INVARIANTS NoLostWakeup Capacity FifoExactlyOnce
PROPERTY CallReturns
