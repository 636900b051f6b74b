SPECIFICATION FairSpec
CONSTANT MaxStarts = 3
INVARIANTS WorkerUsesInitedModel FlagLostOnlyInDelay EndedWasAsked
PROPERTY StopReturns
CHECK_DEADLOCK FALSE
