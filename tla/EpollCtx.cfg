SPECIFICATION FairSpec
CONSTANTS
  Ctx = {c1, c2}
  Fd = {f1, f2}
  App = {a1}
  Detector = d
  NoCtx = none
  NoFd = nofd
INVARIANTS OwnDescriptor DataIsWatched GoneCalledAtMostOnce
PROPERTY DataIsSent
CHECK_DEADLOCK FALSE
