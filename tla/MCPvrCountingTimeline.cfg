SPECIFICATION FairSpec
CONSTANTS
  Threads = {t1, t2}
  Fences = {f1, f2}
  MaxHandles = 1
  NoFence = NoFence

CHECK_DEADLOCK FALSE
INVARIANT SignalledExactly
INVARIANT NothingDangles
PROPERTY KeepsPromise
PROPERTY ClosingEnds
