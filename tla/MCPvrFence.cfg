SPECIFICATION Spec
CONSTANTS
  c1 = c1
  c2 = c2
  f1 = f1
  f2 = f2
  x1 = x1
  n1 = n1
  n2 = n2
  Worker = Worker
  NoCtx = NoCtx
  NoFence = NoFence
  NoForeign = NoForeign
  Contexts <- TwoContexts
  Fences <- OneFence
  Foreigns <- OneForeign
  Notifiers <- OneNotifier
  MaxUserRefs = 2
SYMMETRY Symmetry
CHECK_DEADLOCK FALSE
INVARIANT RefsAccounted
INVARIANT FenceMemSafe
INVARIANT NothingDangles
INVARIANT WaitedIsListed
PROPERTY SignalFollowsCheckpoint
