SPECIFICATION FairSpec
CONSTANTS
  c1 = c1
  c2 = c2
  f1 = f1
  f2 = f2
  x1 = x1
  n1 = n1
  n2 = n2
  Worker = Worker
  NoCtx = NoCtx
  NoFence = NoFence
  NoForeign = NoForeign
  Contexts <- OneContext
  Fences <- OneFence
  Foreigns <- OneForeign
  Notifiers <- TwoNotifiers
  MaxUserRefs = 1
CHECK_DEADLOCK FALSE
PROPERTY AbandonedContextIsFreed
PROPERTY WaitedFenceSignals
