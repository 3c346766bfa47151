SPECIFICATION FairSpec
CONSTANTS
  j1 = j1
  j2 = j2
  c1 = c1
  c2 = c2
  p = p
  q = q
  r = r
  Jobs = {j1, j2}
  Foreign = {w1}
  Ctxs = {c1, c2}
  CtxOf <- TwoContexts
  Pmrs = {p, q, r}
  Exported = {p, q}
  Requests <- CrossRequests
  ForeignUses <- WriteUse
  UsageApi = FALSE
  Faults = {"create", "kick"}
  NoJob = NoJob
  NoPmr = NoPmr
  NoWork = NoWork

CHECK_DEADLOCK FALSE
PROPERTY NobodyStuck
