SPECIFICATION Spec
CONSTANTS
  p1 = p1
  p2 = p2
  Pmrs = {p1, p2}
  Pages = {1, 2, 3}
  Kinds <- MixedKinds
  Changes <- MixedChanges
  Scans = {1, 2}
  MaxPool = 1
  MaxExcess = 2
  MaxTasks = 1
  Faults = {"alloc", "attr", "create", "free"}
  Misuse = {"taken_slot"}
  NoPage = NoPage
  Nobody = Nobody
  Shrinker = Shrinker

SYMMETRY SwapPmrs
CHECK_DEADLOCK FALSE
INVARIANT PagesAccounted
INVARIANT BooksAgree
INVARIANT TypesHonoured
INVARIANT UnpinListExact
PROPERTY ReclaimOnlyUnpinned
