SPECIFICATION Spec
CONSTANTS
  p1 = p1
  p2 = p2
  Pmrs = {p1, p2}
  Pages = {1, 2}
  Kinds <- OneKind
  Changes = {}
  Scans = {1}
  MaxPool = 1
  MaxExcess = 2
  MaxTasks = 1
  Faults = {"alloc", "attr", "create", "free"}
  Misuse = {}
  NoPage = NoPage
  Nobody = Nobody
  Shrinker = Shrinker

CHECK_DEADLOCK FALSE
PROPERTY CallsReturn
