SPECIFICATION FreshSpec
CONSTANTS
  p1 = p1
  e1 = e1
  Endpoints = {e1}
  Pods = {p1}
  PodOf <- OneEndpoint
  RPSLevels = {"over"}
  MaxEvents = 3
  Threads = {t1, t2}
  NoThread = NoThread
  Filtered = TRUE
  HasMaxRequests = TRUE
  Strategies = {"nil", "unknown"}
INVARIANTS TypeOK SnapshotFresh CatalogConsistent FreshPick
PROPERTY LastVersionMonotone
SYMMETRY Symmetry
CHECK_DEADLOCK FALSE
