SPECIFICATION BusySpec
CONSTANTS
  p1 = p1
  e1 = e1
  Endpoints = {e1}
  Pods = {p1}
  PodOf <- OneEndpoint
  RPSLevels = {"under"}
  MaxEvents = 1
  Threads = {t1, t2}
  NoThread = NoThread
  Filtered = TRUE
  HasMaxRequests = FALSE
  Strategies = {"nil"}
PROPERTIES SelectReturns EventuallyCurrent
CHECK_DEADLOCK FALSE
