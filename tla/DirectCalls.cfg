SPECIFICATION Spec
CONSTANTS
  a = a
  b = b
  c = c
  m1 = m1
  Endpoints = {a, b}
  NoRoute = NoRoute
  AllowExpiry = TRUE
  AllowRemove = FALSE
  Clients = {k}
  Migrators = {m1}
  Site <- InClient
  Modes = {"grpc", "invoke"}
  Lossy = TRUE
  StoreFails = TRUE
  MaxSets = 3
INVARIANTS OnlyStoredRoutes OwnerReachable RetryReadsStore RetryCacheFresh
SYMMETRY AnyServer
CHECK_DEADLOCK FALSE
