SPECIFICATION Spec
CONSTANTS
  a = a
  b = b
  c = c
  m1 = m1
  Endpoints = {a, b, c}
  NoRoute = NoRoute
  AllowExpiry = FALSE
  AllowRemove = FALSE
  Clients = {k}
  Migrators = {m1}
  Site <- InServer
  Modes = {"grpc", "invoke"}
  Lossy = FALSE
  StoreFails = FALSE
  MaxSets = 3
INVARIANT SingleOwner
CHECK_DEADLOCK FALSE
