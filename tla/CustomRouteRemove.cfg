SPECIFICATION ClientsSpec
CONSTANTS
  Endpoints = {e1, e2, e3, e4}
  NoRoute = NoRoute
  AllowExpiry = FALSE
  AllowRemove = TRUE
INVARIANT SuccessMeansStored
