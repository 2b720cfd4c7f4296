SPECIFICATION Spec
CONSTANTS
  Nil = Nil
  Width = 2
  Replicas = 2
  Hash <- MCHash
  KeyHashes = {0, 13, 25, 40}
  e1 = e1
  e2 = e2
  e3 = e3
  Eps = {e1, e2}
  Sample = {e1, e2, e3}
  SampleWeights = {Nil, 0, 3}
  Strategy = "round_robin"
  Serving = {e1}
  Callers = {c1, c2}
  MaxRequests = 1
  Weights = {3}
  MaxCalls = 2
  MaxWeights = 1
  MaxFaults = 1
INVARIANTS QuietReport ClientCurrent PicksOffered WeightsExact RingStable
PROPERTIES FieldsKept FusedRecovers
CHECK_DEADLOCK FALSE
