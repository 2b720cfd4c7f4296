SPECIFICATION FairSpec
CONSTANTS
  p1 = p1
  e1 = e1
  Endpoints = {e1}
  Pods = {p1}
  PodOf <- PodOf1
  RPSLevels = {"at"}
  MaxEvents = 2
  Requests = {t1, t2}
  Cancellable = {t2}
  Targets <- MCTargets
  RuleLists <- MCRuleLists
  Nil = Nil
INVARIANTS PriorityKept NilOnlyAfterRetries NoMissedWakeup
PROPERTY RouteEnds
CHECK_DEADLOCK FALSE
