CONSTANTS
  a = a
  b = b
  r1 = r1
  w1 = w1
  w2 = w2
  Entity = {a, b}
  Reader = {r1}
  InitialNode <- KnownAtFirst
  Request <- Requests
  Writer = {w1, w2}
  WriteJob <- Jobs
  Drainer = Drainer
  NoNode = NoNode
  NoValue = NoValue
  Task = {"propagate_risk_scores"}
  GraphMaxFaults = 2
SPECIFICATION GraphSpec
CHECK_DEADLOCK FALSE
INVARIANT StaleRiskHasACause
 
PROPERTY DrainTerminates
