CONSTANTS
  k1 = k1
  k2 = k2
  h = h
  v1 = v1
  v2 = v2
  Tasks = {t1, t2}
  Headers = {h}
  Inputs <- AllInputs
  Configs <- AllConfigs
  Responses <- AllResponses
  Capacity = 2
  DefaultAge = 1
  MaxAge = 2
SPECIFICATION Spec
INVARIANTS BodyPassedOn
