SPECIFICATION Spec
CONSTANTS
  w1 = w1
  w2 = w2
  Workers <- MCWorkers
  Params <- MCParams
  Placeholder = "{_}"
  Seeds <- MCSeeds
  Configs <- MCConfigs
  Responses <- MCResponses
  maxNestedDepth = 1
INVARIANTS TypeOK FloorFirst OneEndpointMutated Calibrated MinimalTrigger
CHECK_DEADLOCK FALSE
