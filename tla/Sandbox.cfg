SPECIFICATION Spec
CONSTANTS
  Kinds = {"process", "docker", "kubernetes"}
  Steps = 2
  Budget = 3
  Slack = 1
  Capacity = 1
  MaxLines = 3
INVARIANTS LogComplete WithinBudget HonestVerdict ContainerStops
PROPERTIES JobEnds PodsGo
CHECK_DEADLOCK FALSE
