SPECIFICATION Spec
CONSTANTS
  c1 = c1  c2 = c2  c3 = c3
  Commits = {c1, c2, c3}
  Dir <- MCDir
  a = a  b = b
  Runners = {a, b}
  ProjectsCi = TRUE
  MaxDeliveries = 2
  MaxPushes = 1
  Outcomes = {"success", "failed"}
  MaxJobs = 2
  MaxFaults = 1
SYMMETRY Symmetry
INVARIANTS RunsOnce ChecksAreTrue RunNumbersDense
PROPERTY VerdictsStand
CHECK_DEADLOCK FALSE
