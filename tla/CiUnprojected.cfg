SPECIFICATION LiveSpec
CONSTANTS
  c1 = c1  c2 = c2  c3 = c3
  a = a  b = b
  Commits = {c1, c2, c3}
  Dir <- MCDir
  Runners = {a, b}
  ProjectsCi = FALSE
  MaxDeliveries = 2
  MaxPushes = 1
  Outcomes = {"success", "failed"}
  MaxJobs = 2
  MaxFaults = 0
PROPERTY PushingRuns
CHECK_DEADLOCK FALSE
