SPECIFICATION LiveSpec
CONSTANTS
  h1 = h1  h2 = h2  p1 = p1
  Hooks = {h1, h2}
  Partitions = {p1}
  Home <- Shared
  MaxAttempts = 2
  MaxEvents = 2
  MaxFetch = 2
  MaxEdits = 0
  MaxRestarts = 0
  MaxFailures = 0
PROPERTY EventuallySettled
CHECK_DEADLOCK FALSE
