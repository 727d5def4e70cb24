SPECIFICATION Spec
CONSTANTS
  h1 = h1  h2 = h2  p1 = p1
  Hooks = {h1}
  Partitions = {p1}
  Home <- Shared
  MaxAttempts = 2
  MaxEvents = 2
  MaxFetch = 2
  MaxEdits = 1
  MaxRestarts = 1
  MaxFailures = 1
INVARIANTS HistoryIsOneLadder DeadLettersOnce RestartsLoseNothing InOrder
CHECK_DEADLOCK FALSE
