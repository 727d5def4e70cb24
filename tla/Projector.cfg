SPECIFICATION LiveSpec
CONSTANTS
  Readers = {a}
  MaxLog = 4
  MaxFetch = 2
  MaxCrashes = 2
  MaxFailures = 1
INVARIANTS ExactlyOnce ReadYourWrites
PROPERTIES CatchesUp GateAnswers ServesCaughtUp NeverGoesBack
CHECK_DEADLOCK FALSE
