SPECIFICATION Spec
CONSTANTS
  Requests = {q1, q2, q3}
  Usernames = {alice}
  RepoNames = {}
  r1 = r1
  main = main
  bad = bad
  Repos = {r1}
  RefNames = {}
  ValidRefNames = {}
  Oids = {}
  None = None
  Procs = {p1}
  Batches = {}
  MaxEpoch = 1
  DropDuringCommit = TRUE
INVARIANT UniqueNames
CHECK_DEADLOCK FALSE
