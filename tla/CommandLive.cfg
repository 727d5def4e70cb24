SPECIFICATION LiveSpec
CONSTANTS
  Requests = {q1, q2}
  Usernames = {alice}
  RepoNames = {site}
  r1 = r1
  main = main
  bad = bad
  Repos = {r1}
  RefNames = {}
  ValidRefNames = {}
  Oids = {}
  None = None
  Procs = {p1, p2}
  Batches = {}
  MaxEpoch = 3
  DropDuringCommit = TRUE
INVARIANTS TruthfulReplies RepoHasTopic
PROPERTY Concludes
CHECK_DEADLOCK FALSE
