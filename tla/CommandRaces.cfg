SPECIFICATION Spec
CONSTANTS
  Requests = {q1, q2, q3}
  Usernames = {alice}
  RepoNames = {site}
  r1 = r1
  main = main
  bad = bad
  Repos = {r1}
  RefNames = {main, bad}
  ValidRefNames = {main}
  Oids = {o1, o2}
  None = None
  Procs = {p1, p2}
  Batches <- MCBatches
  MaxEpoch = 2
  DropDuringCommit = FALSE
SYMMETRY Symmetry
INVARIANTS TypeOK Authoritative UniqueNames NumbersDense ReflogLinear
PROPERTY AtomicSpec
CHECK_DEADLOCK FALSE
