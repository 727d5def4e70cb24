SPECIFICATION Spec
CONSTANTS
  s1 = s1
  s2 = s2
  main = main
  dev = dev
  c0 = c0
  c1 = c1
  c2 = c2
  blob = blob
  mc = mc
  tree = tree
  None = None
  Slots = {s1, s2}
  Refs = {main, dev}
  Main = main
  Objects = {c0, c1, c2, blob, mc, tree}
  Chunks <- MCChunks
  Needs <- MCNeeds
  Born <- MCBorn
  Pushes <- MCPushes
  PullBase = c0
  PullHead = c1
  MergeCommit = mc
  Batch = 2
  MaxRequests <- MCMaxRequests
  MaxFaults = 0
SYMMETRY Symmetry
INVARIANT NeverTorn
CHECK_DEADLOCK FALSE
