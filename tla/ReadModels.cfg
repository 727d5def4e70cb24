SPECIFICATION PagesSpec
CONSTANTS
  x = x
  y = y
  z = z
  v = v
  w = w
  h1 = h1
  h2 = h2
  b1 = b1
  None = None
  IdsOf <- MCIdsOf
  Values = {v, w}
  Fields = {"description", "visibility"}
  Heads = {h1, h2}
  Bases = {b1}
  Clean <- MCClean
  PageMax = 1
  ListMax = 1
  MaxLog <- MCMaxLog
  MaxReplays = 1
SYMMETRY Symmetry
INVARIANTS Converges VerdictsAreCurrent CountersTrue LinksLead PagesHonest
PROPERTY MergedForGood
CHECK_DEADLOCK FALSE
