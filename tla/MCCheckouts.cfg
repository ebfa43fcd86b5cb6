SPECIFICATION CheckoutsSpec
CONSTANTS
  s1 = s1
  s2 = s2
  k1 = k1
  k2 = k2
  z1 = z1
  v1 = v1
  Basics = {s1}
  Pros = {s2}
  LeadPacks = {k1, k2}
  Zips = {z1}
  Badges = {v1}
  Hooks = {h1, h2}
  Bidders = {b1}
  FreeLimit = 1
  BasicLimit = 2
  ProLimit = 3
  MaxMonth = 1
  MaxRefusals = 1
  MaxFailures = 1
  Scenes <- MCScenes
  MaxLost = 1
  None = None
SYMMETRY Symmetry
\* Where the app buys, everything may be paid and granted.
CHECK_DEADLOCK FALSE
INVARIANTS GrantedAsPaid CreditsAccounted ChargesAnswered
