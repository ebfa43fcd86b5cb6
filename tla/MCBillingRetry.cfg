SPECIFICATION FairSpec
CONSTANTS
  Basics = {s1}
  Pros = {}
  LeadPacks = {k1}
  Zips = {}
  Badges = {}
  Hooks = {h1}
  Bidders = {}
  FreeLimit = 1
  BasicLimit = 2
  ProLimit = 3
  MaxMonth = 0
  MaxRefusals = 1
  MaxFailures = 1
  None = None
\* Once everything is paid and every event recorded, nothing happens any more.
CHECK_DEADLOCK FALSE
PROPERTY PaidIsGranted
