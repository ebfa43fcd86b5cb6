SPECIFICATION FairSpec
CONSTANTS
  Notifies = {n1, n2}
  Digests = {d1}
  Recurrents = {c1, c2}
  Workers = {w1}
  MaxAttempts <- TwoAttempts
  MaxCrashes = 1
  MaxHides = 1
  None = None
CONSTRAINT OneKind
INVARIANT ChainAlive
PROPERTY EventuallyFinished
