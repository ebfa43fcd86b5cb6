SPECIFICATION PairSpec
CONSTANTS
  Notifies = {n1, n2}
  Digests = {d1}
  Recurrents = {}
  Workers = {w1, w2}
  MaxAttempts <- TwoAttempts
  MaxCrashes = 1
  MaxHides = 1
  None = None
CONSTRAINT OneOrSmooth
INVARIANT FinishedForAReason
PROPERTIES FreshLockProtects DigestReportsAll
SYMMETRY Symmetry
