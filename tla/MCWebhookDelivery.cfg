SPECIFICATION FairSpec
CONSTANTS
  Deliveries = {d1, d2}
  Workers = {w1, w2}
  MaxAttempts = 2
  MaxFailures = 2
  MaxRetries = 1
  None = None
CONSTRAINT OneOrPair
INVARIANT PostsBounded
PROPERTY EventuallySettledOrParked
