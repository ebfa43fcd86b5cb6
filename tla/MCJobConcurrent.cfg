SPECIFICATION UndyingSpec
CONSTANTS
  Consumer = C
  Providers = {p1}
  Admin = A
  None = None
  Requests = {r1, r2}
  Disputes = {d1, d2}
  MayFail = FALSE
\* Once every guard refuses, e.g. on a CANCELLED job without disputes, nothing
\* can change any more.
CHECK_DEADLOCK FALSE
SYMMETRY Symmetry
INVARIANTS EngagedHasAwardee JustifiedCompletion DisputedIsResolvable
