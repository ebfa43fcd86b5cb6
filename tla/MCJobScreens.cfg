SPECIFICATION JSSpec
CONSTANTS
  C = C
  p1 = p1
  p2 = p2
  Consumer = C
  Providers = {p1, p2}
  Admin = A
  None = None
  Requests = {r1}
  Disputes = {d1, d2}
  MayFail = TRUE
  Loads = {l1, l2}
  Scenes <- MCScenes
  MaxOpenings = 2
  MaxPresses = 2
  MaxOthers = 1
\* The user may stop, and so may everybody else.
CHECK_DEADLOCK FALSE
INVARIANTS BidsSettled OffersAccepted TurnFound OwnDoingShown NothingInvented
PROPERTY StrictMoves
