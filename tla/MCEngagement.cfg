SPECIFICATION Spec
CONSTANTS
  Requests = {r1, r2}
  Jobs = {j1, j2}
  Appts = {a1, a2, a3}
  Slots <- TwoSlots
  Ratings = {1, 2}
  MaxContacts = 3
  MaxFailures = 1
  Mixes <- OneKind
  None = None
\* A cancelled job, or one whose rows are used up, allows nothing any more.
CHECK_DEADLOCK FALSE
SYMMETRY Symmetry
INVARIANTS BoundedByRequests RatingCurrent
