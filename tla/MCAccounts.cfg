SPECIFICATION Spec
CONSTANTS
  Requests = {r1, r2}
  Links = {l1, l2, l3}
  Passwords = {p1, p2}
  MaxFailsIdent = 2
  MaxFailsIp = 1
  MaxCrashes = 1
  None = None
SYMMETRY Symmetry
INVARIANTS GuessesBounded ResetsBounded CountersExpire
