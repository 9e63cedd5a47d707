SPECIFICATION Spec
CONSTANTS
  NoOne = NoOne
  Sweep = Sweep
  People = {p1, p2}
  Places = {1}
  Conditions = {{}}
  Admins = {a1, a2, a3}
  Ops = {"open", "draw", "override"}
  MaxEditions = 1
  MaxCrashes = 0
INVARIANTS
  SentWasTold
CHECK_DEADLOCK FALSE
