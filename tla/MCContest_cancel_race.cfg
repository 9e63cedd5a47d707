SPECIFICATION Spec
CONSTANTS
  NoOne = NoOne
  Sweep = Sweep
  People = {p1, p2}
  Places = {1}
  Conditions = {{}}
  Admins = {a1}
  Ops = {"open", "draw", "add"}
  MaxEditions = 0
  MaxCrashes = 0
INVARIANTS
  CancelledIsEmpty
CHECK_DEADLOCK FALSE
