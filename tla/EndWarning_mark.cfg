SPECIFICATION Spec
CONSTANTS
  Sweepers = {s1}
  Admins = {a1}
  Before = 1
  Days = {2}
  MaxTime = 3
  MaxWrites = 2
INVARIANTS
  MarkIsOfThisEnd
CHECK_DEADLOCK FALSE
