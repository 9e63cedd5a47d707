SPECIFICATION Spec
CONSTANTS
  Groups = {g1}
  Admins = {a1}
  Editors = {a1}
  Sweepers = {s1}
  MaxAttempts = 2
  MaxFaults = 0
INVARIANTS
  GiveUpIsSeen
CHECK_DEADLOCK FALSE
