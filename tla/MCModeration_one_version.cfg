SPECIFICATION StopSpec
CONSTANTS
  Groups = {g1, g2}
  Admins = {a1}
  Editors = {a1}
  Sweepers = {}
  MaxAttempts = 2
  MaxFaults = 0
INVARIANTS
  OneVersion
CHECK_DEADLOCK FALSE
