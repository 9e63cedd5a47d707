SPECIFICATION FairSpec
CONSTANTS
  Groups = {g1}
  Admins = {a1, a2}
  Editors = {a1}
  Sweepers = {s1}
  MaxAttempts = 2
  MaxFaults = 1
INVARIANTS
  DeletionsSound
  ShownIsStored
PROPERTIES
  AutoDeleteEnds
CHECK_DEADLOCK FALSE
