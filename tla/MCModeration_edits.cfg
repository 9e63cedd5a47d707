SPECIFICATION Spec
CONSTANTS
  Groups = {g1}
  Admins = {a1, a2}
  Editors = {a1, a2}
  Sweepers = {s1}
  MaxAttempts = 2
  MaxFaults = 1
SYMMETRY Symmetry
INVARIANTS
  DeletionsSound
  ShownIsStored
CHECK_DEADLOCK FALSE
