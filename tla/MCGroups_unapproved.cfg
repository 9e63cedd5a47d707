SPECIFICATION Spec
CONSTANTS
  Requests = {r1, r2, r3, r4}
  Tags = {t0}
  NoTags = t0
  MaxRows = 1
SYMMETRY Symmetry
INVARIANTS
  ApprovedIfActive
CHECK_DEADLOCK FALSE
