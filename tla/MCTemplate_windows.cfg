SPECIFICATION FairSpec
CONSTANTS
  Rules = {1, 2}
  Lists = {l1, l2}
  Editors = {e1}
  Sweepers = {s1, s2}
  Grace = 0
  MaxClock = 2
INVARIANTS
  FiresOnce
  OccurrenceIsCurrent
  SleptIsNotFired
PROPERTIES
  NotDueForEver
CHECK_DEADLOCK FALSE
