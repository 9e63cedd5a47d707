SPECIFICATION Spec
CONSTANTS
  Messages = {m1}
  Unsent = {}
  Links = {l1, l2}
  Presses = {}
  Edits = {}
  MaxFaults = 0
INVARIANTS
  CounterIsFresh
CHECK_DEADLOCK FALSE
