SPECIFICATION FairSpec
CONSTANTS
  Messages = {m1, m2}
  Unsent = {m2}
  Links = {l1}
  Presses = {p1}
  Edits = {e1}
  MaxFaults = 1
INVARIANTS
  ResultsSound
PROPERTIES
  RedrawEnds
CHECK_DEADLOCK FALSE
