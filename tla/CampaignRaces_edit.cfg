SPECIFICATION RacesSpec
CONSTANTS
  Groups = {g1, g2}
  Runners = {w1}
  Requests = {r1}
  Ops = {"schedule"}
  Editors = {e1}
  Attempts = 1
  SlowSends = FALSE
  MaxCrashes = 0
  MaxFaults = 0
PROPERTIES
  OnlyUnstartedDeleted
CHECK_DEADLOCK FALSE
