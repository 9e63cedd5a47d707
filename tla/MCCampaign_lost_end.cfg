SPECIFICATION FairSpec
CONSTANTS
  Groups = {g1}
  Runners = {w1}
  Requests = {r1}
  Ops = {"schedule"}
  Attempts = 1
  SlowSends = FALSE
  MaxCrashes = 1
  MaxFaults = 0
PROPERTIES
  NothingLeftMeansEnd
CHECK_DEADLOCK FALSE
