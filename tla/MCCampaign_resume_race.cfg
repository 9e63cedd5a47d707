SPECIFICATION Spec
CONSTANTS
  Groups = {g1}
  Runners = {w1}
  Requests = {r1, r2}
  Ops = {"stop", "resume"}
  Attempts = 1
  SlowSends = FALSE
  MaxCrashes = 0
  MaxFaults = 0
PROPERTIES
  ConcludedWhenSettled
CHECK_DEADLOCK FALSE
