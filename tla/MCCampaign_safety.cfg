SPECIFICATION Spec
CONSTANTS
  Groups = {g1}
  Runners = {w1}
  Requests = {r1, r2}
  Ops = {"schedule", "stop", "resume"}
  Attempts = 2
  SlowSends = TRUE
  MaxCrashes = 1
  MaxFaults = 1
SYMMETRY Symmetry
INVARIANTS
  NoDoublePublish
  RowTellsTheTruth
PROPERTIES
  PublishesOnce
