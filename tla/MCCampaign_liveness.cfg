SPECIFICATION FairSpec
CONSTANTS
  Groups = {g1, g2}
  Runners = {w1}
  Requests = {r1}
  Ops = {"stop"}
  Attempts = 1
  SlowSends = FALSE
  MaxCrashes = 1
  MaxFaults = 0
INVARIANTS
  SentMeansEveryGroup
PROPERTIES
  DeliveriesSettle
  CampaignEnds
CHECK_DEADLOCK FALSE
