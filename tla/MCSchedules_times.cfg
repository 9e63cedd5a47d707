CONSTANTS
  Writers = {e1, e2}
  Calendar <- TwoMonths
  Week = 2
  Hours = 2
  MaxMonthday = 2
  Pages <- SomePages
  Stored <- SomeStored
  Zones <- FourZones
  Walls <- SomeWalls
  MaxSaves = 2

SPECIFICATION SchedulesSpec

SYMMETRY Symmetry

INVARIANTS
  FormAndRuleAgree
  NextIsNext

PROPERTIES
  QuietKeepsNext

CHECK_DEADLOCK FALSE
