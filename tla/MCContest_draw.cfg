SPECIFICATION FairSpec
CONSTANTS
  NoOne = NoOne
  Sweep = Sweep
  People = {p1, p2}
  Places = {1, 2}
  Conditions = {{}, {c1, c2}}
  Admins = {a1}
  Ops = {"open", "add", "prizes", "edit", "extend", "delete", "force",
         "override", "draw", "mark"}
  MaxEditions = 1
  MaxCrashes = 1
INVARIANTS
  PoolIsEveryone
  LogExplainsWinners
  WinnersWereChecked
  CancelledWasEmpty
PROPERTIES
  ResultIsFinal
  DueContestEnds
CHECK_DEADLOCK FALSE
