SPECIFICATION RecordsSpec
CONSTANTS
  Requests = {r1, r2, r3}
  Tags = {t0, t1}
  NoTags = t0
  MaxRows = 2
  Uploads = {u1, u2, u3}
  Pngs = {png}
  Pictures = {gif}
  Clips = {clip}
  Texts = {text}
  Old = {clip}
  MaxFaults = 2
  Sweepers = {s1, s2}
  Admins = {a1}
  Before = 1
  Days = {2}
  MaxTime = 3
  MaxWrites = 2
SYMMETRY Symmetry
INVARIANTS
  GroupsSound
  ApprovedUnlessFlagged
  LibrarySound
  NoOrphans
  WarningsSound
  CancelledIsOver
PROPERTIES
  RepeatsAddNothing
CHECK_DEADLOCK FALSE
