SPECIFICATION Spec
CONSTANTS
  Admins = {a1, a2}
  Requests = {r1, r2, r3}
  Clients = {c1}
  Tokens = {t1}
  Nobody = Nobody
INVARIANTS
  LastDeveloperStays
CHECK_DEADLOCK FALSE
