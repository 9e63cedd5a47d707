SPECIFICATION Spec
CONSTANTS
  Admins = {a1, a2}
  Requests = {r1, r2}
  Clients = {c1, c2}
  Tokens = {t1, t2, t3}
  Nobody = Nobody
SYMMETRY Symmetry
INVARIANTS
  DeveloperRemains
  OneSessionPerLogin
  DisabledIsOut
CHECK_DEADLOCK FALSE
