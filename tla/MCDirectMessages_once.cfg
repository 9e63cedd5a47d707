SPECIFICATION FairSpec
CONSTANTS
  People = {u1, u2}
  Known = {u2}
  Runs = {r1, r2}
  MaxAttempts = 2
  Interval = 1
  MaxWait = 1
  Ttl = 2
  MaxFaults = 1
INVARIANT MessagesSound
PROPERTIES OnceSpec NextCallRescues
CHECK_DEADLOCK FALSE
