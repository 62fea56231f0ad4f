SPECIFICATION Spec
CONSTANTS
  None = None
  a1 = a1
  a2 = a2
  g1 = g1
  g2 = g2
  Addr = {a1, a2}
  Gateway = {g1, g2}
  Lease <- MCLease
  MaxAnswers = 2
  MaxAlarms = 2
  MaxInbox = 2
PROPERTIES ExpiryIsReal
CHECK_DEADLOCK FALSE
