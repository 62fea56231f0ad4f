SPECIFICATION FairSpec
CONSTANTS
  None = None
  a1 = a1
  a2 = a2
  g1 = g1
  g2 = g2
  Addr = {a1, a2}
  Gateway = {g1, g2}
  Lease <- MCOneLease
  MaxAnswers = 1
  MaxAlarms = 2
  MaxInbox = 2
PROPERTIES ExpiryIsHandled StoppedClientEnds CrashedClientRestarts
CHECK_DEADLOCK FALSE
