CONSTANTS
  None = None
  wlan0 = wlan0
  c1 = c1
  Name = {wlan0}
  Wlan = {wlan0}
  Manager = {1, 2, 3}
  Client = {c1}
  MaxChanges = 3
  MaxFaults = 1
SPECIFICATION FairSpec
INVARIANTS
  TypeOK
  DhcpFollows
PROPERTIES
  ClientsAreServed
CHECK_DEADLOCK FALSE
