CONSTANTS
  None = None
  Mac = mac
  home = home
  good = good
  short = short
  client1 = client1
  client2 = client2
  Profile <- MCProfile
  Secret = {good, short}
  Refused = {short}
  Handler = {client1, client2}
  Interfaces = interfaces
  MaxRequests = 2
  MaxFaults = 1
  MaxStarts = 1
SPECIFICATION Spec
SYMMETRY Symmetry
INVARIANTS
  ConfigIsWhole
CHECK_DEADLOCK FALSE
