CONSTANTS
  None = None
  Default = Default
  net1 = net1
  net2 = net2
  gw1 = gw1
  gw2 = gw2
  Oif <- MCOif
  Net <- MCNet
  Gateway = {gw1}
  MaxChanges = 3
  MaxRemovals = 1
SPECIFICATION Spec
INVARIANTS
  GoneIsForgotten
CHECK_DEADLOCK FALSE
